-------------------------------- MODULE Gpt --------------------------------
(***************************************************************************)
(* ReadGPT and FindPartition of gpt.go, as Inject calls them: the loop     *)
(* over the slots of the primary table, and the search for a name.         *)
(*                                                                         *)
(* A disk is what its header says, and the entries at their byte offsets;  *)
(* elsewhere it has zeros.  A name is its UTF-16 units, 0 after the last;  *)
(* units are well formed.  Words keep a reduced width.                     *)
(***************************************************************************)
EXTENDS Integers, Sequences

CONSTANTS
    Sector,      \* sectorSize, 512
    HeaderLen,   \* bytes of the header that are read, 92
    MinEntry,    \* bytes an entry has at least, 128
    MaxSlots,    \* entries a table has at most, 1024
    Half64,      \* 2^63
    Units,       \* UTF-16 units but 0
    NameLen,     \* units of the name field, 36
    Disks,       \* the images
    Wanted       \* what --partition may be

gptHeaderLBA == 1
Word64   == 0 .. 2 * Half64 - 1
Wrapped(n) == n % (2 * Half64)
Int64(n)   == IF Wrapped(n) < Half64 THEN Wrapped(n) ELSE Wrapped(n) - 2 * Half64

Entry == [used: BOOLEAN, first: Word64, last: Word64, name: [1 .. NameLen -> Units \cup {0}]]
Zeros == [used |-> FALSE, first |-> 0, last |-> 0, name |-> [n \in 1 .. NameLen |-> 0]]

ASSUME GptAssumption ==
    /\ Sector \in Nat \ {0} /\ HeaderLen \in Nat /\ MinEntry \in Nat \ {0}
    /\ MaxSlots \in Nat /\ Half64 \in Nat \ {0} /\ NameLen \in Nat
    /\ Units \subseteq Nat \ {0}
    /\ Wanted \subseteq Seq(Units)

ASSUME DisksAssumption ==
    \A d \in Disks :
        /\ d.size \in Nat /\ d.size < Half64 /\ d.sig \in BOOLEAN
        /\ d.entryLBA \in Word64 /\ d.numEntries \in Nat /\ d.entrySize \in Nat
        /\ DOMAIN d.entries \subseteq Int
        /\ \A o \in DOMAIN d.entries : d.entries[o] \in Entry

VARIABLES
    pc,      \* where the code is
    disk,    \* the image
    want,    \* o.Partition
    i,       \* slots read
    parts,   \* the partitions found
    j,       \* partitions compared with the name
    found    \* what FindPartition returned

vars == <<pc, disk, want, i, parts, j, found>>

-----------------------------------------------------------------------------
(* The header and a slot.                                                  *)

HeaderReadable(d) == gptHeaderLBA * Sector + HeaderLen <= d.size

Plausible(d) == d.entrySize >= MinEntry /\ d.numEntries > 0 /\ d.numEntries <= MaxSlots

TableAt(d) == Int64(d.entryLBA * Sector)
\* The code makes room for the whole table before it reads (gpt.go:48), 4 TiB at
\* most: that the memory may run out first is not modelled, a table past the
\* disk's end is an error here.
TableReadable(d) == TableAt(d) >= 0 /\ TableAt(d) + d.numEntries * d.entrySize <= d.size

StrideOfMin(d) == MinEntry
Stride(d) == d.entrySize

Slots(d) == 0 .. d.numEntries - 1
Slot(d, s) ==
    LET o == TableAt(d) + s * Stride(d)
    IN  IF o \in DOMAIN d.entries THEN d.entries[o] ELSE Zeros

\* decodeUTF16Name stops at the first 0, or at the end of the field.
NameEnd(nm) ==
    CHOOSE n \in 0 .. NameLen :
        /\ \A k \in 1 .. n : nm[k] # 0
        /\ n < NameLen => nm[n + 1] = 0
decodeUTF16Name(nm) == SubSeq(nm, 1, NameEnd(nm))

LengthOpenEnded(e) == Int64((e.last - e.first) * Sector)
Length(e) == Int64((e.last - e.first + 1) * Sector)

Index(s) == s + 1

PartitionOf(d, s) ==
    [Index |-> Index(s), Name |-> decodeUTF16Name(Slot(d, s).name),
     Start |-> Int64(Slot(d, s).first * Sector), Length |-> Length(Slot(d, s))]

NoPartition == [Index |-> 0, Name |-> <<>>, Start |-> 0, Length |-> 0]
Partition == [Index: Int, Name: Seq(Units), Start: Int, Length: Int]

-----------------------------------------------------------------------------
(* ReadGPT, then FindPartition.                                            *)

Places == {"header", "slots", "find", "found", "none", "error"}

\* What the code works out has its type, and neither loop passes its end
\* (gpt.go); the image and the name it was given stay as they are.
TypeOK ==
    /\ pc \in Places
    /\ i \in 0 .. disk.numEntries
    /\ parts \in Seq(Partition)
    /\ j \in 0 .. Len(parts)
    /\ found \in Partition

Init ==
    /\ pc = "header"
    /\ disk \in Disks /\ want \in Wanted
    /\ i = 0 /\ parts = <<>> /\ j = 0 /\ found = NoPartition

HeaderGood ==
    HeaderReadable(disk) /\ disk.sig /\ Plausible(disk) /\ TableReadable(disk)

ReadHeader ==
    /\ pc = "header" /\ HeaderGood
    /\ pc' = "slots"
    /\ UNCHANGED <<disk, want, i, parts, j, found>>

HeaderFails ==
    /\ pc = "header" /\ ~HeaderGood
    /\ pc' = "error"
    /\ UNCHANGED <<disk, want, i, parts, j, found>>

MoreSlotsTooFar == i <= disk.numEntries
MoreSlots == i < disk.numEntries

\* An all-zero type GUID: the slot is unused.
SkipSlot ==
    /\ pc = "slots" /\ MoreSlots /\ ~Slot(disk, i).used
    /\ i' = i + 1
    /\ UNCHANGED <<pc, disk, want, parts, j, found>>

TakeSlot ==
    /\ pc = "slots" /\ MoreSlots /\ Slot(disk, i).used
    /\ parts' = Append(parts, PartitionOf(disk, i))
    /\ i' = i + 1
    /\ UNCHANGED <<pc, disk, want, j, found>>

TableDone ==
    /\ pc = "slots" /\ ~MoreSlots
    /\ pc' = "find"
    /\ UNCHANGED <<disk, want, i, parts, j, found>>

Matches(p) == p.Name = want

Pass ==
    /\ pc = "find" /\ j < Len(parts) /\ ~Matches(parts[j + 1])
    /\ j' = j + 1
    /\ UNCHANGED <<pc, disk, want, i, parts, found>>

Find ==
    /\ pc = "find" /\ j < Len(parts) /\ Matches(parts[j + 1])
    /\ found' = parts[j + 1]
    /\ pc' = "found"
    /\ UNCHANGED <<disk, want, i, parts, j>>

\* Inject says which partitions there are.
NotThere ==
    /\ pc = "find" /\ j = Len(parts)
    /\ pc' = "none"
    /\ UNCHANGED <<disk, want, i, parts, j, found>>

Next ==
    \/ ReadHeader \/ HeaderFails \/ SkipSlot \/ TakeSlot \/ TableDone
    \/ Pass \/ Find \/ NotThere

Spec == Init /\ [][Next]_vars

-----------------------------------------------------------------------------
(* Properties.  The reference reads the table afresh.                      *)

EntryAt(s) ==
    LET o == TableAt(disk) + s * disk.entrySize
    IN  IF o \in DOMAIN disk.entries THEN disk.entries[o] ELSE Zeros
Named(s) ==
    /\ EntryAt(s).used
    /\ Len(want) <= NameLen
    /\ \A k \in 1 .. Len(want) : EntryAt(s).name[k] = want[k]
    /\ Len(want) < NameLen => EntryAt(s).name[Len(want) + 1] = 0

\* The partition Inject writes into is the first slot with the name it was
\* given, at the number an operator counts slots by, and it gives up only when
\* no slot has the name, wherever unused slots are and however long entries are.
FoundIsFirst ==
    /\ pc = "found" =>
          /\ found.Index - 1 \in Slots(disk)
          /\ Named(found.Index - 1)
          /\ \A s \in 0 .. found.Index - 2 : ~Named(s)
    /\ pc = "none" => \A s \in Slots(disk) : ~Named(s)

\* A partition inside the disk is found at its own bytes, the last sector
\* included: "Start int64 // bytes", "Length int64 // bytes" (gpt.go:22-23).
FoundIsWhere ==
    pc = "found" =>
        LET e == EntryAt(found.Index - 1)
        IN  e.first <= e.last /\ (e.last + 1) * Sector <= disk.size =>
                /\ found.Start = e.first * Sector
                /\ found.Start + found.Length = (e.last + 1) * Sector
=============================================================================
