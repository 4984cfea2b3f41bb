----------------------------- MODULE GptProofs -----------------------------
(***************************************************************************)
(* Proofs about Gpt for any disks, names, field widths and table sizes.    *)
(***************************************************************************)
EXTENDS Gpt, SequenceTheorems, NatFacts, TLAPS

-----------------------------------------------------------------------------
(* Numbers and names.                                                      *)

\* A word times the sector size, as the code converts it, is an integer.
LEMMA Int64Type == ASSUME NEW n \in Int PROVE Int64(n) \in Int
<1>1. 2 * Half64 \in Nat \ {0}
  BY GptAssumption
<1>2. n % (2 * Half64) \in 0 .. 2 * Half64 - 1
  BY <1>1
<1> QED BY <1>1, <1>2, GptAssumption DEF Int64, Wrapped

\* What fits into an int64 is kept.
LEMMA Int64Keeps == ASSUME NEW n \in Nat, n < Half64 PROVE Int64(n) = n
<1>1. 2 * Half64 \in Nat \ {0} /\ n < 2 * Half64 /\ Half64 \in Nat
  BY GptAssumption
<1>2. n % (2 * Half64) = n
  BY <1>1
<1> QED BY <1>2 DEF Int64, Wrapped

\* A product of naturals is one.
LEMMA Product == ASSUME NEW m \in Nat, NEW n \in Nat PROVE m * n \in Nat
  OBVIOUS

\* It distributes over a sum.
LEMMA Distributes ==
    ASSUME NEW a \in Nat, NEW b \in Nat, NEW c \in Nat
    PROVE  (a + b) * c = a * c + b * c
  OBVIOUS

NameField == [1 .. NameLen -> Units \cup {0}]

Ends(nm, n) ==
    /\ n \in 0 .. NameLen
    /\ \A k \in 1 .. n : nm[k] # 0
    /\ n < NameLen => nm[n + 1] = 0

\* A name has an end: the least place with a 0 after it, or the field's.
LEMMA NameEnds == ASSUME NEW nm \in NameField PROVE Ends(nm, NameEnd(nm))
<1>n. NameLen \in Nat
  BY GptAssumption
<1> DEFINE T == {t \in Nat : t <= NameLen /\ (t < NameLen => nm[t + 1] = 0)}
<1>1. NameLen \in T
  BY <1>n
<1>2. T \in SUBSET Nat
  OBVIOUS
<1>3. \A t \in Nat : t < NameLen /\ nm[t + 1] = 0 => t \in T
  BY <1>n
<1>4. \A t \in T : t \in Nat /\ t <= NameLen /\ (t < NameLen => nm[t + 1] = 0)
  OBVIOUS
<1> HIDE DEF T
<1>5. PICK n \in T : \A m \in T : n <= m
  BY <1>1, <1>2, Least
<1>6. n \in Nat /\ n <= NameLen
  BY <1>4
<1>7. ASSUME NEW k \in 1 .. n, nm[k] = 0 PROVE FALSE
  <2>1. PICK t \in Nat : t + 1 = k
    BY <1>6
  <2>2. t < n /\ t < NameLen /\ nm[t + 1] = 0
    BY <1>n, <1>6, <1>7, <2>1
  <2>3. t \in T
    BY <1>3, <2>2
  <2> QED BY <1>5, <1>6, <2>2, <2>3
<1>8. Ends(nm, n)
  BY <1>n, <1>4, <1>6, <1>7 DEF Ends
<1> QED BY <1>8 DEF Ends, NameEnd

\* The decoded name is the units up to there, none of them 0.
LEMMA DecodedName ==
    ASSUME NEW nm \in NameField
    PROVE  /\ decodeUTF16Name(nm) \in Seq(Units)
           /\ Len(decodeUTF16Name(nm)) = NameEnd(nm)
           /\ \A k \in 1 .. NameEnd(nm) : decodeUTF16Name(nm)[k] = nm[k]
<1> DEFINE e == NameEnd(nm)
<1>1. Ends(nm, e)
  BY NameEnds
<1>2. e \in Nat /\ e <= NameLen /\ NameLen \in Nat
  BY <1>1, GptAssumption DEF Ends
<1>3. \A k \in 1 .. e : nm[k] \in Units
  BY <1>1, <1>2 DEF Ends, NameField
<1> HIDE DEF e
<1>4. /\ SubSeq(nm, 1, e) \in Seq(Units)
      /\ Len(SubSeq(nm, 1, e)) = e
      /\ \A k \in 1 .. e : SubSeq(nm, 1, e)[k] = nm[k]
  BY <1>2, <1>3, SubSeqProperties
<1> QED BY <1>4 DEF e, decodeUTF16Name

\* That is the name wanted where the wanted units are there and then a 0.
LEMMA DecodedIsWanted ==
    ASSUME NEW nm \in NameField, NEW w \in Seq(Units)
    PROVE  decodeUTF16Name(nm) = w <=>
               /\ Len(w) <= NameLen
               /\ \A k \in 1 .. Len(w) : nm[k] = w[k]
               /\ Len(w) < NameLen => nm[Len(w) + 1] = 0
<1> DEFINE e == NameEnd(nm)
           d == decodeUTF16Name(nm)
<1>1. e \in 0 .. NameLen /\ NameLen \in Nat /\ Len(w) \in Nat
  BY NameEnds, GptAssumption DEF Ends
<1>2. /\ \A k \in 1 .. e : nm[k] # 0
      /\ e < NameLen => nm[e + 1] = 0
  BY NameEnds DEF Ends
<1>3. d \in Seq(Units) /\ Len(d) = e /\ \A k \in 1 .. e : d[k] = nm[k]
  BY DecodedName
<1>4. \A k \in 1 .. Len(w) : w[k] # 0
  <2>1. \A k \in 1 .. Len(w) : w[k] \in Units
    BY ElementOfSeq
  <2> QED BY <2>1, GptAssumption
<1> HIDE DEF e, d
<1>5. ASSUME d = w
      PROVE  /\ Len(w) <= NameLen
             /\ \A k \in 1 .. Len(w) : nm[k] = w[k]
             /\ Len(w) < NameLen => nm[Len(w) + 1] = 0
  BY <1>1, <1>2, <1>3, <1>5
<1>6. ASSUME Len(w) <= NameLen,
             \A k \in 1 .. Len(w) : nm[k] = w[k],
             Len(w) < NameLen => nm[Len(w) + 1] = 0
      PROVE  d = w
  <2>1. Len(w) = e
    <3>1. CASE Len(w) < e
      <4>1. Len(w) + 1 \in 1 .. e /\ Len(w) < NameLen
        BY <1>1, <3>1
      <4> QED BY <1>2, <1>6, <4>1
    <3>2. CASE e < Len(w)
      <4>1. e + 1 \in 1 .. Len(w) /\ e < NameLen
        BY <1>1, <1>6, <3>2
      <4>2. nm[e + 1] = 0 /\ nm[e + 1] = w[e + 1] /\ w[e + 1] # 0
        BY <1>2, <1>4, <1>6, <4>1
      <4> QED BY <4>2
    <3> QED BY <1>1, <3>1, <3>2
  <2>2. \A k \in 1 .. Len(d) : d[k] = w[k]
    BY <1>3, <1>6, <2>1
  <2> QED BY <1>3, <2>1, <2>2, SeqEqual
<1> QED BY <1>5, <1>6 DEF d

-----------------------------------------------------------------------------
(* Slots.                                                                  *)

Given == disk \in Disks /\ want \in Wanted

\* A slot holds an entry, of a partition or of zeros.
LEMMA SlotType == ASSUME Given, NEW s \in Int PROVE Slot(disk, s) \in Entry
<1>1. Zeros \in Entry
  <2>1. 0 \in Word64 /\ NameLen \in Nat
    BY GptAssumption DEF Word64
  <2>2. [n \in 1 .. NameLen |-> 0] \in [1 .. NameLen -> Units \cup {0}]
    OBVIOUS
  <2> QED BY <2>1, <2>2 DEF Zeros, Entry
<1>2. \A o \in DOMAIN disk.entries : disk.entries[o] \in Entry
  BY DisksAssumption DEF Given
<1> QED BY <1>1, <1>2 DEF Slot

\* The fields of one.
LEMMA EntryFields ==
    ASSUME NEW e \in Entry
    PROVE  e.first \in Nat /\ e.last \in Nat /\ e.name \in NameField
<1>1. Word64 \subseteq Nat
  BY GptAssumption DEF Word64
<1> QED BY <1>1 DEF Entry, NameField

\* What the code makes of a slot is a partition.
LEMMA PartitionType == ASSUME Given, NEW s \in Int PROVE PartitionOf(disk, s) \in Partition
<1> DEFINE e == Slot(disk, s)
<1>1. e \in Entry
  BY SlotType
<1> HIDE DEF e
<1>2. e.first \in Nat /\ e.last \in Nat /\ e.name \in NameField
  BY <1>1, EntryFields
<1>3. Sector \in Nat
  BY GptAssumption
<1>4. e.first * Sector \in Int /\ (e.last - e.first + 1) * Sector \in Int
  BY <1>2, <1>3
<1>5. Int64(e.first * Sector) \in Int /\ Length(e) \in Int
  BY <1>4, Int64Type DEF Length
<1>6. decodeUTF16Name(e.name) \in Seq(Units)
  BY <1>2, DecodedName
<1>7. Index(s) \in Int
  BY DEF Index
<1> QED BY <1>5, <1>6, <1>7 DEF PartitionOf, Partition, e

\* A slot named as the reference has it is one in use whose decoded name is
\* the one wanted.
LEMMA NamedMeans ==
    ASSUME Given, NEW s \in Int
    PROVE  Named(s) <=> Slot(disk, s).used /\ PartitionOf(disk, s).Name = want
<1>1. EntryAt(s) = Slot(disk, s)
  BY DEF EntryAt, Slot, Stride
<1>2. Slot(disk, s).name \in NameField
  BY SlotType, EntryFields
<1>3. want \in Seq(Units)
  BY GptAssumption DEF Given
<1>4. PartitionOf(disk, s).Name = decodeUTF16Name(Slot(disk, s).name)
  BY DEF PartitionOf
<1> QED BY <1>1, <1>2, <1>3, <1>4, DecodedIsWanted DEF Named

-----------------------------------------------------------------------------
(* The invariant: parts are the used slots read, in their order, and none  *)
(* passed by the search has the name.                                      *)

Listed ==
    /\ \A n \in 1 .. Len(parts) :
          \E s \in 0 .. i - 1 : Slot(disk, s).used /\ parts[n] = PartitionOf(disk, s)
    /\ \A s \in 0 .. i - 1 :
          Slot(disk, s).used => \E n \in 1 .. Len(parts) : parts[n] = PartitionOf(disk, s)
    /\ \A m, n \in 1 .. Len(parts) : m < n => parts[m].Index < parts[n].Index

Searched ==
    /\ pc \in {"find", "found", "none"} => i = disk.numEntries
    /\ \A n \in 1 .. j : parts[n].Name # want
    /\ pc = "none" => j = Len(parts)
    /\ pc = "found" => j < Len(parts) /\ found = parts[j + 1] /\ found.Name = want

IInv == Given /\ TypeOK /\ Listed /\ Searched

\* Nothing is read at first.
LEMMA InitIInv == ASSUME Init PROVE IInv
<1>1. disk \in Disks /\ disk.numEntries \in Nat
  BY DisksAssumption DEF Init
<1>2. NoPartition \in Partition
  BY DEF NoPartition, Partition
<1>3. TypeOK
  BY <1>1, <1>2 DEF Init, TypeOK, Places
<1> QED BY <1>3 DEF Init, IInv, Given, Listed, Searched

\* A slot in use is listed last, with a number above all others.
LEMMA TakeSlotListed == ASSUME IInv, TakeSlot PROVE IInv'
<1> DEFINE p == PartitionOf(disk, i)
<1>1. /\ pc = "slots" /\ i < disk.numEntries /\ Slot(disk, i).used
      /\ parts' = Append(parts, p) /\ i' = i + 1
      /\ UNCHANGED <<pc, disk, want, j, found>>
  BY DEF TakeSlot, MoreSlots
<1>2. /\ i \in Nat /\ disk.numEntries \in Nat /\ parts \in Seq(Partition)
      /\ j \in 0 .. Len(parts) /\ found \in Partition
  BY DisksAssumption DEF IInv, Given, TypeOK
<1>3. p \in Partition /\ p.Index = i + 1
  <2>1. p.Index = i + 1
    BY DEF PartitionOf, Index
  <2> QED BY <1>2, <2>1, PartitionType DEF IInv
<1> HIDE DEF p
<1>4. /\ parts' \in Seq(Partition) /\ Len(parts') = Len(parts) + 1
      /\ \A n \in 1 .. Len(parts) : parts'[n] = parts[n]
      /\ parts'[Len(parts) + 1] = p
  BY <1>1, <1>2, <1>3, AppendProperties
<1>5. Len(parts) \in Nat
  BY <1>2, LenProperties
<1>6. TypeOK'
  BY <1>1, <1>2, <1>4, <1>5 DEF IInv, TypeOK
<1>7. \A n \in 1 .. Len(parts') :
          \E s \in 0 .. i' - 1 : Slot(disk, s).used /\ parts'[n] = PartitionOf(disk, s)
  <2> TAKE n \in 1 .. Len(parts')
  <2>1. CASE n = Len(parts) + 1
    BY <1>1, <1>2, <1>4, <2>1 DEF p
  <2>2. CASE n \in 1 .. Len(parts)
    <3>1. PICK s \in 0 .. i - 1 : Slot(disk, s).used /\ parts[n] = PartitionOf(disk, s)
      BY <2>2 DEF IInv, Listed
    <3>2. s \in 0 .. i' - 1
      BY <1>1, <1>2
    <3> QED BY <1>4, <2>2, <3>1, <3>2
  <2> QED BY <1>4, <1>5, <2>1, <2>2
<1>8. \A s \in 0 .. i' - 1 :
          Slot(disk, s).used => \E n \in 1 .. Len(parts') : parts'[n] = PartitionOf(disk, s)
  <2> SUFFICES ASSUME NEW s \in 0 .. i' - 1, Slot(disk, s).used
               PROVE  \E n \in 1 .. Len(parts') : parts'[n] = PartitionOf(disk, s)
    OBVIOUS
  <2>1. CASE s = i
    BY <1>4, <1>5, <2>1 DEF p
  <2>2. CASE s \in 0 .. i - 1
    <3>1. PICK n \in 1 .. Len(parts) : parts[n] = PartitionOf(disk, s)
      BY <2>2 DEF IInv, Listed
    <3>2. n \in 1 .. Len(parts') /\ parts'[n] = PartitionOf(disk, s)
      BY <1>4, <1>5, <3>1
    <3> QED BY <3>2
  <2> QED BY <1>1, <1>2, <2>1, <2>2
<1>9. \A n \in 1 .. Len(parts) : parts[n].Index < i + 1
  <2> TAKE n \in 1 .. Len(parts)
  <2>1. PICK s \in 0 .. i - 1 : parts[n] = PartitionOf(disk, s)
    BY DEF IInv, Listed
  <2>2. parts[n].Index = s + 1
    BY <2>1 DEF PartitionOf, Index
  <2> QED BY <1>2, <2>2
<1>10. \A m, n \in 1 .. Len(parts') : m < n => parts'[m].Index < parts'[n].Index
  <2> SUFFICES ASSUME NEW m \in 1 .. Len(parts'), NEW n \in 1 .. Len(parts'), m < n
               PROVE  parts'[m].Index < parts'[n].Index
    OBVIOUS
  <2>1. m \in 1 .. Len(parts) /\ parts'[m] = parts[m]
    BY <1>4, <1>5
  <2>2. CASE n = Len(parts) + 1
    BY <1>3, <1>4, <1>9, <2>1, <2>2
  <2>3. CASE n \in 1 .. Len(parts)
    BY <1>4, <2>1, <2>3 DEF IInv, Listed
  <2> QED BY <1>4, <1>5, <2>2, <2>3
<1>11. Listed'
  BY <1>1, <1>7, <1>8, <1>10 DEF Listed
<1>12. Searched'
  BY <1>1, <1>2, <1>4, <1>5 DEF IInv, Searched
<1> QED BY <1>1, <1>6, <1>11, <1>12 DEF IInv, Given

\* A slot that is not in use has no partition in the list.
LEMMA SkipSlotListed == ASSUME IInv, SkipSlot PROVE IInv'
<1>1. /\ pc = "slots" /\ i < disk.numEntries /\ ~Slot(disk, i).used /\ i' = i + 1
      /\ UNCHANGED <<pc, disk, want, parts, j, found>>
  BY DEF SkipSlot, MoreSlots
<1>2. i \in Nat /\ disk.numEntries \in Nat
  BY DisksAssumption DEF IInv, Given, TypeOK
<1>3. TypeOK'
  BY <1>1, <1>2 DEF IInv, TypeOK
<1>4. Listed'
  <2>1. \A n \in 1 .. Len(parts) :
          \E s \in 0 .. i : Slot(disk, s).used /\ parts[n] = PartitionOf(disk, s)
    <3> TAKE n \in 1 .. Len(parts)
    <3>1. PICK s \in 0 .. i - 1 : Slot(disk, s).used /\ parts[n] = PartitionOf(disk, s)
      BY DEF IInv, Listed
    <3>2. s \in 0 .. i
      BY <1>2
    <3> QED BY <3>1, <3>2
  <2>2. \A s \in 0 .. i :
          Slot(disk, s).used => \E n \in 1 .. Len(parts) : parts[n] = PartitionOf(disk, s)
    <3> SUFFICES ASSUME NEW s \in 0 .. i, Slot(disk, s).used
                 PROVE  \E n \in 1 .. Len(parts) : parts[n] = PartitionOf(disk, s)
      OBVIOUS
    <3>1. s \in 0 .. i - 1
      BY <1>1, <1>2
    <3> QED BY <3>1 DEF IInv, Listed
  <2>3. i' - 1 = i
    BY <1>1, <1>2
  <2> QED BY <1>1, <2>1, <2>2, <2>3 DEF IInv, Listed
<1> QED BY <1>1, <1>3, <1>4 DEF IInv, Given, Searched

\* Every step keeps it.
LEMMA StepIInv == ASSUME IInv, [Next]_vars PROVE IInv'
<1>t. /\ i \in Nat /\ disk.numEntries \in Nat /\ i <= disk.numEntries
      /\ parts \in Seq(Partition) /\ Len(parts) \in Nat
      /\ j \in 0 .. Len(parts) /\ found \in Partition /\ pc \in Places
  BY DisksAssumption, LenProperties DEF IInv, Given, TypeOK
<1>0. CASE UNCHANGED vars
  BY <1>0 DEF vars, IInv, Given, TypeOK, Listed, Searched
<1>1. CASE SkipSlot
  BY <1>1, SkipSlotListed
<1>2. CASE TakeSlot
  BY <1>2, TakeSlotListed
<1>3. CASE ReadHeader \/ HeaderFails
  <2>1. pc' \in {"slots", "error"} /\ UNCHANGED <<disk, want, i, parts, j, found>>
    BY <1>3 DEF ReadHeader, HeaderFails
  <2>2. \A n \in 1 .. j : parts[n].Name # want
    BY DEF IInv, Searched
  <2>3. TypeOK' /\ Listed' /\ Given'
    BY <2>1 DEF IInv, TypeOK, Places, Listed, Given
  <2>4. Searched'
    BY <2>1, <2>2 DEF Searched
  <2> QED BY <2>3, <2>4 DEF IInv
<1>4. CASE TableDone
  <2>1. pc' = "find" /\ i = disk.numEntries /\ UNCHANGED <<disk, want, i, parts, j, found>>
    BY <1>t, <1>4 DEF TableDone, MoreSlots
  <2>2. TypeOK' /\ Listed' /\ Given'
    BY <2>1 DEF IInv, TypeOK, Places, Listed, Given
  <2>3. Searched'
    BY <2>1 DEF IInv, Searched
  <2> QED BY <2>2, <2>3 DEF IInv
<1>5. CASE Pass
  <2>1. /\ pc = "find" /\ j < Len(parts) /\ parts[j + 1].Name # want /\ j' = j + 1
        /\ UNCHANGED <<pc, disk, want, i, parts, found>>
    BY <1>5 DEF Pass, Matches
  <2>2. TypeOK' /\ Listed' /\ Given'
    BY <1>t, <2>1 DEF IInv, TypeOK, Places, Listed, Given
  <2>3. \A n \in 1 .. j + 1 : parts[n].Name # want
    <3> TAKE n \in 1 .. j + 1
    <3>1. n = j + 1 \/ n \in 1 .. j
      BY <1>t
    <3> QED BY <2>1, <3>1 DEF IInv, Searched
  <2>4. Searched'
    BY <2>1, <2>3 DEF IInv, Searched
  <2> QED BY <2>2, <2>4 DEF IInv
<1>6. CASE Find
  <2>1. /\ pc = "find" /\ j < Len(parts) /\ parts[j + 1].Name = want
        /\ found' = parts[j + 1] /\ pc' = "found"
        /\ UNCHANGED <<disk, want, i, parts, j>>
    BY <1>6 DEF Find, Matches
  <2>2. parts[j + 1] \in Partition
    <3>1. j + 1 \in 1 .. Len(parts)
      BY <1>t, <2>1
    <3> QED BY <1>t, <3>1, ElementOfSeq
  <2>3. TypeOK' /\ Listed' /\ Given'
    BY <1>t, <2>1, <2>2 DEF IInv, TypeOK, Places, Listed, Given
  <2>4. Searched'
    BY <2>1 DEF IInv, Searched
  <2> QED BY <2>3, <2>4 DEF IInv
<1>7. CASE NotThere
  <2>1. pc = "find" /\ j = Len(parts) /\ pc' = "none" /\ UNCHANGED <<disk, want, i, parts, j, found>>
    BY <1>7 DEF NotThere
  <2>2. TypeOK' /\ Listed' /\ Given'
    BY <2>1 DEF IInv, TypeOK, Places, Listed, Given
  <2>3. Searched'
    BY <2>1 DEF IInv, Searched
  <2> QED BY <2>2, <2>3 DEF IInv
<1> QED BY <1>0, <1>1, <1>2, <1>3, <1>4, <1>5, <1>6, <1>7 DEF Next

\* The invariant holds in every reachable state.
THEOREM Invariance == Spec => []IInv
<1>1. Init => IInv
  BY InitIInv
<1>2. IInv /\ [Next]_vars => IInv'
  BY StepIInv
<1> QED BY <1>1, <1>2, PTL DEF Spec

-----------------------------------------------------------------------------
(* The theorems.                                                           *)

\* Every variable keeps its type, for any disk: names are decoded within their
\* field and wrapped offsets are integers (gpt.go:59-101).
THEOREM TypeCorrect == Spec => []TypeOK
  BY Invariance, PTL DEF IInv

\* What was found is a slot that was read, and it has the name.
LEMMA FoundSlot ==
    ASSUME IInv, pc = "found"
    PROVE  /\ found.Index - 1 \in Slots(disk)
           /\ Slot(disk, found.Index - 1).used
           /\ found = PartitionOf(disk, found.Index - 1)
           /\ found.Name = want
<1>1. /\ j \in Nat /\ Len(parts) \in Nat /\ j + 1 \in 1 .. Len(parts)
      /\ found = parts[j + 1] /\ found.Name = want /\ i = disk.numEntries
  BY LenProperties DEF IInv, TypeOK, Searched
<1>2. PICK s \in 0 .. i - 1 : Slot(disk, s).used /\ found = PartitionOf(disk, s)
  BY <1>1 DEF IInv, Listed
<1>3. found.Index = s + 1
  BY <1>2 DEF PartitionOf, Index
<1>4. found.Index - 1 = s
  BY <1>3
<1> QED BY <1>1, <1>2, <1>4 DEF Slots

\* The partition that is written into is the first slot of the name, and there
\* is no such slot when the search gives up (gpt.go:67-112, inject.go:46-57).
THEOREM FirstIsFound == Spec => []FoundIsFirst
<1>1. IInv => FoundIsFirst
  <2> SUFFICES ASSUME IInv PROVE FoundIsFirst
    OBVIOUS
  <2>t. i \in Nat /\ disk.numEntries \in Nat /\ j \in Nat /\ Len(parts) \in Nat
    BY DisksAssumption, LenProperties DEF IInv, Given, TypeOK
  <2>1. ASSUME NEW s \in Slots(disk), Named(s), i = disk.numEntries
        PROVE  \E n \in 1 .. Len(parts) :
                   parts[n].Index = s + 1 /\ parts[n].Name = want
    <3>1. s \in 0 .. i - 1 /\ Slot(disk, s).used /\ PartitionOf(disk, s).Name = want
      BY <2>t, <2>1, NamedMeans DEF IInv, Slots
    <3>2. PICK n \in 1 .. Len(parts) : parts[n] = PartitionOf(disk, s)
      BY <3>1 DEF IInv, Listed
    <3>3. PartitionOf(disk, s).Index = s + 1
      BY DEF PartitionOf, Index
    <3> QED BY <3>1, <3>2, <3>3
  <2>2. ASSUME pc = "none" PROVE \A s \in Slots(disk) : ~Named(s)
    BY <2>1, <2>2 DEF IInv, Searched
  <2>3. ASSUME pc = "found"
        PROVE  /\ found.Index - 1 \in Slots(disk)
               /\ Named(found.Index - 1)
               /\ \A s \in 0 .. found.Index - 2 : ~Named(s)
    <3>1. /\ found.Index - 1 \in Slots(disk)
          /\ Slot(disk, found.Index - 1).used
          /\ found = PartitionOf(disk, found.Index - 1)
          /\ found.Name = want
      BY <2>3, FoundSlot
    <3>2. found.Index \in Int /\ found.Index - 1 < disk.numEntries
      BY <3>1, <2>t DEF IInv, TypeOK, Partition, Slots
    <3>3. Named(found.Index - 1)
      <4>1. found.Index - 1 \in Int
        BY <3>2
      <4> QED BY <3>1, <4>1, NamedMeans DEF IInv
    <3>4. ASSUME NEW s \in 0 .. found.Index - 2, Named(s) PROVE FALSE
      <4>1. s \in Slots(disk)
        BY <2>t, <3>2 DEF Slots
      <4>2. PICK n \in 1 .. Len(parts) : parts[n].Index = s + 1 /\ parts[n].Name = want
        BY <2>1, <2>3, <3>4, <4>1 DEF IInv, Searched
      <4>3. /\ j < Len(parts) /\ found = parts[j + 1]
            /\ \A m \in 1 .. j : parts[m].Name # want
        BY <2>3 DEF IInv, Searched
      <4>4. n \notin 1 .. j
        BY <4>2, <4>3
      <4>5. n = j + 1 \/ j + 1 < n
        BY <2>t, <4>4
      <4>6. j + 1 \in 1 .. Len(parts)
        BY <2>t, <4>3
      <4>7. CASE n = j + 1
        BY <3>2, <4>2, <4>3, <4>7
      <4>8. CASE j + 1 < n
        <5>1. parts[j + 1].Index < parts[n].Index
          BY <4>2, <4>6, <4>8 DEF IInv, Listed
        <5> QED BY <3>2, <4>2, <4>3, <5>1
      <4> QED BY <4>5, <4>7, <4>8
    <3> QED BY <3>1, <3>3, <3>4
  <2> QED BY <2>2, <2>3 DEF FoundIsFirst
<1> QED BY <1>1, Invariance, PTL

\* A partition inside the disk is found at its own bytes: on a disk that is
\* shorter than 2^63 nothing wraps (gpt.go:22-23).
THEOREM FoundAtItsBytes == Spec => []FoundIsWhere
<1>1. IInv => FoundIsWhere
  <2> SUFFICES ASSUME IInv, pc = "found",
                      NEW e, e = EntryAt(found.Index - 1),
                      e.first <= e.last, (e.last + 1) * Sector <= disk.size
               PROVE  /\ found.Start = e.first * Sector
                      /\ found.Start + found.Length = (e.last + 1) * Sector
    BY DEF FoundIsWhere
  <2>1. found = PartitionOf(disk, found.Index - 1) /\ found.Index - 1 \in Int
    BY FoundSlot DEF IInv, TypeOK, Partition
  <2>2. e = Slot(disk, found.Index - 1)
    BY DEF EntryAt, Slot, Stride
  <2>3. e.first \in Nat /\ e.last \in Nat
    BY <2>1, <2>2, SlotType, EntryFields DEF IInv
  <2>4. Sector \in Nat /\ Half64 \in Nat /\ disk.size \in Nat /\ disk.size < Half64
    BY GptAssumption, DisksAssumption DEF IInv, Given
  <2>5. PICK q \in Nat : e.last + 1 = e.first + q
    <3>1. e.last + 1 - e.first \in Nat /\ e.last + 1 = e.first + (e.last + 1 - e.first)
      BY <2>3
    <3> QED BY <3>1
  <2>6. e.last - e.first + 1 = q
    BY <2>3, <2>5
  <2>7. (e.last + 1) * Sector = e.first * Sector + q * Sector
    <3>1. (e.first + q) * Sector = e.first * Sector + q * Sector
      BY <2>3, <2>4, Distributes
    <3> QED BY <2>5, <3>1
  <2>8. e.first * Sector \in Nat /\ q * Sector \in Nat
    BY <2>3, <2>4, Product
  <2>9. e.first * Sector < Half64 /\ q * Sector < Half64
    BY <2>4, <2>7, <2>8
  <2>10. Int64(e.first * Sector) = e.first * Sector
    BY <2>8, <2>9, Int64Keeps
  <2>11. Int64(q * Sector) = q * Sector
    BY <2>8, <2>9, Int64Keeps
  <2>12. found.Start = Int64(e.first * Sector) /\ found.Length = Int64(q * Sector)
    BY <2>1, <2>2, <2>6 DEF PartitionOf, Length
  <2> QED BY <2>7, <2>10, <2>11, <2>12
<1> QED BY <1>1, Invariance, PTL
=============================================================================
