----------------------------- MODULE ZipStream -----------------------------
(***************************************************************************)
(* ReadLocalHeader of zipstream.go: what one local file header announces.  *)
(*                                                                         *)
(* A header is the fields the code reads.  The extra field is the sequence *)
(* of records parseZip64Extra walks; `fits' is FALSE for a record whose    *)
(* size reaches past the end of the field.  Sizes count units of the       *)
(* stream, in fields of a reduced width.                                   *)
(***************************************************************************)
EXTENDS Integers, Sequences

CONSTANTS
    Max32,   \* 0xFFFFFFFF, which says that the size is in the zip64 record
    Half64   \* 2^63: from here on a uint64 is negative as an int64

ASSUME WidthAssumption ==
    Max32 \in Nat \ {0} /\ Half64 \in Nat /\ Max32 < Half64

sizeUnknown == -1

Word32 == 0 .. Max32
Word64 == 0 .. 2 * Half64 - 1
Int64(w) == IF w < Half64 THEN w ELSE w - 2 * Half64

Methods == {"store", "deflate", "other"}
Extra   == [id: {"zip64", "other"}, size: Nat, fits: BOOLEAN, un: Word64, comp: Word64]
Header  == [sig: BOOLEAN, dd: BOOLEAN, method: Methods,
            un: Word32, comp: Word32, extra: Seq(Extra)]
Sizes   == [un: Int, comp: Int]

\* The records with both sizes, and the one the walk stops at: it gives up at
\* a record that does not fit.
UsableSized(r) == r.id = "zip64" /\ r.size >= 16
UsableAnySize(r) == r.id = "zip64"
Usable(r) == UsableSized(r)

parseZip64Extra(extra) ==
    {i \in DOMAIN extra :
        /\ Usable(extra[i])
        /\ \A j \in 1 .. i : extra[j].fits
        /\ \A j \in 1 .. i - 1 : ~Usable(extra[j])}

Zip64(h) == h.un = Max32 \/ h.comp = Max32

\* ReadLocalHeader returns an error.
HeaderRefused(h) ==
    \/ ~h.sig
    \/ Zip64(h) /\ parseZip64Extra(h.extra) = {}

\* The zip64 record has the uncompressed size first.
RecordSizes(r) == [un |-> Int64(r.un), comp |-> Int64(r.comp)]

HeaderSizes(h) ==
    IF h.dd
    THEN [un |-> sizeUnknown, comp |-> sizeUnknown]
    ELSE IF Zip64(h)
    THEN RecordSizes(h.extra[CHOOSE i \in parseZip64Extra(h.extra) : TRUE])
    ELSE [un |-> h.un, comp |-> h.comp]
=============================================================================
