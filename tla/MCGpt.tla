------------------------------- MODULE MCGpt -------------------------------
(***************************************************************************)
(* Disks for TLC: sectors of 4 bytes, tables of up to three slots with     *)
(* entries of 2 or 3 bytes, at the usual place, further on, past the end   *)
(* and where the offset wraps.                                             *)
(***************************************************************************)
EXTENDS Gpt

S == 83
T == 84
MCUnits == {S, T}
MCWanted == {<<S>>, <<S, T>>, <<S, T, S>>}

E(first, last, name) == [used |-> TRUE, first |-> first, last |-> last, name |-> name]
Entries ==
    {Zeros,
     E(4, 5, <<S, 0>>), E(6, 7, <<S, T>>), E(4, 7, <<T, S>>),
     E(6, 6, <<S, 0>>), E(5, 4, <<S, 0>>), E(20, 21, <<S, 0>>),
     [E(6, 7, <<S, T>>) EXCEPT !.used = FALSE]}

Place(lba) == (lba * Sector) % (2 * Half64)
Disk(lba, stride, table) ==
    [size |-> 32, sig |-> TRUE, entryLBA |-> lba, numEntries |-> Len(table),
     entrySize |-> stride,
     entries |-> [o \in {Place(lba) + (s - 1) * stride : s \in DOMAIN table} |->
                     table[((o - Place(lba)) \div stride) + 1]]]

Tables == UNION {[1 .. n -> Entries] : n \in 0 .. 3}

MCDisks ==
    {Disk(lba, stride, t) : lba \in {2, 3}, stride \in {2, 3}, t \in Tables}
    \cup {Disk(lba, 2, t) : lba \in {8, 10, 18}, t \in [1 .. 2 -> Entries]}
    \cup {Disk(2, 1, <<Zeros>>), Disk(2, 2, [n \in 1 .. 4 |-> Zeros]),
          [Disk(2, 2, <<Zeros>>) EXCEPT !.sig = FALSE],
          [Disk(2, 2, <<Zeros>>) EXCEPT !.size = 5]}
=============================================================================
