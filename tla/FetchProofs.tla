---------------------------- MODULE FetchProofs ----------------------------
(***************************************************************************)
(* Proofs about Fetch for any number of processes, any archives and any    *)
(* manifests, and without a bound on runs, faults or kills; and for one    *)
(* process, that what it publishes is the image, and that it gets there.   *)
(***************************************************************************)
EXTENDS Fetch, FiniteSetTheorems, SequenceTheorems, TLAPS

-----------------------------------------------------------------------------
(* What one action needs.                                                  *)

\* What a sequence over a set holds is in the set.
LEMMA ElementType == ASSUME NEW S, NEW s \in Seq(S), NEW i \in DOMAIN s PROVE s[i] \in S
  OBVIOUS

\* The head and the tail of what is not empty.
LEMMA HeadTailType ==
    ASSUME NEW S, NEW s \in Seq(S), s # <<>> PROVE Head(s) \in S /\ Tail(s) \in Seq(S)
  OBVIOUS

\* os.Create finds an inode that no name leads to and no process has open.
LEMMA FreeInode == ASSUME TypeOK PROVE \E i \in Inodes : i \notin InUse
<1> DEFINE Open == {sink[p].fd : p \in Procs}
           Opener == [p \in Procs |-> sink[p].fd]
<1>1. Opener \in Surjection(Procs, Open)
  BY DEF Surjection
<1>2. IsFiniteSet(Open) /\ Cardinality(Open) <= Cardinality(Procs)
  <2> HIDE DEF Open, Opener
  <2> QED BY <1>1, FS_Surjection, FetchAssumption
<1> HIDE DEF Open, Opener
<1> DEFINE Used1 == Open \cup {name["out"]}
           Used2 == Used1 \cup {name["partial"]}
<1>3. IsFiniteSet(Used1) /\ Cardinality(Used1) <= Cardinality(Procs) + 1
  <2>1. Cardinality(Open) \in Nat /\ Cardinality(Procs) \in Nat
    BY <1>2, FS_CardinalityType, FetchAssumption
  <2>2. /\ IsFiniteSet(Used1)
        /\ Cardinality(Used1) = Cardinality(Open) \/ Cardinality(Used1) = Cardinality(Open) + 1
    BY <1>2, FS_AddElement
  <2> QED BY <1>2, <2>1, <2>2
<1> HIDE DEF Used1
<1>4. IsFiniteSet(Used2) /\ Cardinality(Used2) <= Cardinality(Procs) + 2
  <2>1. Cardinality(Used1) \in Nat /\ Cardinality(Procs) \in Nat
    BY <1>3, FS_CardinalityType, FetchAssumption
  <2> QED BY <1>3, <2>1, FS_AddElement
<1>5. InUse = Used2
  BY DEF InUse, Used1, Open
<1> HIDE DEF Used2
<1> SUFFICES ASSUME Inodes \subseteq InUse PROVE FALSE
  OBVIOUS
<1>6. Cardinality(Inodes) <= Cardinality(Used2)
  BY <1>4, <1>5, FS_Subset
<1>7. Cardinality(Inodes) \in Nat /\ Cardinality(Used2) \in Nat /\ Cardinality(Procs) \in Nat
  BY <1>4, FS_CardinalityType, FetchAssumption
<1> QED BY <1>4, <1>6, <1>7, FetchAssumption

\* The inode os.Create opens is one.
LEMMA CreatedType == ASSUME TypeOK PROVE Created \in Inodes
<1>1. name["partial"] \in Inodes \cup {NoInode}
  BY DEF TypeOK
<1> QED BY <1>1, FreeInode DEF Created

\* The units of an archive on the wire are units.
LEMMA WireType == ASSUME NEW o \in Offers PROVE WireOf(o.archive) \in Seq(Units)
<1>1. o.archive.body \in Seq(Units) /\ o.archive.tail \in Seq(Units)
  BY FetchAssumption DEF Offer, Archive
<1>2. "hdr" \in Units
  BY FetchAssumption DEF Marks
<1>3. <<"hdr">> \in Seq(Units)
  BY <1>2
<1> QED BY <1>1, <1>3, ConcatProperties DEF WireOf

\* The sizes a header announces are int64, whatever it holds.
LEMMA SizesType ==
    ASSUME NEW h \in Header, ~HeaderRefused(h)
    PROVE  HeaderSizes(h).comp \in Int
<1>1. CASE h.dd
  BY <1>1 DEF HeaderSizes, sizeUnknown
<1>2. CASE ~h.dd /\ Zip64(h)
  <2> DEFINE i == CHOOSE k \in parseZip64Extra(h.extra) : TRUE
  <2>1. parseZip64Extra(h.extra) # {}
    BY <1>2 DEF HeaderRefused
  <2>2. i \in DOMAIN h.extra
    BY <2>1 DEF parseZip64Extra
  <2>3. h.extra \in Seq(Extra)
    BY DEF Header
  <2> HIDE DEF i
  <2>4. h.extra[i] \in Extra
    BY <2>2, <2>3, ElementType
  <2>5. h.extra[i].comp \in Word64
    BY <2>4 DEF Extra
  <2>6. Int64(h.extra[i].comp) \in Int
    BY <2>5, WidthAssumption DEF Word64, Int64
  <2>7. HeaderSizes(h) = RecordSizes(h.extra[i])
    BY <1>2 DEF HeaderSizes, i
  <2> QED BY <2>6, <2>7 DEF RecordSizes
<1>3. CASE ~h.dd /\ ~Zip64(h)
  <2>1. h.comp \in Int
    BY WidthAssumption DEF Header, Word32
  <2> QED BY <1>3, <2>1 DEF HeaderSizes
<1> QED BY <1>1, <1>2, <1>3

\* A write extends a file or replaces a unit; what it skips reads as a hole.
LEMMA WriteType ==
    ASSUME NEW s \in Seq(Units), NEW off \in Nat, NEW u \in Units
    PROVE  WriteAt(s, off, u) \in Seq(Units)
<1> DEFINE n == IF off < Len(s) THEN Len(s) ELSE off + 1
           At(i) == IF i = off + 1 THEN u ELSE IF i <= Len(s) THEN s[i] ELSE "hole"
<1>1. n \in Nat
  OBVIOUS
<1>2. "hole" \in Units
  BY FetchAssumption DEF Marks
<1>3. ASSUME NEW i \in 1 .. n PROVE At(i) \in Units
  <2>1. i \in Nat /\ Len(s) \in Nat /\ i >= 1
    BY <1>1
  <2>2. i <= Len(s) => s[i] \in Units
    BY <2>1, ElementType
  <2> QED BY <1>2, <2>2
<1>4. WriteAt(s, off, u) = [i \in 1 .. n |-> At(i)]
  BY DEF WriteAt
<1> HIDE DEF n, At
<1>5. [i \in 1 .. n |-> At(i)] \in Seq(Units)
  BY <1>1, <1>3, IsASeq
<1> QED BY <1>4, <1>5

-----------------------------------------------------------------------------
(* Every action keeps the types.                                           *)

\* The network's part of the state.
NetType == [wire: Seq(Units), broken: BOOLEAN, pulled: Seq(Units)]

\* What is pulled off the wire are units, and units are left.
LEMMA PullType ==
    ASSUME TypeOK, NEW p \in Procs, net[p].wire # <<>>, Pull(p)
    PROVE  net' \in [Procs -> NetType]
<1>1. net \in [Procs -> NetType] /\ net[p].wire \in Seq(Units) /\ net[p].pulled \in Seq(Units)
  BY DEF TypeOK, NetType
<1>2. Head(net[p].wire) \in Units /\ Tail(net[p].wire) \in Seq(Units)
  BY <1>1, HeadTailType
<1>3. Append(net[p].pulled, Head(net[p].wire)) \in Seq(Units)
  BY <1>1, <1>2
<1>4. net' = [net EXCEPT ![p] =
          [@ EXCEPT !.wire = Tail(net[p].wire), !.pulled = Append(net[p].pulled, Head(net[p].wire))]]
  BY DEF Pull
<1> QED BY <1>1, <1>2, <1>3, <1>4 DEF NetType

\* So is what goes wrong: one more fault, and the run is not clean.
HistType == [runs: [Procs -> Nat], clean: [Procs -> BOOLEAN], faults: Nat, kills: Nat]

LEMMA StrikeType == ASSUME TypeOK, NEW p \in Procs, Strike(p) PROVE hist' \in HistType
<1>1. hist \in HistType
  BY DEF TypeOK, HistType
<1>2. hist.faults + 1 \in Nat /\ [hist.clean EXCEPT ![p] = FALSE] \in [Procs -> BOOLEAN]
  BY <1>1 DEF HistType
<1>3. hist' = [hist EXCEPT !.faults = hist.faults + 1,
                           !.clean = [hist.clean EXCEPT ![p] = FALSE]]
  BY DEF Strike
<1> QED BY <1>1, <1>2, <1>3 DEF HistType

\* An error return keeps the types.
LEMMA RetreatType ==
    ASSUME TypeOK, NEW p \in Procs, pc[p] \notin {"idle", "create"}, Retreat(p),
           UNCHANGED hist \/ Strike(p)
    PROVE  TypeOK'
<1>1. pc' \in [Procs -> Places]
  BY DEF TypeOK, Retreat, Goto, Places
<1>2. hist' \in HistType
  BY StrikeType DEF TypeOK, HistType
<1>3. \A q \in Procs : pc'[q] \notin {"idle", "create"} => sink'[q].fd # NoInode
  BY DEF TypeOK, Retreat, Goto
<1> QED BY <1>1, <1>2, <1>3 DEF TypeOK, Retreat, HistType

\* So do the steps that only go on.
LEMMA GoOnType ==
    ASSUME TypeOK, NEW p \in Procs, NEW place \in Places, pc[p] \notin {"idle", "create"},
           Goto(p, place), UNCHANGED <<job, sink, outcome, name, content, hist>>,
           net' \in [Procs -> NetType]
    PROVE  TypeOK'
<1>1. pc' \in [Procs -> Places]
  BY DEF TypeOK, Goto
<1>2. \A q \in Procs : pc'[q] \notin {"idle", "create"} => sink'[q].fd # NoInode
  BY DEF TypeOK, Goto
<1> QED BY <1>1, <1>2 DEF TypeOK, NetType

\* So does a process that returns or is killed.
LEMMA ReturnType ==
    ASSUME TypeOK, NEW p \in Procs, Goto(p, "idle"),
           NEW how \in Outcomes, outcome' = [outcome EXCEPT ![p] = how],
           UNCHANGED <<net, sink>>
           \/ (net' = [net EXCEPT ![p] = NoNet] /\ sink' = [sink EXCEPT ![p] = NoSink]),
           name' \in [{"out", "partial"} -> Inodes \cup {NoInode}],
           UNCHANGED <<job, content>>, hist' \in HistType
    PROVE  TypeOK'
<1>1. pc' \in [Procs -> Places] /\ outcome' \in [Procs -> Outcomes]
  BY DEF TypeOK, Goto, Places
<1>2. net' \in [Procs -> NetType]
  <2>1. NoNet \in NetType
    BY DEF NoNet, NetType
  <2> QED BY <2>1 DEF TypeOK, NetType
<1>3. sink' \in [Procs -> [fd: Inodes \cup {NoInode}, written: Nat, left: Int]]
  <2>1. NoSink \in [fd: Inodes \cup {NoInode}, written: Nat, left: Int]
    BY DEF NoSink
  <2> QED BY <2>1 DEF TypeOK
<1>4. \A q \in Procs : pc'[q] \notin {"idle", "create"} => sink'[q].fd # NoInode
  BY DEF TypeOK, Goto
<1> QED BY <1>1, <1>2, <1>3, <1>4 DEF TypeOK, NetType, HistType

\* A command starts.
LEMMA StartType == ASSUME TypeOK, NEW p \in Procs, Start(p) PROVE TypeOK'
<1>1. pc' \in [Procs -> Places] /\ outcome' \in [Procs -> Outcomes]
  BY DEF TypeOK, Start, Goto, Places, Outcomes
<1>2. job' \in [Procs -> [offer: Offers, verify: BOOLEAN]]
  <2>1. PICK o \in Offers, v \in Verify : job' = [job EXCEPT ![p] = [offer |-> o, verify |-> v]]
    BY DEF Start
  <2>2. [offer |-> o, verify |-> v] \in [offer: Offers, verify: BOOLEAN]
    BY FetchAssumption
  <2> QED BY <2>1, <2>2 DEF TypeOK
<1>3. hist' \in HistType
  <2>1. hist \in HistType
    BY DEF TypeOK, HistType
  <2>2. /\ [hist.runs EXCEPT ![p] = hist.runs[p] + 1] \in [Procs -> Nat]
        /\ [hist.clean EXCEPT ![p] = TRUE] \in [Procs -> BOOLEAN]
    BY <2>1 DEF HistType
  <2>3. hist' = [hist EXCEPT !.runs = [hist.runs EXCEPT ![p] = hist.runs[p] + 1],
                             !.clean = [hist.clean EXCEPT ![p] = TRUE]]
    BY DEF Start
  <2> QED BY <2>1, <2>2, <2>3 DEF HistType
<1>4. \A q \in Procs : pc'[q] \notin {"idle", "create"} => sink'[q].fd # NoInode
  BY DEF TypeOK, Start, Goto
<1> QED BY <1>1, <1>2, <1>3, <1>4 DEF TypeOK, Start, HistType

\* The temporary file is opened, empty.
LEMMA CreateType == ASSUME TypeOK, NEW p \in Procs, Create(p) PROVE TypeOK'
<1>1. Created \in Inodes /\ Created # NoInode
  BY CreatedType, FetchAssumption
<1> HIDE DEF Created
<1>2. pc' \in [Procs -> Places]
  BY DEF TypeOK, Create, Goto, Places
<1>3. name' \in [{"out", "partial"} -> Inodes \cup {NoInode}]
  BY <1>1 DEF TypeOK, Create
<1>4. content' \in [Inodes -> Seq(Units)]
  BY <1>1 DEF TypeOK, Create
<1>5. sink' \in [Procs -> [fd: Inodes \cup {NoInode}, written: Nat, left: Int]]
  BY <1>1 DEF TypeOK, Create
<1>6. \A q \in Procs : pc'[q] \notin {"idle", "create"} => sink'[q].fd # NoInode
  BY <1>1 DEF TypeOK, Create, Goto
<1> QED BY <1>2, <1>3, <1>4, <1>5, <1>6 DEF TypeOK, Create

\* The response comes, whole, cut or spoiled.
LEMMA GetType == ASSUME TypeOK, NEW p \in Procs, Get(p) PROVE TypeOK'
<1> DEFINE w == WireOf(job[p].offer.archive)
<1>1. w \in Seq(Units)
  BY WireType DEF TypeOK
<1>2. "bad" \in Units
  BY FetchAssumption DEF Marks
<1> HIDE DEF w
<1>3. PICK wire \in Seq(Units), broken \in BOOLEAN :
          /\ net' = [net EXCEPT ![p] = [wire |-> wire, broken |-> broken, pulled |-> <<>>]]
          /\ UNCHANGED hist \/ Strike(p)
  <2>1. \A k \in 0 .. Len(w) : SubSeq(w, 1, k) \in Seq(Units)
    BY <1>1
  <2>2. \A k \in 1 .. Len(w) : [w EXCEPT ![k] = "bad"] \in Seq(Units)
    BY <1>1, <1>2
  <2>3. \A k \in 0 .. Len(w) - 1 : k \in 0 .. Len(w)
    BY <1>1
  <2> QED BY <1>1, <2>1, <2>2, <2>3 DEF Get, w
<1>4. pc' \in [Procs -> Places] /\ pc[p] = "get"
  BY DEF TypeOK, Get, Goto, Places
<1>5. net' \in [Procs -> NetType]
  BY <1>3 DEF TypeOK, NetType
<1>6. hist' \in HistType
  BY <1>3, StrikeType DEF TypeOK, HistType
<1>7. \A q \in Procs : pc'[q] \notin {"idle", "create"} => sink'[q].fd # NoInode
  BY <1>4 DEF TypeOK, Get, Goto
<1> QED BY <1>4, <1>5, <1>6, <1>7 DEF TypeOK, Get, NetType, HistType

\* The header is read: its sizes set the limit.
LEMMA ReadHeaderType == ASSUME TypeOK, NEW p \in Procs, ReadHeader(p) PROVE TypeOK'
<1>1. pc' \in [Procs -> Places] /\ pc[p] = "header"
  BY DEF TypeOK, ReadHeader, Goto, Places
<1>2. net' \in [Procs -> NetType]
  BY PullType DEF ReadHeader, HeaderGood
<1>3. HeaderSizes(header(p)).comp \in Int
  <2>1. header(p) \in Header
    BY FetchAssumption DEF TypeOK, header, Offer, Archive
  <2>2. ~HeaderRefused(header(p))
    BY DEF ReadHeader, HeaderGood
  <2> QED BY <2>1, <2>2, SizesType
<1>4. sink' \in [Procs -> [fd: Inodes \cup {NoInode}, written: Nat, left: Int]]
  BY <1>3 DEF TypeOK, ReadHeader
<1>5. \A q \in Procs : pc'[q] \notin {"idle", "create"} => sink'[q].fd # NoInode
  BY <1>1 DEF TypeOK, ReadHeader, Goto
<1> QED BY <1>1, <1>2, <1>4, <1>5 DEF TypeOK, ReadHeader, NetType

\* A unit is written where the process is in its file.
LEMMA CopyUnitType == ASSUME TypeOK, NEW p \in Procs, CopyUnit(p) PROVE TypeOK'
<1>1. pc[p] = "copy" /\ net[p].wire # <<>>
  BY DEF CopyUnit, Reading
<1>2. net' \in [Procs -> NetType]
  BY <1>1, PullType DEF CopyUnit
<1>3. sink[p] \in [fd: Inodes \cup {NoInode}, written: Nat, left: Int] /\ sink[p].fd # NoInode
  BY <1>1 DEF TypeOK
<1>4. Head(net[p].wire) \in Units
  BY <1>1, HeadTailType DEF TypeOK
<1>5. content[sink[p].fd] \in Seq(Units)
  BY <1>3 DEF TypeOK
<1>6. content' \in [Inodes -> Seq(Units)]
  <2>1. WriteAt(content[sink[p].fd], sink[p].written, Head(net[p].wire)) \in Seq(Units)
    BY <1>3, <1>4, <1>5, WriteType
  <2> HIDE DEF WriteAt
  <2> QED BY <2>1 DEF TypeOK, CopyUnit
<1>7. sink' \in [Procs -> [fd: Inodes \cup {NoInode}, written: Nat, left: Int]]
  <2>1. LeftAfter(p) \in Int /\ sink[p].written + 1 \in Nat
    BY <1>3 DEF LeftAfter, sizeUnknown
  <2>2. sink' = [sink EXCEPT ![p] =
            [sink[p] EXCEPT !.written = sink[p].written + 1, !.left = LeftAfter(p)]]
    BY DEF CopyUnit, TypeOK
  <2> QED BY <1>3, <2>1, <2>2 DEF TypeOK
<1>8. \A q \in Procs : pc'[q] \notin {"idle", "create"} => sink'[q].fd # NoInode
  BY DEF TypeOK, CopyUnit
<1> QED BY <1>2, <1>6, <1>7, <1>8 DEF TypeOK, CopyUnit, NetType

\* The tail of the archive is hashed.
LEMMA DrainType == ASSUME TypeOK, NEW p \in Procs, Drain(p) PROVE TypeOK'
<1> DEFINE all == net[p].pulled \o net[p].wire
<1>1. net[p] \in NetType
  BY DEF TypeOK, NetType
<1>2. all \in Seq(Units)
  BY <1>1, ConcatProperties DEF NetType
<1>3. net' = [net EXCEPT ![p] = [net[p] EXCEPT !.wire = <<>>, !.pulled = all]]
  BY DEF Drain, TypeOK
<1> HIDE DEF all
<1>4. net' \in [Procs -> NetType]
  <2>1. <<>> \in Seq(Units)
    OBVIOUS
  <2>2. [net[p] EXCEPT !.wire = <<>>, !.pulled = all] \in NetType
    BY <1>1, <1>2, <2>1 DEF NetType
  <2>3. net \in [Procs -> NetType]
    BY DEF TypeOK, NetType
  <2> HIDE DEF NetType
  <2> QED BY <1>3, <2>2, <2>3
<1> QED BY <1>4, GoOnType DEF Drain, Places

\* The file gets its final name, or has gone.
LEMMA RenameType == ASSUME TypeOK, NEW p \in Procs, Rename(p) PROVE TypeOK'
<1>1. CASE name["partial"] = NoInode
  BY <1>1, RetreatType DEF Rename
<1>2. CASE name["partial"] # NoInode
  <2>1. pc' \in [Procs -> Places] /\ pc[p] = "rename"
    BY <1>2 DEF TypeOK, Rename, Goto, Places
  <2>2. name' \in [{"out", "partial"} -> Inodes \cup {NoInode}]
    BY <1>2 DEF TypeOK, Rename
  <2>3. \A q \in Procs : pc'[q] \notin {"idle", "create"} => sink'[q].fd # NoInode
    BY <1>2, <2>1 DEF TypeOK, Rename, Goto
  <2> QED BY <1>2, <2>1, <2>2, <2>3 DEF TypeOK, Rename
<1> QED BY <1>1, <1>2

\* Every step keeps the types.
LEMMA StepType == ASSUME TypeOK, [Next]_vars PROVE TypeOK'
<1>0. CASE UNCHANGED vars
  BY <1>0 DEF vars, TypeOK
<1>1. ASSUME NEW p \in Procs,
             Start(p) \/ Run(p) \/ CreateFails(p) \/ Fault(p) \/ Kill(p)
      PROVE  TypeOK'
  <2> USE <1>1
  <2>t. /\ net \in [Procs -> NetType] /\ hist \in HistType
        /\ name \in [{"out", "partial"} -> Inodes \cup {NoInode}]
    BY DEF TypeOK, NetType, HistType
  <2>1. CASE Start(p)
    BY <2>1, StartType
  <2>2. CASE Create(p)
    BY <2>2, CreateType
  <2>3. CASE Get(p)
    BY <2>3, GetType
  <2>4. CASE ReadHeader(p)
    BY <2>4, ReadHeaderType
  <2>5. CASE CopyUnit(p)
    BY <2>5, CopyUnitType
  <2>6. CASE InflateEnd(p)
    <3>1. net[p].wire # <<>> /\ pc[p] = "copy" /\ Pull(p)
      BY <2>6 DEF InflateEnd, Reading
    <3> QED BY <2>6, <3>1, PullType, GoOnType DEF InflateEnd, Places
  <2>7. CASE StoredEnd(p) \/ Flush(p) \/ Check(p)
    BY <2>7, <2>t, GoOnType DEF StoredEnd, BodyEnds, Flush, Check, Places
  <2>8. CASE Drain(p)
    BY <2>8, DrainType
  <2>9. CASE Rename(p)
    BY <2>9, RenameType
  <2>10. CASE RefuseHeader(p) \/ InflateFails(p) \/ BodyFails(p) \/ DrainFails(p) \/ CheckFails(p)
    BY <2>10, RetreatType
       DEF RefuseHeader, InflateFails, Reading, BodyFails, BodyEnds, DrainFails, CheckFails
  <2>11. CASE Fault(p)
    BY <2>11, RetreatType DEF Fault
  <2>12. CASE Cleanup(p)
    <3>1. name' \in [{"out", "partial"} -> Inodes \cup {NoInode}]
      BY <2>12, <2>t DEF Cleanup, RemovePartial
    <3>2. PICK how \in Outcomes : outcome' = [outcome EXCEPT ![p] = how]
      BY <2>12 DEF Cleanup, Outcomes
    <3> QED BY <2>12, <2>t, <3>1, <3>2, ReturnType DEF Cleanup
  <2>13. CASE CreateFails(p)
    <3>1. hist' \in HistType
      BY <2>13, StrikeType DEF CreateFails
    <3> QED BY <2>13, <2>t, <3>1, ReturnType DEF CreateFails, Outcomes
  <2>14. CASE Kill(p)
    <3>1. hist' \in HistType
      <4>1. hist.kills + 1 \in Nat /\ [hist.clean EXCEPT ![p] = FALSE] \in [Procs -> BOOLEAN]
        BY <2>t DEF HistType
      <4>2. hist' = [hist EXCEPT !.kills = hist.kills + 1,
                                 !.clean = [hist.clean EXCEPT ![p] = FALSE]]
        BY <2>14 DEF Kill
      <4> QED BY <2>t, <4>1, <4>2 DEF HistType
    <3> QED BY <2>14, <2>t, <3>1, ReturnType DEF Kill, Outcomes
  <2> QED BY <1>1, <2>1, <2>2, <2>3, <2>4, <2>5, <2>6, <2>7, <2>8, <2>9, <2>10, <2>11, <2>12,
             <2>13, <2>14 DEF Run
<1> QED BY <1>0, <1>1 DEF Next

\* The initial state has the types.
LEMMA InitType == ASSUME Init PROVE TypeOK
<1>1. job \in [Procs -> [offer: Offers, verify: BOOLEAN]]
  BY FetchAssumption DEF Init
<1>2. net \in [Procs -> NetType]
  BY DEF Init, NoNet, NetType
<1>3. sink \in [Procs -> [fd: Inodes \cup {NoInode}, written: Nat, left: Int]]
  BY DEF Init, NoSink
<1>4. Inodes # {}
  BY FS_EmptySet, FS_CardinalityType, FetchAssumption
<1>5. name \in [{"out", "partial"} -> Inodes \cup {NoInode}]
  BY <1>4 DEF Init
<1>6. content \in [Inodes -> Seq(Units)]
  BY FetchAssumption DEF Init
<1>7. pc \in [Procs -> Places] /\ outcome \in [Procs -> Outcomes]
  BY DEF Init, Places, Outcomes
<1>8. hist \in HistType
  BY DEF Init, HistType
<1> QED BY <1>1, <1>2, <1>3, <1>5, <1>6, <1>7, <1>8 DEF Init, TypeOK, NetType, HistType

-----------------------------------------------------------------------------
(* Types, and what is left behind.                                         *)

\* As long as nothing was killed, a file under the temporary name is a process's
\* that has it still to rename or remove.
Owned ==
    hist.kills = 0 /\ name["partial"] # NoInode =>
        \E p \in Procs : pc[p] \notin {"idle", "create"}

IInv == TypeOK /\ Owned

\* A step of another process leaves the owner where it is, unless it takes the
\* file away itself.
LEMMA StepOwned == ASSUME IInv, [Next]_vars PROVE Owned'
<1> SUFFICES ASSUME hist'.kills = 0, name'["partial"] # NoInode
             PROVE  \E p \in Procs : pc'[p] \notin {"idle", "create"}
  BY DEF Owned
<1>0. CASE UNCHANGED vars
  BY <1>0 DEF vars, IInv, Owned
<1>1. ASSUME NEW p \in Procs,
             Start(p) \/ Run(p) \/ CreateFails(p) \/ Fault(p) \/ Kill(p)
      PROVE  \E q \in Procs : pc'[q] \notin {"idle", "create"}
  <2>t. /\ pc \in [Procs -> Places] /\ hist \in HistType
        /\ name \in [{"out", "partial"} -> Inodes \cup {NoInode}]
    BY DEF IInv, TypeOK, HistType
  <2>1. CASE Create(p)
    BY <2>1, <2>t DEF Create, Goto
  <2>2. CASE Cleanup(p)
    BY <2>2, <2>t DEF Cleanup, RemovePartial
  <2>3. CASE Kill(p)
    BY <2>3, <2>t DEF Kill, HistType
  <2>4. CASE Rename(p)
    BY <2>4, <2>t DEF Rename, Retreat, Goto
  <2>5. ASSUME hist'.kills = hist.kills, name' = name,
               pc' = pc \/ (\E place \in Places : Goto(p, place)),
               \/ pc'[p] \notin {"idle", "create"} 
               \/ pc[p] \in {"idle", "create"}
        PROVE  \E q \in Procs : pc'[q] \notin {"idle", "create"}
    <3>1. PICK q \in Procs : pc[q] \notin {"idle", "create"}
      BY <2>5 DEF IInv, Owned
    <3>2. CASE q = p
      BY <2>5, <3>1, <3>2
    <3>3. CASE q # p
      BY <2>5, <2>t, <3>1, <3>3 DEF Goto
    <3> QED BY <3>2, <3>3
  <2>6. CASE Start(p)
    <3>1. hist'.kills = hist.kills
      BY <2>6, <2>t DEF Start, HistType
    <3> QED BY <2>5, <2>6, <3>1 DEF Start, Places
  <2>7. CASE CreateFails(p)
    <3>1. hist'.kills = hist.kills
      BY <2>7, <2>t DEF CreateFails, Strike, HistType
    <3> QED BY <2>5, <2>7, <3>1 DEF CreateFails, Places
  <2>8. CASE Get(p) \/ Fault(p)
    <3>1. hist'.kills = hist.kills
      BY <2>8, <2>t DEF Get, Fault, Strike, HistType
    <3>2. pc'[p] \notin {"idle", "create"} /\ name' = name
          /\ \E place \in Places : Goto(p, place)
      BY <2>8, <2>t DEF Get, Fault, Retreat, Goto, Places
    <3> QED BY <2>5, <3>1, <3>2
  <2>9. CASE \/ ReadHeader(p) \/ RefuseHeader(p) \/ CopyUnit(p) \/ InflateEnd(p)
             \/ InflateFails(p) \/ StoredEnd(p) \/ BodyFails(p) \/ Drain(p)
             \/ DrainFails(p) \/ Flush(p) \/ Check(p) \/ CheckFails(p)
    <3>1. hist' = hist /\ name' = name
      BY <2>9 DEF ReadHeader, RefuseHeader, CopyUnit, InflateEnd, InflateFails, StoredEnd,
                  BodyFails, Drain, DrainFails, Flush, Check, CheckFails, Retreat
    <3>2. \/ pc' = pc /\ pc[p] = "copy"
          \/ \E place \in Places \ {"idle", "create"} : Goto(p, place)
      BY <2>9 DEF ReadHeader, RefuseHeader, CopyUnit, Reading, InflateEnd, InflateFails,
                  StoredEnd, BodyFails, Drain, DrainFails, Flush, Check, CheckFails,
                  Retreat, Places
    <3>3. pc'[p] \notin {"idle", "create"}
      BY <3>2, <2>t DEF Goto
    <3> QED BY <2>5, <3>1, <3>2, <3>3
  <2> QED BY <1>1, <2>1, <2>2, <2>3, <2>4, <2>6, <2>7, <2>8, <2>9 DEF Run
<1> QED BY <1>0, <1>1 DEF Next

\* The invariant holds in every reachable state, whatever the bounds are: any
\* number of processes, runs, faults and kills.
THEOREM Invariance == Spec => []IInv
<1>1. Init => IInv
  BY InitType DEF IInv, Owned, Init
<1>2. IInv /\ [Next]_vars => IInv'
  BY StepType, StepOwned DEF IInv
<1> QED BY <1>1, <1>2, PTL DEF Spec

\* Every variable of Fetch keeps its type: os.Create finds an inode, a write
\* lands in a file, a size from a zip64 record is an int64.
THEOREM TypeCorrect == Spec => []TypeOK
<1>1. IInv => TypeOK
  BY DEF IInv
<1> QED BY <1>1, Invariance, PTL

\* "A failed integrity check leaves nothing behind" (README.md): when no process
\* runs and none was killed, nothing has the temporary name.
THEOREM NothingStays == Spec => []NothingLeft
<1>1. IInv => NothingLeft
  BY DEF IInv, Owned, NothingLeft
<1> QED BY <1>1, Invariance, PTL

-----------------------------------------------------------------------------
(* One process: what is published is the image.                            *)

\* The names are two files', and the process has the one it is to publish open.
Keeping ==
    /\ name["out"] = name["partial"] => name["out"] = NoInode
    /\ outcome[Keeper] = "running" <=> pc[Keeper] # "idle"
    /\ pc[Keeper] \notin {"idle", "create", "unwind"} => name["partial"] = sink[Keeper].fd
    /\ pc[Keeper] = "unwind" => name["out"] = sink[Keeper].fd

file(p) == content[sink[p].fd]
comp(p) == HeaderSizes(header(p)).comp

\* What has been written is what was pulled after the header.
Copied(p) ==
    /\ header(p).method \in {"store", "deflate"}
    /\ Len(file(p)) = sink[p].written
    /\ Len(net[p].pulled) >= sink[p].written + 1
    /\ \A i \in 1 .. sink[p].written :
          /\ file(p)[i] = net[p].pulled[i + 1]
          /\ header(p).method = "deflate" => file(p)[i] \notin Marks \ {"bad"}

\* LimitReader has left what the header announced and has not been written.
Limited(p) ==
    /\ Len(net[p].pulled) = sink[p].written + 1
    /\ comp(p) \in Int
    /\ sink[p].left = IF comp(p) = sizeUnknown THEN sizeUnknown ELSE comp(p) - sink[p].written
    /\ comp(p) >= 0 => sink[p].written <= comp(p)

\* The copy stopped at the end mark, at the limit, or where the wire ended.
Stopped(p) ==
    /\ header(p).method = "deflate" =>
          /\ Len(net[p].pulled) >= sink[p].written + 2
          /\ net[p].pulled[sink[p].written + 2] \in {"end", "bad"}
    /\ header(p).method = "store" /\ comp(p) >= 0 =>
          \/ sink[p].written = comp(p)
          \/ /\ sink[p].written <= comp(p) /\ Len(net[p].pulled) = sink[p].written + 1
             /\ pc[p] = "drain" => net[p].wire = <<>>

Streaming(p) ==
    /\ pc[p] \in {"get", "header"} => file(p) = <<>> /\ sink[p].written = 0
    /\ pc[p] = "header" => net[p].pulled = <<>>
    /\ pc[p] = "copy" => Copied(p) /\ Limited(p)
    /\ pc[p] \in {"drain", "flush", "check"} => Copied(p) /\ Stopped(p)
    /\ pc[p] \in {"rename", "unwind"} => Accepts(job[p], file(p))

KInv == TypeOK /\ Keeping /\ Streaming(Keeper)

\* The one process is the one that runs.
LEMMA TheKeeper == ASSUME OneProcess PROVE Keeper \in Procs /\ \A p \in Procs : p = Keeper
  BY DEF OneProcess

\* A write at the end of a file appends.
LEMMA WriteAppends ==
    ASSUME NEW s \in Seq(Units), NEW u
    PROVE  /\ Len(WriteAt(s, Len(s), u)) = Len(s) + 1
           /\ \A i \in 1 .. Len(s) : WriteAt(s, Len(s), u)[i] = s[i]
           /\ WriteAt(s, Len(s), u)[Len(s) + 1] = u
<1>1. Len(s) \in Nat
  OBVIOUS
<1>2. WriteAt(s, Len(s), u) =
          [i \in 1 .. Len(s) + 1 |-> IF i = Len(s) + 1 THEN u ELSE IF i <= Len(s) THEN s[i] ELSE "hole"]
  BY <1>1 DEF WriteAt
<1> QED BY <1>1, <1>2

\* What one process's variables are.
LEMMA PartTypes ==
    ASSUME TypeOK, NEW p \in Procs
    PROVE  /\ pc \in [Procs -> Places] /\ pc[p] \in Places
           /\ job[p].offer \in Offers /\ job[p].verify \in BOOLEAN
           /\ net \in [Procs -> NetType] /\ net[p] \in NetType
           /\ net[p].wire \in Seq(Units) /\ net[p].pulled \in Seq(Units)
           /\ sink \in [Procs -> [fd: Inodes \cup {NoInode}, written: Nat, left: Int]]
           /\ sink[p] \in [fd: Inodes \cup {NoInode}, written: Nat, left: Int]
           /\ sink[p].written \in Nat /\ sink[p].left \in Int
           /\ pc[p] \notin {"idle", "create"} =>
                 sink[p].fd \in Inodes /\ file(p) \in Seq(Units) /\ sink[p].fd # NoInode
           /\ name \in [{"out", "partial"} -> Inodes \cup {NoInode}]
           /\ content \in [Inodes -> Seq(Units)]
           /\ outcome \in [Procs -> Outcomes]
           /\ job[p].offer.archive \in Archive /\ job[p].offer.payload \in Seq(Units)
           /\ header(p) \in Header /\ header(p).method \in Methods
<1>1. net \in [Procs -> NetType]
  BY DEF TypeOK, NetType
<1>2. job[p].offer \in Offers /\ job[p].verify \in BOOLEAN
  BY DEF TypeOK
<1>3. job[p].offer.archive \in Archive /\ job[p].offer.payload \in Seq(Units)
  BY <1>2, FetchAssumption DEF Offer
<1>4. header(p) \in Header
  BY <1>3 DEF Archive, header
<1>5. header(p).method \in Methods
  BY <1>4 DEF Header
<1>6. sink[p] \in [fd: Inodes \cup {NoInode}, written: Nat, left: Int]
  BY DEF TypeOK
<1>7. pc[p] \notin {"idle", "create"} =>
          sink[p].fd \in Inodes /\ file(p) \in Seq(Units) /\ sink[p].fd # NoInode
  BY <1>6 DEF TypeOK, file
<1>8. net[p] \in NetType
  BY <1>1
<1> QED BY <1>1, <1>2, <1>3, <1>4, <1>5, <1>6, <1>7, <1>8 DEF TypeOK, NetType

-----------------------------------------------------------------------------
(* What passes the check is accepted.                                      *)

\* The archive on the wire: the header, the body, the tail.
LEMMA WireParts ==
    ASSUME NEW o \in Offers
    PROVE  LET a == o.archive IN
           /\ Len(WireOf(a)) = 1 + Len(a.body) + Len(a.tail)
           /\ \A i \in 1 .. Len(a.body) : WireOf(a)[i + 1] = a.body[i]
<1> DEFINE a == o.archive
<1>1. a.body \in Seq(Units) /\ a.tail \in Seq(Units) /\ "hdr" \in Units
  BY FetchAssumption DEF Offer, Archive, Marks
<1>2. <<"hdr">> \in Seq(Units) /\ Len(<<"hdr">>) = 1
  BY <1>1
<1> HIDE DEF a
<1> DEFINE front == <<"hdr">> \o a.body
<1>3. /\ front \in Seq(Units) /\ Len(front) = 1 + Len(a.body)
      /\ \A i \in 1 .. Len(a.body) : front[i + 1] = a.body[i]
  <2>1. front \in Seq(Units) /\ Len(front) = Len(<<"hdr">>) + Len(a.body)
    BY <1>1, <1>2, ConcatProperties
  <2>2. ASSUME NEW i \in 1 .. Len(a.body) PROVE front[i + 1] = a.body[i]
    BY <1>1, <1>2
  <2> QED BY <1>2, <2>1, <2>2
<1>4. WireOf(a) = front \o a.tail
  BY DEF WireOf
<1> HIDE DEF front
<1>5. Len(front \o a.tail) = Len(front) + Len(a.tail)
  BY <1>1, <1>3, ConcatProperties
<1>6. ASSUME NEW i \in 1 .. Len(a.body) PROVE (front \o a.tail)[i + 1] = a.body[i]
  BY <1>1, <1>3
<1> QED BY <1>1, <1>3, <1>4, <1>5, <1>6 DEF a

\* A limit reached, or a stream at its end before the limit.
LEMMA Squeezed ==
    ASSUME NEW w \in Nat, NEW n \in Nat, NEW t \in Nat, w = n \/ (w <= n /\ 1 + n + t = w + 1)
    PROVE  w = n
  OBVIOUS

\* What was written of an archive that is pulled whole is its image.
LEMMA CopiedIsImage ==
    ASSUME TypeOK, NEW p \in Procs, pc[p] = "check", Copied(p), Stopped(p),
           Truthful(job[p].offer), net[p].pulled = WireOf(job[p].offer.archive),
           header(p).method = "store" =>
               \/ sink[p].written = Len(job[p].offer.payload)
               \/ comp(p) = Len(job[p].offer.payload)
    PROVE  file(p) = job[p].offer.payload
<1> DEFINE o == job[p].offer
           a == o.archive
           w == sink[p].written
           n == Len(o.payload)
<1>1. /\ o \in Offers /\ o.payload \in Seq(Units) /\ file(p) \in Seq(Units)
      /\ w \in Nat /\ n \in Nat /\ Len(file(p)) = w
      /\ a.body \in Seq(Units) /\ a.tail \in Seq(Units) /\ Len(a.tail) \in Nat
  <2>1. o \in Offers /\ o.payload \in Seq(Units) /\ a \in Archive /\ w \in Nat
    BY PartTypes
  <2>2. a.body \in Seq(Units) /\ a.tail \in Seq(Units)
    BY <2>1 DEF Archive
  <2>3. file(p) \in Seq(Units) /\ Len(file(p)) = w
    BY PartTypes DEF Copied
  <2>4. n \in Nat
    BY <2>1, LenProperties
  <2> HIDE DEF n
  <2> QED BY <2>1, <2>2, <2>3, <2>4, LenProperties
<1>2. /\ Len(net[p].pulled) = 1 + Len(a.body) + Len(a.tail)
      /\ \A i \in 1 .. Len(a.body) : net[p].pulled[i + 1] = a.body[i]
  BY <1>1, WireParts
<1>3. \A i \in 1 .. n : i <= Len(a.body) /\ a.body[i] = o.payload[i]
  <2>1. a.body = o.payload \/ a.body = Append(o.payload, "end")
    BY DEF Truthful, header, Copied
  <2> QED BY <1>1, <2>1
<1>4. w = n
  <2>1. CASE header(p).method = "deflate"
    <3>1. /\ a.body = Append(o.payload, "end") /\ \A i \in 1 .. n : o.payload[i] \notin Marks
      BY <1>1, <2>1 DEF Truthful, header
    <3>2. Len(a.body) = n + 1 /\ a.body[n + 1] = "end"
      BY <1>1, <3>1
    <3>3. ~(n < w)
      <4>1. SUFFICES ASSUME n < w PROVE FALSE
        OBVIOUS
      <4>2. n + 1 \in 1 .. w /\ n + 1 \in 1 .. Len(a.body)
        BY <1>1, <3>2, <4>1
      <4>3. file(p)[n + 1] = "end"
        BY <1>2, <3>2, <4>2 DEF Copied
      <4>4. file(p)[n + 1] \notin Marks \ {"bad"}
        BY <2>1, <4>2 DEF Copied
      <4> QED BY <4>3, <4>4 DEF Marks
    <3>4. ~(w < n)
      <4>1. SUFFICES ASSUME w < n PROVE FALSE
        OBVIOUS
      <4>2. w + 1 \in 1 .. n /\ w + 1 \in 1 .. Len(a.body) /\ w + 2 = (w + 1) + 1
        BY <1>1, <3>2, <4>1
      <4>3. net[p].pulled[w + 2] = o.payload[w + 1]
        BY <1>2, <1>3, <4>2
      <4>4. net[p].pulled[w + 2] \in {"end", "bad"}
        BY <2>1 DEF Stopped
      <4> QED BY <3>1, <4>2, <4>3, <4>4 DEF Marks
    <3> QED BY <1>1, <3>3, <3>4
  <2>2. CASE w = n
    BY <2>2
  <2>3. CASE header(p).method = "store" /\ comp(p) = n
    <3>1. Len(a.body) = n
      BY <2>3 DEF Truthful, header
    <3>2. w = comp(p) \/ (w <= comp(p) /\ Len(net[p].pulled) = w + 1)
      BY <1>1, <2>3 DEF Stopped
    <3>3. Len(net[p].pulled) = 1 + n + Len(a.tail)
      BY <1>2, <3>1
    <3>4. w = n \/ (w <= n /\ 1 + n + Len(a.tail) = w + 1)
      BY <2>3, <3>2, <3>3
    <3>5. w \in Nat /\ n \in Nat /\ Len(a.tail) \in Nat
      BY <1>1
    <3> DEFINE k == Len(a.tail)
    <3> HIDE DEF w, n, k
    <3>6. w \in Nat /\ n \in Nat /\ k \in Nat /\ (w = n \/ (w <= n /\ 1 + n + k = w + 1))
      BY <3>4, <3>5 DEF k
    <3> QED BY <3>6, Squeezed
  <2>4. header(p).method = "deflate" \/ w = n \/ (header(p).method = "store" /\ comp(p) = n)
    <3> HIDE DEF comp, header
    <3> QED BY DEF Copied
  <2>5. CASE header(p).method = "store" /\ comp(p) = n
    BY <2>3, <2>5
  <2> HIDE DEF w, n, comp, header
  <2> QED BY <2>1, <2>2, <2>5, <2>4
<1>5. \A i \in 1 .. n : file(p)[i] = o.payload[i]
  BY <1>1, <1>2, <1>3, <1>4 DEF Copied
<1> QED BY <1>1, <1>4, <1>5, SeqEqual

\* So the check lets nothing pass that the request does not accept.
LEMMA CheckAccepts ==
    ASSUME TypeOK, TruthfulManifest, NEW p \in Procs, pc[p] = "check", Copied(p), Stopped(p),
           Passes(p)
    PROVE  Accepts(job[p], file(p))
<1> SUFFICES ASSUME job[p].verify, image(p).sha1 # <<>> \/ image(p).md5 # <<>>
             PROVE  file(p) = job[p].offer.payload
  BY DEF Accepts, image
<1>1. Truthful(job[p].offer)
  BY PartTypes DEF TruthfulManifest, image
<1>2. checkIntegrity(p)
  BY DEF Passes
<1>3. net[p].pulled = WireOf(job[p].offer.archive)
  BY <1>1, <1>2 DEF Truthful, checkIntegrity, HashMatches, image
<1>4. SizeMatches(image(p).FileSize, sink[p].written)
  BY <1>2 DEF checkIntegrity
<1>5. header(p).method = "store" =>
          \/ sink[p].written = Len(job[p].offer.payload)
          \/ comp(p) = Len(job[p].offer.payload)
  <2>1. SUFFICES ASSUME header(p).method = "store",
                        image(p).FileSize = Len(job[p].offer.payload), job[p].offer.payload # <<>>
                 PROVE  sink[p].written = Len(job[p].offer.payload)
    BY <1>1 DEF Truthful, header, comp, image
  <2>2. job[p].offer.payload \in Seq(Units)
    BY PartTypes
  <2>3. Len(job[p].offer.payload) > 0
    BY <2>1, <2>2, EmptySeq, LenProperties
  <2> QED BY <1>4, <2>1, <2>3 DEF SizeMatches
<1> QED BY <1>1, <1>3, <1>5, CopiedIsImage

-----------------------------------------------------------------------------
(* Every step keeps the process's file what it is meant to be.             *)

\* Nothing runs at first.
LEMMA InitKInv == ASSUME OneProcess, Init PROVE KInv
<1>1. Keeper \in Procs
  BY TheKeeper
<1>2. Inodes # {}
  BY FS_EmptySet, FS_CardinalityType, FetchAssumption
<1>3. (CHOOSE i \in Inodes : TRUE) # NoInode
  BY <1>2, FetchAssumption
<1>4. Keeping
  BY <1>1, <1>3 DEF Init, Keeping
<1>5. pc[Keeper] = "idle"
  BY <1>1 DEF Init
<1> QED BY <1>4, <1>5, InitType DEF KInv, Streaming

\* A process that is to return has nothing to publish.
LEMMA RetreatKInv ==
    ASSUME OneProcess, KInv, TypeOK', Retreat(Keeper), pc[Keeper] \notin {"idle", "create", "unwind"}
    PROVE  KInv'
<1>1. pc'[Keeper] = "retreat"
  BY TheKeeper, PartTypes DEF KInv, Retreat, Goto
<1>2. Keeping'
  BY <1>1 DEF KInv, Keeping, Retreat
<1> QED BY <1>1, <1>2 DEF KInv, Streaming

\* Nor has one that is not running.
LEMMA IdleKInv ==
    ASSUME OneProcess, KInv, TypeOK', pc'[Keeper] = "idle", outcome'[Keeper] # "running",
           UNCHANGED name \/ name' = RemovePartial
    PROVE  KInv'
<1>1. name \in [{"out", "partial"} -> Inodes \cup {NoInode}]
  BY TheKeeper, PartTypes DEF KInv
<1>2. Keeping'
  BY <1>1 DEF KInv, Keeping, RemovePartial
<1> QED BY <1>2 DEF KInv, Streaming

\* A command starts.
LEMMA StartKInv == ASSUME OneProcess, KInv, TypeOK', Start(Keeper) PROVE KInv'
<1>1. pc'[Keeper] = "create" /\ outcome'[Keeper] = "running" /\ name' = name
  BY TheKeeper, PartTypes DEF KInv, Start, Goto
<1>2. Keeping'
  BY <1>1 DEF KInv, Keeping
<1> QED BY <1>1, <1>2 DEF KInv, Streaming

\* os.Create opens a file that is not the one under the final name.
LEMMA CreatedApart == ASSUME TypeOK, Keeping PROVE Created \in Inodes /\ Created # name["out"]
<1>1. Created \in Inodes
  BY CreatedType
<1>2. CASE name["partial"] # NoInode
  <2>1. Created = name["partial"]
    BY <1>2 DEF Created
  <2>2. name["out"] = name["partial"] => name["out"] = NoInode
    BY DEF Keeping
  <2> QED BY <1>1, <1>2, <2>1, <2>2
<1>3. CASE name["partial"] = NoInode
  <2>1. Created = CHOOSE i \in Inodes : i \notin InUse
    BY <1>3 DEF Created
  <2>2. Created \notin InUse
    BY <2>1, FreeInode
  <2> QED BY <1>1, <2>2 DEF InUse
<1> QED BY <1>1, <1>2, <1>3

\* The temporary file is opened.
LEMMA CreateKInv == ASSUME OneProcess, KInv, TypeOK', Create(Keeper) PROVE KInv'
<1>1. Created \in Inodes /\ Created # name["out"] /\ Created # NoInode
  BY CreatedApart, FetchAssumption DEF KInv
<1> HIDE DEF Created
<1>2. /\ pc[Keeper] = "create" /\ pc'[Keeper] = "get"
      /\ sink'[Keeper] = [fd |-> Created, written |-> 0, left |-> 0]
      /\ content'[Created] = <<>>
      /\ name'["partial"] = Created /\ name'["out"] = name["out"]
      /\ outcome' = outcome
  BY <1>1, TheKeeper, PartTypes DEF KInv, Create, Goto
<1>3. Keeping'
  BY <1>1, <1>2 DEF KInv, Keeping
<1>4. Streaming(Keeper)'
  BY <1>2 DEF Streaming, file
<1> QED BY <1>3, <1>4 DEF KInv

\* Steps of a stream leave the names alone.
LEMMA KeepingStays ==
    ASSUME OneProcess, KInv, UNCHANGED <<name, outcome>>, sink'[Keeper].fd = sink[Keeper].fd,
           pc[Keeper] \notin {"idle", "create", "unwind"},
           pc'[Keeper] \notin {"idle", "create", "unwind"}
    PROVE  Keeping'
  BY DEF KInv, Keeping

\* The response comes.
LEMMA GetKInv == ASSUME OneProcess, KInv, TypeOK', Get(Keeper) PROVE KInv'
<1>1. pc[Keeper] = "get" /\ pc'[Keeper] = "header"
  BY TheKeeper, PartTypes DEF KInv, Get, Goto
<1>2. net'[Keeper].pulled = <<>>
  <2>1. net \in [Procs -> NetType]
    BY TheKeeper, PartTypes DEF KInv
  <2> QED BY <2>1, TheKeeper DEF Get
<1>3. UNCHANGED <<job, sink, outcome, name, content>>
  BY DEF Get
<1>4. Streaming(Keeper)'
  BY <1>1, <1>2, <1>3 DEF KInv, Streaming, file
<1> QED BY <1>1, <1>3, <1>4, KeepingStays DEF KInv

\* A unit pulled is the last of what was.
LEMMA PullAppends ==
    ASSUME TypeOK, NEW p \in Procs, Pull(p), net[p].wire # <<>>
    PROVE  /\ Head(net[p].wire) \in Units
           /\ Len(net'[p].pulled) = Len(net[p].pulled) + 1
           /\ \A i \in 1 .. Len(net[p].pulled) : net'[p].pulled[i] = net[p].pulled[i]
           /\ net'[p].pulled[Len(net[p].pulled) + 1] = Head(net[p].wire)
<1>1. /\ net \in [Procs -> NetType] /\ net[p] \in NetType
      /\ net[p].wire \in Seq(Units) /\ net[p].pulled \in Seq(Units)
  BY PartTypes
<1>2. Head(net[p].wire) \in Units
  BY <1>1, HeadTailType
<1>3. net'[p].pulled = Append(net[p].pulled, Head(net[p].wire))
  BY <1>1 DEF Pull, NetType
<1> QED BY <1>1, <1>2, <1>3, AppendProperties

\* The header is read, and the body may come.
Onward(p) ==
    /\ Streaming(p)'
    /\ UNCHANGED <<name, outcome>> /\ sink'[p].fd = sink[p].fd
    /\ pc[p] \notin {"idle", "create", "unwind"} /\ pc'[p] \notin {"idle", "create", "unwind"}

LEMMA ReadHeaderStreams ==
    ASSUME TypeOK, NEW p \in Procs, Streaming(p), ReadHeader(p) PROVE Onward(p)
<1>1. pc[p] = "header" /\ pc'[p] = "copy" /\ Pull(p) /\ HeaderGood(p)
  BY PartTypes DEF ReadHeader, Goto
<1>2. file(p) = <<>> /\ sink[p].written = 0 /\ net[p].pulled = <<>> /\ net[p].wire # <<>>
  BY <1>1 DEF Streaming, HeaderGood
<1>3. Len(net'[p].pulled) = 1
  <2>1. Len(<<>>) = 0 /\ 0 + 1 = 1
    OBVIOUS
  <2>2. Len(net'[p].pulled) = Len(net[p].pulled) + 1
    BY <1>1, <1>2, PullAppends
  <2>3. Len(net[p].pulled) = 0
    BY <1>2, <2>1
  <2> QED BY <2>2, <2>3
<1>4. /\ sink'[p].fd = sink[p].fd /\ sink'[p].written = 0 /\ sink'[p].left = comp(p)
      /\ UNCHANGED <<job, outcome, name, content>>
  <2>1. sink \in [Procs -> [fd: Inodes \cup {NoInode}, written: Nat, left: Int]]
    BY PartTypes
  <2> QED BY <1>2, <2>1 DEF ReadHeader, comp
<1>5. header(p) \in Header /\ header(p).method \in {"store", "deflate"}
  BY <1>1, PartTypes DEF HeaderGood, Methods
<1>6. comp(p) \in Int
  BY <1>1, <1>5, SizesType DEF HeaderGood, comp
<1>7. comp(p)' = comp(p) /\ header(p)' = header(p) /\ file(p)' = <<>>
  BY <1>2, <1>4 DEF comp, header, file
<1>8. Copied(p)' /\ Limited(p)'
  <2>1. Len(file(p)') = 0 /\ \A i \in 1 .. sink'[p].written : FALSE
    BY <1>4, <1>7
  <2> HIDE DEF comp, header, file
  <2> QED BY <1>3, <1>4, <1>5, <1>6, <1>7, <2>1 DEF Copied, Limited
<1>9. Streaming(p)'
  BY <1>1, <1>8 DEF Streaming
<1> QED BY <1>1, <1>4, <1>9 DEF Onward

\* A unit is written at the end of the file, and it is the one pulled.
LEMMA CopyUnitStreams ==
    ASSUME TypeOK, NEW p \in Procs, Streaming(p), CopyUnit(p) PROVE Onward(p)
<1> DEFINE u == Head(net[p].wire)
           w == sink[p].written
<1>1. pc[p] = "copy" /\ pc' = pc /\ Pull(p) /\ net[p].wire # <<>> /\ MayRead(p) /\ Expands(p, u)
  BY DEF CopyUnit, Reading
<1>2. Copied(p) /\ Limited(p)
  BY <1>1 DEF Streaming
<1>3. /\ w \in Nat /\ sink[p].left \in Int /\ sink[p].fd \in Inodes /\ file(p) \in Seq(Units)
      /\ sink \in [Procs -> [fd: Inodes \cup {NoInode}, written: Nat, left: Int]]
      /\ content \in [Inodes -> Seq(Units)]
      /\ net[p].pulled \in Seq(Units)
  BY <1>1, PartTypes
<1>4. sink'[p].fd = sink[p].fd /\ sink'[p].written = w + 1 /\ sink'[p].left = LeftAfter(p)
  BY <1>3 DEF CopyUnit
<1>5. file(p)' = WriteAt(file(p), w, u)
  BY <1>3, <1>4 DEF CopyUnit, file
<1>6. UNCHANGED <<job, outcome, name>>
  BY DEF CopyUnit
<1>7. header(p)' = header(p) /\ comp(p)' = comp(p)
  BY <1>6 DEF header, comp
<1> HIDE DEF u
<1>8. /\ Len(file(p)) = w /\ Len(file(p)') = w + 1 /\ file(p)'[w + 1] = u
      /\ \A i \in 1 .. w : file(p)'[i] = file(p)[i]
  BY <1>2, <1>3, <1>5, WriteAppends DEF Copied
<1>9. /\ Len(net[p].pulled) = w + 1 /\ Len(net'[p].pulled) = w + 2 /\ net'[p].pulled[w + 2] = u
      /\ \A i \in 1 .. w + 1 : net'[p].pulled[i] = net[p].pulled[i]
  <2>1. Len(net[p].pulled) = w + 1
    BY <1>2 DEF Limited
  <2>2. (w + 1) + 1 = w + 2
    BY <1>3
  <2> HIDE DEF w
  <2> QED BY <1>1, <2>1, <2>2, PullAppends DEF u
<1>10. header(p).method = "deflate" => u \notin Marks \ {"bad"}
  BY <1>1 DEF Expands
<1>11. Copied(p)'
  <2>1. Len(file(p)') = sink'[p].written /\ Len(net'[p].pulled) >= sink'[p].written + 1
    BY <1>3, <1>4, <1>8, <1>9
  <2>2. ASSUME NEW i \in 1 .. w + 1
        PROVE  /\ file(p)'[i] = net'[p].pulled[i + 1]
               /\ header(p).method = "deflate" => file(p)'[i] \notin Marks \ {"bad"}
    <3>1. CASE i = w + 1
      <4>1. i + 1 = w + 2
        BY <1>3, <3>1
      <4> QED BY <1>8, <1>9, <1>10, <3>1, <4>1
    <3>2. CASE i # w + 1
      <4>1. i \in 1 .. w /\ i + 1 \in 1 .. w + 1
        BY <1>3, <3>2
      <4>2. /\ file(p)[i] = net[p].pulled[i + 1]
            /\ header(p).method = "deflate" => file(p)[i] \notin Marks \ {"bad"}
        BY <1>2, <4>1 DEF Copied
      <4> QED BY <1>8, <1>9, <4>1, <4>2
    <3> QED BY <3>1, <3>2
  <2>3. header(p).method \in {"store", "deflate"}
    BY <1>2 DEF Copied
  <2> QED BY <1>4, <1>7, <2>1, <2>2, <2>3 DEF Copied
<1>12. Limited(p)'
  <2>1. /\ sink[p].left = (IF comp(p) = sizeUnknown THEN sizeUnknown ELSE comp(p) - w)
        /\ comp(p) >= 0 => w <= comp(p)
    BY <1>2 DEF Limited
  <2>2. comp(p) \in Int /\ sizeUnknown = -1
    BY <1>2 DEF Limited, sizeUnknown
  <2>3. sink[p].left = sizeUnknown \/ sink[p].left > 0
    BY <1>1 DEF MayRead
  <2>4. sink'[p].left = (IF sink[p].left = sizeUnknown THEN sizeUnknown ELSE sink[p].left - 1)
    BY <1>4 DEF LeftAfter
  <2>5. /\ sink'[p].left = (IF comp(p) = sizeUnknown THEN sizeUnknown ELSE comp(p) - (w + 1))
        /\ comp(p) >= 0 => w + 1 <= comp(p)
    <3> HIDE DEF w, comp
    <3>1. w \in Nat
      BY <1>3
    <3>2. CASE comp(p) = sizeUnknown
      BY <2>1, <2>2, <2>4, <3>2
    <3>3. CASE comp(p) # sizeUnknown
      <4>1. sink[p].left = comp(p) - w
        BY <2>1, <3>3
      <4>2. comp(p) - w # -1
        BY <2>1, <2>2, <3>1, <3>3
      <4>3. comp(p) - w > 0
        BY <2>2, <2>3, <4>1, <4>2
      <4>4. sink'[p].left = comp(p) - w - 1
        BY <2>2, <2>4, <4>1, <4>2
      <4> QED BY <2>2, <3>1, <3>3, <4>3, <4>4
    <3> QED BY <3>2, <3>3
  <2>6. Len(net'[p].pulled) = (w + 1) + 1
    BY <1>3, <1>9
  <2> HIDE DEF w, comp
  <2> QED BY <1>4, <1>7, <2>2, <2>5, <2>6 DEF Limited
<1>13. Streaming(p)'
  <2>1. pc'[p] = "copy"
    BY <1>1
  <2> QED BY <1>11, <1>12, <2>1 DEF Streaming
<1> QED BY <1>1, <1>4, <1>6, <1>13 DEF Onward

\* What is long enough stays so when more comes.
LEMMA LongEnough ==
    ASSUME NEW a \in Nat, NEW n \in Nat, NEW m \in Nat, a >= m
    PROVE  a + n >= m
  OBVIOUS

\* So does a place in it.
LEMMA StillWithin ==
    ASSUME NEW a \in Nat, NEW n \in Nat, NEW i \in 1 .. a
    PROVE  i \in 1 .. a + n
  OBVIOUS

\* What is pulled later does not change what was copied.
LEMMA CopiedStays ==
    ASSUME TypeOK, NEW p \in Procs, pc[p] \notin {"idle", "create"}, Copied(p),
           UNCHANGED <<job, content, sink>>, NEW n \in Nat,
           Len(net'[p].pulled) = Len(net[p].pulled) + n,
           \A i \in 1 .. Len(net[p].pulled) : net'[p].pulled[i] = net[p].pulled[i]
    PROVE  Copied(p)' /\ header(p)' = header(p) /\ comp(p)' = comp(p)
<1>1. sink[p].written \in Nat /\ net[p].pulled \in Seq(Units)
  BY PartTypes
<1>2. Len(net[p].pulled) \in Nat
  BY <1>1
<1>3. \A i \in 1 .. sink[p].written : i + 1 \in 1 .. Len(net[p].pulled)
  BY <1>1, <1>2 DEF Copied
<1>4. header(p)' = header(p) /\ comp(p)' = comp(p) /\ file(p)' = file(p)
  BY DEF header, comp, file
<1>5. Len(net'[p].pulled) >= sink[p].written + 1
  <2>1. Len(net[p].pulled) >= sink[p].written + 1 /\ sink[p].written + 1 \in Nat
    BY <1>1 DEF Copied
  <2>2. Len(net[p].pulled) + n >= sink[p].written + 1
    BY <1>2, <2>1, LongEnough
  <2> QED BY <2>2
<1> QED BY <1>1, <1>3, <1>4, <1>5 DEF Copied

\* The inflater finds its end mark.
LEMMA InflateEndStreams ==
    ASSUME TypeOK, NEW p \in Procs, Streaming(p), InflateEnd(p) PROVE Onward(p)
<1> DEFINE w == sink[p].written
<1>1. /\ pc[p] = "copy" /\ pc'[p] = "drain" /\ Pull(p) /\ net[p].wire # <<>>
      /\ header(p).method = "deflate" /\ Head(net[p].wire) \in {"end", "bad"}
      /\ UNCHANGED <<job, sink, outcome, name, content>>
  BY PartTypes DEF InflateEnd, Reading, Goto
<1>2. Copied(p) /\ Len(net[p].pulled) = w + 1 /\ w \in Nat
  BY <1>1, PartTypes DEF Streaming, Limited
<1>3. /\ Len(net'[p].pulled) = Len(net[p].pulled) + 1
      /\ \A i \in 1 .. Len(net[p].pulled) : net'[p].pulled[i] = net[p].pulled[i]
      /\ net'[p].pulled[Len(net[p].pulled) + 1] \in {"end", "bad"}
  BY <1>1, PullAppends
<1>4. Copied(p)' /\ header(p)' = header(p)
  BY <1>1, <1>2, <1>3, CopiedStays
<1>5. Stopped(p)'
  <2>1. (w + 1) + 1 = w + 2
    BY <1>2
  <2>2. Len(net'[p].pulled) >= w + 2 /\ net'[p].pulled[w + 2] \in {"end", "bad"}
    BY <1>2, <1>3, <2>1
  <2> QED BY <1>1, <1>4, <2>2 DEF Stopped
<1>6. Streaming(p)'
  BY <1>1, <1>4, <1>5 DEF Streaming
<1> QED BY <1>1, <1>6 DEF Onward

\* A stored body ends at the limit or with the wire.
LEMMA StoredEndStreams ==
    ASSUME TypeOK, NEW p \in Procs, Streaming(p), StoredEnd(p) PROVE Onward(p)
<1> DEFINE w == sink[p].written
<1>1. /\ pc[p] = "copy" /\ pc'[p] = "drain" /\ BodyEnds(p) /\ header(p).method = "store"
      /\ UNCHANGED <<job, net, sink, outcome, name, content>>
  BY PartTypes DEF StoredEnd, BodyEnds, Goto
<1>2. Copied(p) /\ Limited(p) /\ w \in Nat
  BY <1>1, PartTypes DEF Streaming
<1>3. Copied(p)' /\ header(p)' = header(p) /\ comp(p)' = comp(p)
  BY <1>1, <1>2 DEF Copied, header, comp, file
<1>4. comp(p) >= 0 => w = comp(p) \/ (w <= comp(p) /\ net[p].wire = <<>>)
  <2>1. SUFFICES ASSUME comp(p) >= 0, ~MayRead(p) PROVE w = comp(p)
    BY <1>1, <1>2 DEF BodyEnds, Limited
  <2>2. comp(p) \in Int /\ comp(p) # sizeUnknown /\ w <= comp(p)
    BY <1>2, <2>1 DEF Limited, sizeUnknown
  <2>3. sink[p].left = comp(p) - w
    BY <1>2, <2>2 DEF Limited
  <2>4. ~(sink[p].left > 0)
    BY <2>1 DEF MayRead
  <2> HIDE DEF comp, w
  <2> QED BY <1>2, <2>2, <2>3, <2>4
<1>5. Stopped(p)'
  <2>1. Len(net[p].pulled) = w + 1
    BY <1>2 DEF Limited
  <2> HIDE DEF comp, w
  <2> QED BY <1>1, <1>3, <1>4, <2>1 DEF Stopped, w
<1>6. Streaming(p)'
  BY <1>1, <1>3, <1>5 DEF Streaming
<1> QED BY <1>1, <1>6 DEF Onward

\* The tail is pulled after what was copied.
LEMMA DrainStreams ==
    ASSUME TypeOK, NEW p \in Procs, Streaming(p), Drain(p) PROVE Onward(p)
<1> DEFINE w == sink[p].written
<1>1. /\ pc[p] = "drain" /\ pc'[p] = "flush"
      /\ UNCHANGED <<job, sink, outcome, name, content>>
  BY PartTypes DEF Drain, Goto
<1>2. Copied(p) /\ Stopped(p) /\ w \in Nat
  BY <1>1, PartTypes DEF Streaming
<1>3. /\ net \in [Procs -> NetType] /\ net[p] \in NetType
      /\ net[p].wire \in Seq(Units) /\ net[p].pulled \in Seq(Units)
  BY PartTypes
<1>4. net'[p].pulled = net[p].pulled \o net[p].wire
  BY <1>3 DEF Drain, NetType
<1>5. /\ Len(net[p].wire) \in Nat /\ Len(net[p].pulled) \in Nat
      /\ Len(net'[p].pulled) = Len(net[p].pulled) + Len(net[p].wire)
      /\ \A i \in 1 .. Len(net[p].pulled) : net'[p].pulled[i] = net[p].pulled[i]
  <2>1. Len(net[p].wire) \in Nat /\ Len(net[p].pulled) \in Nat
    BY <1>3, LenProperties
  <2>2. Len(net'[p].pulled) = Len(net[p].pulled) + Len(net[p].wire)
    BY <1>3, <1>4, ConcatProperties
  <2>3. ASSUME NEW i \in 1 .. Len(net[p].pulled) PROVE net'[p].pulled[i] = net[p].pulled[i]
    <3>1. i \in Nat /\ i >= 1 /\ i <= Len(net[p].pulled)
      BY <2>1
    <3>2. i \in 1 .. Len(net[p].pulled) + Len(net[p].wire)
      BY <2>1, StillWithin
    <3>3. (net[p].pulled \o net[p].wire)[i] = net[p].pulled[i]
      BY <1>3, <3>1, <3>2, ConcatProperties
    <3> QED BY <1>4, <3>3
  <2> QED BY <2>1, <2>2, <2>3
<1>6. Copied(p)' /\ header(p)' = header(p) /\ comp(p)' = comp(p)
  BY <1>1, <1>2, <1>5, CopiedStays
<1>7. Stopped(p)'
  <2>1. header(p).method = "deflate" =>
            /\ Len(net'[p].pulled) >= w + 2
            /\ net'[p].pulled[w + 2] \in {"end", "bad"}
    <3>1. SUFFICES ASSUME header(p).method = "deflate"
                   PROVE  /\ Len(net'[p].pulled) >= w + 2
                          /\ net'[p].pulled[w + 2] \in {"end", "bad"}
      OBVIOUS
    <3>2. Len(net[p].pulled) >= w + 2 /\ net[p].pulled[w + 2] \in {"end", "bad"}
      BY <1>2, <3>1 DEF Stopped
    <3>3. w + 2 \in 1 .. Len(net[p].pulled)
      BY <1>2, <1>5, <3>2
    <3>4. w + 2 \in Nat
      BY <1>2
    <3>5. Len(net[p].pulled) + Len(net[p].wire) >= w + 2
      BY <1>5, <3>2, <3>4, LongEnough
    <3>6. Len(net'[p].pulled) >= w + 2
      BY <1>5, <3>5
    <3> QED BY <1>5, <3>2, <3>3, <3>6
  <2>2. header(p).method = "store" /\ comp(p) >= 0 =>
            w = comp(p) \/ (w <= comp(p) /\ Len(net'[p].pulled) = w + 1)
    <3>1. SUFFICES ASSUME header(p).method = "store", comp(p) >= 0, w # comp(p)
                   PROVE  w <= comp(p) /\ Len(net'[p].pulled) = w + 1
      OBVIOUS
    <3>2. w <= comp(p) /\ Len(net[p].pulled) = w + 1 /\ net[p].wire = <<>>
      BY <1>1, <1>2, <3>1 DEF Stopped
    <3>3. Len(net[p].wire) = 0
      BY <3>2
    <3> QED BY <1>2, <1>5, <3>2, <3>3
  <2> HIDE DEF comp
  <2> QED BY <1>1, <1>6, <2>1, <2>2 DEF Stopped
<1>8. Streaming(p)'
  BY <1>1, <1>6, <1>7 DEF Streaming
<1> QED BY <1>1, <1>8 DEF Onward

\* Nothing is written any more.
LEMMA FlushStreams ==
    ASSUME TypeOK, NEW p \in Procs, Streaming(p), Flush(p) PROVE Onward(p)
<1>1. /\ pc[p] = "flush" /\ pc'[p] = "check"
      /\ UNCHANGED <<job, net, sink, outcome, name, content>>
  BY PartTypes DEF Flush, Goto
<1>2. Copied(p)' /\ Stopped(p)'
  BY <1>1 DEF Streaming, Copied, Stopped, header, comp, file
<1>3. Streaming(p)'
  BY <1>1, <1>2 DEF Streaming
<1> QED BY <1>1, <1>3 DEF Onward

\* What passes the check is what the request accepts.
LEMMA CheckStreams ==
    ASSUME TypeOK, TruthfulManifest, NEW p \in Procs, Streaming(p), Check(p) PROVE Onward(p)
<1>1. /\ pc[p] = "check" /\ pc'[p] = "rename" /\ Passes(p)
      /\ UNCHANGED <<job, net, sink, outcome, name, content>>
  BY PartTypes DEF Check, Goto
<1>2. Copied(p) /\ Stopped(p)
  BY <1>1 DEF Streaming
<1>3. Accepts(job[p], file(p))
  BY <1>1, <1>2, CheckAccepts
<1>4. Accepts(job[p], file(p))'
  BY <1>1, <1>3 DEF Accepts, file
<1>5. Streaming(p)'
  BY <1>1, <1>4 DEF Streaming
<1> QED BY <1>1, <1>5 DEF Onward

\* The file gets its final name.
LEMMA RenameKInv == ASSUME OneProcess, KInv, TypeOK', Rename(Keeper) PROVE KInv'
<1>1. TypeOK /\ Keeping /\ Streaming(Keeper) /\ Keeper \in Procs
  BY TheKeeper DEF KInv
<1>2. /\ pc[Keeper] = "rename" /\ sink[Keeper].fd # NoInode /\ sink[Keeper].fd \in Inodes
      /\ pc \in [Procs -> Places]
  BY <1>1, PartTypes DEF Rename
<1>3. name["partial"] = sink[Keeper].fd
  BY <1>1, <1>2 DEF Keeping
<1>4. /\ name' = [out |-> sink[Keeper].fd, partial |-> NoInode]
      /\ Goto(Keeper, "unwind") /\ UNCHANGED <<job, net, sink, outcome, content>>
  BY <1>2, <1>3 DEF Rename
<1>5. pc'[Keeper] = "unwind"
  BY <1>1, <1>2, <1>4 DEF Goto
<1>6. name'["out"] = sink[Keeper].fd /\ name'["partial"] = NoInode
  BY <1>4
<1>7. Keeping'
  BY <1>1, <1>2, <1>4, <1>5, <1>6 DEF Keeping
<1>8. Accepts(job[Keeper], file(Keeper))'
  BY <1>1, <1>2, <1>4 DEF Streaming, Accepts, file
<1>9. Streaming(Keeper)'
  BY <1>5, <1>8 DEF Streaming
<1> QED BY <1>7, <1>9 DEF KInv

\* Every step keeps all of it.
LEMMA StepKInv == ASSUME OneProcess, TruthfulManifest, KInv, [Next]_vars PROVE KInv'
<1>t. TypeOK' /\ TypeOK
  BY StepType DEF KInv
<1>0. CASE UNCHANGED vars
  BY <1>0, <1>t DEF KInv, Keeping, Streaming, Copied, Limited, Stopped, Accepts, file, comp, header, vars
<1>1. ASSUME Start(Keeper) \/ Run(Keeper) \/ CreateFails(Keeper) \/ Fault(Keeper) \/ Kill(Keeper)
      PROVE  KInv'
  <2>p. Keeper \in Procs /\ pc \in [Procs -> Places] /\ outcome \in [Procs -> Outcomes]
    BY <1>t, TheKeeper DEF TypeOK
  <2>s. Streaming(Keeper)
    BY DEF KInv
  <2>1. CASE Start(Keeper)
    BY <2>1, <1>t, StartKInv
  <2>2. CASE Create(Keeper)
    BY <2>2, <1>t, CreateKInv
  <2>3. CASE Get(Keeper)
    BY <2>3, <1>t, GetKInv
  <2>4. ASSUME Onward(Keeper) PROVE KInv'
    BY <2>4, <1>t, KeepingStays DEF KInv, Onward
  <2>5. CASE ReadHeader(Keeper) \/ CopyUnit(Keeper) \/ InflateEnd(Keeper) \/ StoredEnd(Keeper)
             \/ Drain(Keeper) \/ Flush(Keeper) \/ Check(Keeper)
    <3>1. Onward(Keeper)
      BY <2>5, <1>t, <2>p, <2>s, ReadHeaderStreams, CopyUnitStreams, InflateEndStreams, StoredEndStreams,
         DrainStreams, FlushStreams, CheckStreams
    <3> QED BY <2>4, <3>1
  <2>6. CASE Rename(Keeper)
    BY <2>6, <1>t, RenameKInv
  <2>7. CASE RefuseHeader(Keeper) \/ InflateFails(Keeper) \/ BodyFails(Keeper)
             \/ DrainFails(Keeper) \/ CheckFails(Keeper) \/ Fault(Keeper)
    <3>1. Retreat(Keeper) /\ pc[Keeper] \notin {"idle", "create", "unwind"}
      BY <2>7 DEF RefuseHeader, InflateFails, Reading, BodyFails, BodyEnds, DrainFails, CheckFails, Fault
    <3> QED BY <1>t, <3>1, RetreatKInv
  <2>8. CASE Cleanup(Keeper) \/ CreateFails(Keeper) \/ Kill(Keeper)
    <3>1. pc'[Keeper] = "idle" /\ (UNCHANGED name \/ name' = RemovePartial)
      BY <2>8, <2>p DEF Cleanup, CreateFails, Kill, Goto
    <3>2. outcome'[Keeper] # "running"
      BY <2>8, <2>p DEF Cleanup, CreateFails, Kill
    <3> QED BY <1>t, <3>1, <3>2, IdleKInv
  <2> QED BY <1>1, <2>1, <2>2, <2>3, <2>5, <2>6, <2>7, <2>8 DEF Run
<1> QED BY <1>0, <1>1, TheKeeper DEF Next

-----------------------------------------------------------------------------
(* The shelf.                                                              *)

\* What has the final name does not change but by a rename.
LEMMA FinalNameKept ==
    ASSUME OneProcess, KInv, KInv', UNCHANGED outcome,
           name'["out"] = name["out"],
           name["out"] # NoInode => content'[name["out"]] = content[name["out"]],
           pc[Keeper] # "unwind", pc'[Keeper] # "unwind", job'[Keeper] = job[Keeper]
    PROVE  UNCHANGED FinalName!shelfVars
<1>1. AtFinalName' = AtFinalName
  BY DEF AtFinalName
<1> QED BY <1>1 DEF FinalName!shelfVars

\* Each step is a step of the shelf, or none.
LEMMA StepOnShelf ==
    ASSUME OneProcess, KInv, KInv', [Next]_vars
    PROVE  [FinalName!ShelfNext]_(FinalName!shelfVars)
<1>0. CASE UNCHANGED vars
  BY <1>0 DEF vars, FinalName!shelfVars, AtFinalName
<1>p. /\ Keeper \in Procs /\ TypeOK /\ Keeping /\ Streaming(Keeper)
      /\ pc \in [Procs -> Places] /\ outcome \in [Procs -> Outcomes]
      /\ job \in [Procs -> [offer: Offers, verify: BOOLEAN]]
      /\ name \in [{"out", "partial"} -> Inodes \cup {NoInode}]
      /\ content \in [Inodes -> Seq(Units)]
  BY TheKeeper DEF KInv, TypeOK
<1>1. CASE Start(Keeper)
  <2>1. PICK o \in Offers, v \in Verify : job' = [job EXCEPT ![Keeper] = [offer |-> o, verify |-> v]]
    BY <1>1 DEF Start
  <2>2. job'[Keeper] \in [offer: Offers, verify: Verify]
    BY <1>p, <2>1
  <2>3. /\ pc[Keeper] = "idle" /\ pc'[Keeper] = "create" /\ outcome'[Keeper] = "running"
        /\ UNCHANGED <<name, content>>
    BY <1>1, <1>p DEF Start, Goto
  <2>4. outcome[Keeper] # "running"
    BY <1>p, <2>3 DEF Keeping
  <2>5. FinalName!Ask
    BY <2>2, <2>3, <2>4 DEF FinalName!Ask, AtFinalName
  <2> QED BY <2>5 DEF FinalName!ShelfNext
<1>2. CASE Create(Keeper)
  <2>1. Created \in Inodes /\ Created # name["out"]
    BY <1>p, CreatedApart
  <2> HIDE DEF Created
  <2>2. /\ name'["out"] = name["out"] /\ pc[Keeper] = "create" /\ pc'[Keeper] = "get"
        /\ UNCHANGED <<job, outcome>>
        /\ name["out"] # NoInode => content'[name["out"]] = content[name["out"]]
    BY <1>2, <1>p, <2>1 DEF Create, Goto
  <2>3. UNCHANGED FinalName!shelfVars
    BY <2>2, FinalNameKept
  <2> QED BY <2>3
<1>3. CASE CopyUnit(Keeper)
  <2>1. pc[Keeper] = "copy" /\ pc' = pc /\ UNCHANGED <<name, job, outcome>>
    BY <1>3 DEF CopyUnit, Reading
  <2>2. sink[Keeper].fd = name["partial"] /\ sink[Keeper].fd # NoInode
    BY <1>p, <2>1, PartTypes DEF Keeping
  <2>3. name["out"] # sink[Keeper].fd
    BY <1>p, <2>2 DEF Keeping
  <2>4. name["out"] # NoInode => content'[name["out"]] = content[name["out"]]
    BY <1>3, <1>p, <2>3 DEF CopyUnit
  <2>5. UNCHANGED FinalName!shelfVars
    BY <2>1, <2>4, FinalNameKept
  <2> QED BY <2>5
<1>4. CASE \/ Get(Keeper) \/ ReadHeader(Keeper) \/ RefuseHeader(Keeper) \/ InflateEnd(Keeper)
           \/ InflateFails(Keeper) \/ StoredEnd(Keeper) \/ BodyFails(Keeper) \/ Drain(Keeper)
           \/ DrainFails(Keeper) \/ Flush(Keeper) \/ Check(Keeper) \/ CheckFails(Keeper)
           \/ Fault(Keeper)
  <2>1. UNCHANGED <<name, content, job, outcome>>
    BY <1>4 DEF Get, ReadHeader, RefuseHeader, InflateEnd, InflateFails, StoredEnd, BodyFails, Drain,
                DrainFails, Flush, Check, CheckFails, Fault, Retreat
  <2>2. pc[Keeper] # "unwind" /\ \E place \in Places \ {"unwind"} : Goto(Keeper, place)
    BY <1>4 DEF Get, ReadHeader, RefuseHeader, InflateEnd, InflateFails, StoredEnd, BodyFails, Drain,
                DrainFails, Flush, Check, CheckFails, Fault, Retreat, Reading, BodyEnds, Places
  <2>3. pc'[Keeper] # "unwind"
    BY <1>p, <2>2 DEF Goto
  <2>4. UNCHANGED FinalName!shelfVars
    BY <2>1, <2>2, <2>3, FinalNameKept
  <2> QED BY <2>4
<1>5. CASE Rename(Keeper)
  <2>1. pc[Keeper] = "rename" /\ sink[Keeper].fd # NoInode /\ name["partial"] = sink[Keeper].fd
    BY <1>5, <1>p, PartTypes DEF Rename, Keeping
  <2>2. /\ name' = [out |-> sink[Keeper].fd, partial |-> NoInode] /\ pc'[Keeper] = "unwind"
        /\ UNCHANGED <<job, outcome, content>>
    BY <1>5, <1>p, <2>1 DEF Rename, Goto
  <2>3. AtFinalName' = file(Keeper)
    BY <2>1, <2>2 DEF AtFinalName, file
  <2>4. Accepts(job[Keeper], AtFinalName')
    BY <1>p, <2>1, <2>3 DEF Streaming
  <2>5. outcome[Keeper] = "running"
    BY <1>p, <2>1 DEF Keeping
  <2>6. FinalName!Publish
    BY <2>1, <2>2, <2>4, <2>5 DEF FinalName!Publish
  <2> QED BY <2>6 DEF FinalName!ShelfNext
<1>6. CASE Cleanup(Keeper) \/ CreateFails(Keeper) \/ Kill(Keeper)
  <2>1. /\ pc'[Keeper] = "idle" /\ pc[Keeper] # "idle" /\ UNCHANGED <<job, content>>
        /\ name'["out"] = name["out"]
    BY <1>6, <1>p DEF Cleanup, CreateFails, Kill, Goto, RemovePartial
  <2>2. AtFinalName' = AtFinalName
    BY <2>1 DEF AtFinalName
  <2>3. outcome[Keeper] = "running"
    BY <1>p, <2>1 DEF Keeping
  <2>4. \/ outcome'[Keeper] = "ok" /\ pc[Keeper] = "unwind"
        \/ outcome'[Keeper] = "error" /\ pc[Keeper] # "unwind"
        \/ outcome'[Keeper] = "killed"
    BY <1>6, <1>p DEF Cleanup, CreateFails, Kill
  <2>5. pc[Keeper] = "unwind" => Accepts(job[Keeper], AtFinalName)
    <3>1. SUFFICES ASSUME pc[Keeper] = "unwind" PROVE AtFinalName = file(Keeper)
      BY <1>p DEF Streaming
    <3>2. name["out"] = sink[Keeper].fd /\ sink[Keeper].fd # NoInode
      BY <1>p, <3>1, PartTypes DEF Keeping
    <3> QED BY <3>2 DEF AtFinalName, file
  <2>6. FinalName!Answer
    BY <2>1, <2>2, <2>3, <2>4, <2>5 DEF FinalName!Answer
  <2> QED BY <2>6 DEF FinalName!ShelfNext
<1>7. \/ UNCHANGED vars
      \/ Start(Keeper) \/ Run(Keeper) \/ CreateFails(Keeper) \/ Fault(Keeper) \/ Kill(Keeper)
  BY TheKeeper DEF Next
<1> QED BY <1>0, <1>1, <1>2, <1>3, <1>4, <1>5, <1>6, <1>7 DEF Run

\* Every step of one process keeps what its file is.
THEOREM OneKeepsItsFile == OneProcess /\ TruthfulManifest => (Spec => []KInv)
<1>1. OneProcess /\ Init => KInv
  BY InitKInv
<1>2. OneProcess /\ TruthfulManifest /\ KInv /\ [Next]_vars => KInv'
  BY StepKInv
<1> SUFFICES ASSUME OneProcess, TruthfulManifest PROVE Spec => []KInv
  OBVIOUS
<1> QED BY <1>1, <1>2, PTL DEF Spec

\* "an interrupted run never leaves something that looks like a finished image"
\* (fetch.go:32): one process implements the shelf, for any archives that are
\* what the manifest says, any faults and kills.
THEOREM ShelfImplemented == OneProcess /\ TruthfulManifest => (Spec => ImplementsShelf)
<1> SUFFICES ASSUME OneProcess, TruthfulManifest PROVE Spec => ImplementsShelf
  OBVIOUS
<1>1. KInv /\ KInv' /\ [Next]_vars => [FinalName!ShelfNext]_(FinalName!shelfVars)
  BY StepOnShelf
<1> QED BY <1>1, OneKeepsItsFile, PTL DEF Spec, ImplementsShelf

-----------------------------------------------------------------------------
(* What arrives of a good archive.                                         *)

\* What was pulled and what is still to come are the archive.
Unspoiled(p) ==
    LET w == WireOf(job[p].offer.archive)
        n == Len(net[p].pulled)
    IN  /\ ~net[p].broken
        /\ n + Len(net[p].wire) = Len(w)
        /\ \A i \in 1 .. n : net[p].pulled[i] = w[i]
        /\ \A i \in 1 .. Len(net[p].wire) : net[p].wire[i] = w[n + i]

Arriving(p) ==
    hist.clean[p] /\ GoodArchive(job[p].offer.archive) =>
        /\ pc[p] # "retreat"
        /\ pc[p] \in {"header", "copy", "drain", "flush", "check"} => Unspoiled(p)
        /\ pc[p] \in {"flush", "check"} => net[p].wire = <<>>
        /\ pc[p] \in {"rename", "unwind"} => file(p) = job[p].offer.payload

AInv == KInv /\ Arriving(Keeper)

\* A good archive's header is read, and says how long the body is or leaves it
\* to the end mark.
LEMMA HeaderSound ==
    ASSUME NEW o \in Offers, GoodArchive(o.archive), Len(o.archive.body) < Half64
    PROVE  LET h == o.archive.header IN
           /\ ~HeaderRefused(h)
           /\ h.method \in {"store", "deflate"}
           /\ \/ h.method = "deflate" /\ HeaderSizes(h).comp = sizeUnknown
              \/ HeaderSizes(h).comp = Len(o.archive.body)
<1> DEFINE h == o.archive.header
           n == Len(o.archive.body)
           full == {i \in DOMAIN h.extra : h.extra[i].id = "zip64" /\ h.extra[i].size >= 16}
<1>1. h \in Header /\ h.extra \in Seq(Extra) /\ n \in Nat
  <2>1. h \in Header /\ o.archive.body \in Seq(Units)
    BY FetchAssumption DEF Offer, Archive
  <2> QED BY <2>1, LenProperties DEF Header
<1>2. /\ h.sig /\ h.method \in {"store", "deflate"}
      /\ \A i \in DOMAIN h.extra : h.extra[i].fits
      /\ Zip64(h) => Cardinality(full) = 1
      /\ \/ h.dd /\ h.method = "deflate"
         \/ ~h.dd /\ ~Zip64(h) /\ h.comp = n
         \/ ~h.dd /\ Zip64(h) /\ \A i \in full : h.extra[i].comp = n
  BY DEF GoodArchive
<1>3. full = {i \in DOMAIN h.extra : Usable(h.extra[i])}
  BY DEF Usable, UsableSized
<1>4. ASSUME Zip64(h) PROVE \E k \in DOMAIN h.extra : full = {k} /\ parseZip64Extra(h.extra) = {k}
  <2>1. DOMAIN h.extra = 1 .. Len(h.extra) /\ Len(h.extra) \in Nat
    BY <1>1
  <2>2. IsFiniteSet(full)
    <3> DEFINE k == Len(h.extra)
    <3>0. 1 \in Int /\ k \in Int
      BY <2>1
    <3>1. IsFiniteSet(1 .. k)
      <4> HIDE DEF k
      <4> QED BY <3>0, FS_Interval
    <3> QED BY <2>1, <3>1, FS_Subset
  <2>3. PICK k : full = {k}
    <3> HIDE DEF full
    <3> QED BY <1>2, <1>4, <2>2, FS_Singleton
  <2>4. k \in DOMAIN h.extra /\ Usable(h.extra[k])
    BY <1>3, <2>3
  <2>5. \A j \in 1 .. k : j \in DOMAIN h.extra
    BY <2>1, <2>4
  <2>6. \A j \in 1 .. k - 1 : ~Usable(h.extra[j])
    <3>1. ASSUME NEW j \in 1 .. k - 1, Usable(h.extra[j]) PROVE FALSE
      <4>1. j \in 1 .. k /\ j # k
        BY <2>1, <2>4
      <4>2. j \in full
        BY <1>3, <2>5, <3>1, <4>1
      <4> QED BY <2>3, <4>1, <4>2
    <3> QED BY <3>1
  <2>7. k \in parseZip64Extra(h.extra)
    BY <1>2, <2>4, <2>5, <2>6 DEF parseZip64Extra
  <2>8. parseZip64Extra(h.extra) \subseteq full
    BY <1>3 DEF parseZip64Extra
  <2>9. parseZip64Extra(h.extra) = {k}
    BY <2>3, <2>7, <2>8
  <2> QED BY <2>3, <2>4, <2>9
<1>5. ~HeaderRefused(h)
  BY <1>2, <1>4 DEF HeaderRefused
<1>6. CASE h.dd /\ h.method = "deflate"
  BY <1>2, <1>5, <1>6 DEF HeaderSizes
<1>7. CASE ~h.dd /\ ~Zip64(h) /\ h.comp = n
  BY <1>2, <1>5, <1>7 DEF HeaderSizes
<1>8. CASE ~h.dd /\ Zip64(h) /\ \A i \in full : h.extra[i].comp = n
  <2>1. PICK k \in DOMAIN h.extra : full = {k} /\ parseZip64Extra(h.extra) = {k}
    BY <1>4, <1>8
  <2>2. (CHOOSE i \in parseZip64Extra(h.extra) : TRUE) = k
    BY <2>1
  <2>3. HeaderSizes(h).comp = Int64(h.extra[k].comp)
    BY <1>8, <2>2 DEF HeaderSizes, RecordSizes
  <2>4. h.extra[k].comp = n
    BY <1>8, <2>1
  <2>5. Int64(n) = n
    BY DEF Int64
  <2> QED BY <1>2, <1>5, <2>3, <2>4, <2>5
<1> QED BY <1>2, <1>6, <1>7, <1>8

\* One off the wire is one more pulled.
LEMMA PullUnspoiled ==
    ASSUME TypeOK, NEW p \in Procs, Unspoiled(p), Pull(p), net[p].wire # <<>>, UNCHANGED job
    PROVE  Unspoiled(p)'
<1> DEFINE w == WireOf(job[p].offer.archive)
           n == Len(net[p].pulled)
           m == Len(net[p].wire)
<1>1. /\ net \in [Procs -> NetType] /\ net[p] \in NetType
      /\ net[p].wire \in Seq(Units) /\ net[p].pulled \in Seq(Units)
  BY PartTypes
<1>2. /\ net'[p].broken = net[p].broken /\ net'[p].wire = Tail(net[p].wire)
  BY <1>1 DEF Pull, NetType
<1>3. /\ n \in Nat /\ m \in Nat /\ m >= 1 /\ Len(net'[p].wire) = m - 1
      /\ \A i \in 1 .. m - 1 : net'[p].wire[i] = net[p].wire[i + 1]
      /\ Head(net[p].wire) = net[p].wire[1]
  BY <1>1, <1>2
<1>4. /\ Len(net'[p].pulled) = n + 1
      /\ \A i \in 1 .. n : net'[p].pulled[i] = net[p].pulled[i]
      /\ net'[p].pulled[n + 1] = net[p].wire[1]
  BY <1>3, PullAppends
<1>5. /\ ~net[p].broken
      /\ n + m = Len(w)
      /\ \A i \in 1 .. n : net[p].pulled[i] = w[i]
      /\ \A i \in 1 .. m : net[p].wire[i] = w[n + i]
  BY DEF Unspoiled
<1>6. WireOf(job'[p].offer.archive) = w
  OBVIOUS
<1> HIDE DEF w, n, m
<1>7. (n + 1) + (m - 1) = Len(w)
  BY <1>3, <1>5
<1>8. \A i \in 1 .. n + 1 : net'[p].pulled[i] = w[i]
  <2>1. net'[p].pulled[n + 1] = w[n + 1]
    BY <1>3, <1>4, <1>5
  <2> QED BY <1>3, <1>4, <1>5, <2>1
<1>9. \A i \in 1 .. m - 1 : net'[p].wire[i] = w[(n + 1) + i]
  <2>1. ASSUME NEW i \in 1 .. m - 1 PROVE net'[p].wire[i] = w[(n + 1) + i]
    <3>1. i + 1 \in 1 .. m /\ n + (i + 1) = (n + 1) + i
      BY <1>3
    <3>2. net'[p].wire[i] = net[p].wire[i + 1]
      BY <1>3
    <3>3. net[p].wire[i + 1] = w[n + (i + 1)]
      BY <1>5, <3>1
    <3> QED BY <3>1, <3>2, <3>3
  <2> QED BY <2>1
<1> QED BY <1>2, <1>3, <1>4, <1>5, <1>6, <1>7, <1>8, <1>9 DEF Unspoiled

\* With nothing left on the wire the archive was pulled whole.
LEMMA PulledWhole ==
    ASSUME TypeOK, NEW p \in Procs, Unspoiled(p), net[p].wire = <<>>
    PROVE  net[p].pulled = WireOf(job[p].offer.archive)
<1> DEFINE w == WireOf(job[p].offer.archive)
<1>1. w \in Seq(Units) /\ net[p].pulled \in Seq(Units)
  BY PartTypes, WireType
<1>2. Len(net[p].wire) = 0
  OBVIOUS
<1>3. /\ Len(net[p].pulled) + Len(net[p].wire) = Len(w)
      /\ \A i \in 1 .. Len(net[p].pulled) : net[p].pulled[i] = w[i]
  BY DEF Unspoiled
<1>4. Len(net[p].pulled) \in Nat /\ Len(net[p].pulled) = Len(w)
  <2>1. Len(net[p].pulled) \in Nat
    BY <1>1, LenProperties
  <2> QED BY <1>2, <1>3, <2>1
<1> HIDE DEF w
<1> QED BY <1>1, <1>3, <1>4, SeqEqual DEF w

-----------------------------------------------------------------------------
(* A good archive that nothing spoils is never refused.                    *)

\* What the steps of a run that meets no fault have to go on.
Good(p) ==
    /\ TypeOK /\ Streaming(p) /\ p \in Procs /\ SoundOffers
    /\ GoodArchive(job[p].offer.archive) /\ Unspoiled(p)

\* The offer of a good archive is what it says.
LEMMA GoodOffer ==
    ASSUME NEW p, Good(p)
    PROVE  LET o == job[p].offer IN
           /\ o \in Offers /\ Truthful(o)
           /\ o.image.FileSize \in {0, Len(o.payload)}
           /\ o.image.ZipFileSize \in {0, Len(WireOf(o.archive))}
           /\ ~HeaderRefused(header(p))
           /\ header(p).method \in {"store", "deflate"}
           /\ \/ header(p).method = "deflate" /\ comp(p) = sizeUnknown
              \/ comp(p) = Len(o.archive.body)
<1>1. job[p].offer \in Offers
  BY PartTypes DEF Good
<1> QED BY <1>1, HeaderSound DEF Good, SoundOffers, header, comp

\* What is on the wire starts with the header.
LEMMA WireHead ==
    ASSUME NEW o \in Offers PROVE Len(WireOf(o.archive)) >= 1 /\ WireOf(o.archive)[1] = "hdr"
<1> DEFINE rest == o.archive.body \o o.archive.tail
           front == <<"hdr">> \o o.archive.body
<1>1. o.archive.body \in Seq(Units) /\ o.archive.tail \in Seq(Units) /\ "hdr" \in Units
  BY FetchAssumption DEF Offer, Archive, Marks
<1>2. <<"hdr">> \in Seq(Units) /\ Len(<<"hdr">>) = 1 /\ <<"hdr">>[1] = "hdr"
  BY <1>1
<1>3. front \in Seq(Units) /\ Len(front) >= 1 /\ front[1] = "hdr"
  BY <1>1, <1>2
<1> HIDE DEF front
<1>4. Len(front \o o.archive.tail) >= 1 /\ (front \o o.archive.tail)[1] = "hdr"
  BY <1>1, <1>3
<1>5. WireOf(o.archive) = front \o o.archive.tail
  BY DEF WireOf, front
<1> QED BY <1>4, <1>5

\* A first element is the head.
LEMMA FirstIsHead ==
    ASSUME NEW S, NEW s \in Seq(S), Len(s) >= 1 PROVE s # <<>> /\ Head(s) = s[1] /\ 1 \in 1 .. Len(s)
  OBVIOUS

\* The header is there, and it is read.
LEMMA NotRefused == ASSUME NEW p, Good(p), pc[p] = "header" PROVE HeaderGood(p)
<1> DEFINE w == WireOf(job[p].offer.archive)
<1>1. net[p].wire \in Seq(Units) /\ net[p].pulled = <<>> /\ job[p].offer \in Offers
  BY PartTypes DEF Good, Streaming
<1>2. Len(w) >= 1 /\ w[1] = "hdr"
  BY <1>1, WireHead
<1>3. /\ Len(net[p].pulled) + Len(net[p].wire) = Len(w)
      /\ \A i \in 1 .. Len(net[p].wire) : net[p].wire[i] = w[Len(net[p].pulled) + i]
  BY DEF Good, Unspoiled
<1>4. Len(net[p].pulled) = 0 /\ 0 + 1 = 1 /\ Len(net[p].wire) \in Nat
  BY <1>1, LenProperties
<1> HIDE DEF w
<1>5. Len(net[p].wire) >= 1
  BY <1>2, <1>3, <1>4
<1>6. net[p].wire # <<>> /\ Head(net[p].wire) = net[p].wire[1] /\ 1 \in 1 .. Len(net[p].wire)
  BY <1>1, <1>5, FirstIsHead
<1>7. net[p].wire[1] = w[1]
  BY <1>3, <1>4, <1>6
<1> QED BY <1>2, <1>6, <1>7, GoodOffer DEF HeaderGood

\* The inflater has not come to the end mark before the end of the body.
LEMMA BeforeTheEnd ==
    ASSUME NEW p, Good(p), pc[p] = "copy", header(p).method = "deflate"
    PROVE  LET b == job[p].offer.archive.body
               w == sink[p].written
           IN  /\ w \in Nat /\ Len(b) \in Nat /\ w + 1 <= Len(b)
               /\ Len(net[p].pulled) = w + 1
               /\ w + 1 = Len(b) => b[w + 1] = "end"
               /\ w + 1 < Len(b) => b[w + 1] \notin Marks
               /\ net[p].wire # <<>> /\ Head(net[p].wire) = b[w + 1]
<1> DEFINE o == job[p].offer
           b == o.archive.body
           w == sink[p].written
           W == WireOf(o.archive)
           n == Len(o.payload)
           t == Len(o.archive.tail)
<1>1. /\ p \in Procs /\ w \in Nat /\ o \in Offers /\ o.payload \in Seq(Units) /\ n \in Nat
      /\ t \in Nat
  <2>1. p \in Procs /\ w \in Nat /\ o \in Offers /\ o.payload \in Seq(Units)
        /\ o.archive \in Archive
    BY PartTypes DEF Good
  <2> QED BY <2>1, LenProperties DEF Archive
<1>2. Copied(p) /\ Limited(p) /\ Unspoiled(p)
  BY DEF Good, Streaming
<1>3. b = Append(o.payload, "end") /\ \A i \in 1 .. n : o.payload[i] \notin Marks
  BY <1>1, GoodOffer DEF Truthful, header
<1>4. /\ Len(b) = n + 1 /\ b[n + 1] = "end" /\ \A i \in 1 .. n : b[i] \notin Marks
  BY <1>1, <1>3
<1>5. Len(W) = 1 + Len(b) + t /\ \A i \in 1 .. Len(b) : W[i + 1] = b[i]
  BY <1>1, WireParts
<1>6. /\ Len(net[p].pulled) = w + 1
      /\ Len(net[p].pulled) + Len(net[p].wire) = Len(W)
      /\ \A i \in 1 .. Len(net[p].pulled) : net[p].pulled[i] = W[i]
      /\ \A i \in 1 .. Len(net[p].wire) : net[p].wire[i] = W[Len(net[p].pulled) + i]
  BY <1>2 DEF Limited, Unspoiled
<1>7. \A i \in 1 .. w : net[p].pulled[i + 1] \notin Marks \ {"bad"}
  BY <1>2 DEF Copied
<1>8. net[p].wire \in Seq(Units) /\ Len(net[p].wire) \in Nat
  <2>1. net[p].wire \in Seq(Units)
    BY PartTypes DEF Good
  <2> QED BY <2>1, LenProperties
<1> DEFINE m == Len(net[p].wire)
<1>9. m # 0 => net[p].wire # <<>> /\ Head(net[p].wire) = net[p].wire[1]
  BY <1>8
<1> HIDE DEF o, b, w, W, n, t, m
<1>10. w <= n
  <2>1. SUFFICES ASSUME n < w PROVE FALSE
    BY <1>1
  <2>2. n + 1 \in 1 .. w /\ (n + 1) + 1 \in 1 .. w + 1 /\ n + 1 \in 1 .. Len(b)
    BY <1>1, <1>4, <2>1
  <2>3. net[p].pulled[(n + 1) + 1] = "end"
    BY <1>4, <1>5, <1>6, <2>2
  <2> QED BY <1>7, <2>2, <2>3 DEF Marks
<1>11. m >= 1
  <2>1. (w + 1) + m = 1 + (n + 1) + t
    BY <1>4, <1>5, <1>6 DEF m
  <2>2. m \in Nat
    BY <1>8 DEF m
  <2> QED BY <1>1, <1>10, <2>1, <2>2
<1>12. net[p].wire # <<>> /\ Head(net[p].wire) = b[w + 1]
  <2>1. net[p].wire # <<>> /\ Head(net[p].wire) = net[p].wire[1]
    BY <1>9, <1>11
  <2>2. 1 \in 1 .. m /\ w + 1 \in 1 .. Len(b)
    BY <1>1, <1>4, <1>8, <1>10, <1>11 DEF m
  <2>3. net[p].wire[1] = W[(w + 1) + 1]
    BY <1>6, <2>2 DEF m
  <2> QED BY <1>5, <2>1, <2>2, <2>3
<1>13. w + 1 <= Len(b) /\ (w + 1 = Len(b) => b[w + 1] = "end") /\ (w + 1 < Len(b) => b[w + 1] \notin Marks)
  BY <1>1, <1>4, <1>10
<1>14. Len(b) \in Nat
  BY <1>1, <1>4
<1> QED BY <1>1, <1>6, <1>12, <1>13, <1>14 DEF b, w, o

\* So the inflater does not fail.
LEMMA NotInflateFails == ASSUME NEW p, Good(p), InflateFails(p) PROVE FALSE
<1> DEFINE b == job[p].offer.archive.body
           w == sink[p].written
<1>1. pc[p] = "copy" /\ header(p).method = "deflate" /\ Head(net[p].wire) \in Marks \ {"end"}
  BY DEF InflateFails, Reading
<1>2. /\ w \in Nat /\ Len(b) \in Nat /\ w + 1 <= Len(b)
      /\ w + 1 = Len(b) => b[w + 1] = "end"
      /\ w + 1 < Len(b) => b[w + 1] \notin Marks
      /\ Head(net[p].wire) = b[w + 1]
  BY <1>1, BeforeTheEnd
<1> HIDE DEF b, w
<1> QED BY <1>1, <1>2

\* And the body does not end too early.
LEMMA NotBodyFails == ASSUME NEW p, Good(p), BodyFails(p) PROVE FALSE
<1> DEFINE b == job[p].offer.archive.body
           w == sink[p].written
<1>1. ~net[p].broken
  BY DEF Good, Unspoiled
<1>2. pc[p] = "copy" /\ header(p).method = "deflate" /\ (~MayRead(p) \/ net[p].wire = <<>>)
  BY <1>1 DEF BodyFails, BodyEnds
<1>3. w \in Nat /\ Len(b) \in Nat /\ w + 1 <= Len(b) /\ net[p].wire # <<>>
  BY <1>2, BeforeTheEnd
<1>4. sink[p].left # sizeUnknown /\ ~(sink[p].left > 0)
  BY <1>2, <1>3 DEF MayRead
<1>5. Limited(p)
  BY <1>2 DEF Good, Streaming
<1>6. comp(p) = Len(b) /\ sink[p].left = comp(p) - w
  BY <1>4, <1>5, GoodOffer DEF Limited
<1> HIDE DEF b, w, comp
<1> QED BY <1>3, <1>4, <1>6

\* What the check compares is what it is compared with.
LEMMA NotCheckFails ==
    ASSUME NEW p, Good(p), pc[p] = "check", net[p].wire = <<>>
    PROVE  Passes(p) /\ file(p) = job[p].offer.payload
<1> DEFINE o == job[p].offer
<1>1. p \in Procs /\ TypeOK /\ Copied(p) /\ Stopped(p) /\ Unspoiled(p)
  BY DEF Good, Streaming
<1>2. net[p].pulled = WireOf(o.archive)
  BY <1>1, PulledWhole
<1>3. /\ Truthful(o) /\ o.image.FileSize \in {0, Len(o.payload)}
      /\ o.image.ZipFileSize \in {0, Len(WireOf(o.archive))}
  BY GoodOffer
<1>4. header(p).method = "store" => comp(p) = Len(o.payload)
  <2>1. ASSUME header(p).method = "store" PROVE comp(p) = Len(o.payload)
    <3>1. comp(p) = Len(o.archive.body)
      BY <2>1, GoodOffer
    <3>2. o.archive.body = o.payload
      BY <1>3, <2>1 DEF Truthful, header
    <3> QED BY <3>1, <3>2
  <2> QED BY <2>1
<1>5. file(p) = o.payload
  BY <1>1, <1>2, <1>3, <1>4, CopiedIsImage
<1>6. sink[p].written = Len(o.payload)
  BY <1>1, <1>5 DEF Copied
<1>7. checkIntegrity(p)
  BY <1>2, <1>3, <1>6 DEF checkIntegrity, SizeMatches, HashMatches, Truthful, image
<1> QED BY <1>5, <1>7 DEF Passes

-----------------------------------------------------------------------------
(* What a run that meets no fault comes to.                                *)

\* A fault is remembered until the next run.
LEMMA StrikeSpoils == ASSUME TypeOK, NEW p \in Procs, Strike(p) PROVE ~hist'.clean[p]
<1>1. hist \in HistType
  BY DEF TypeOK, HistType
<1>2. hist' = [hist EXCEPT !.faults = hist.faults + 1,
                           !.clean = [hist.clean EXCEPT ![p] = FALSE]]
  BY DEF Strike
<1> QED BY <1>1, <1>2 DEF HistType

\* The whole archive is on the wire.
LEMMA GetArrives ==
    ASSUME TypeOK, NEW p \in Procs, Get(p), hist'.clean[p]
    PROVE  Unspoiled(p)' /\ pc'[p] = "header" /\ UNCHANGED job
<1> DEFINE w == WireOf(job[p].offer.archive)
<1>1. w \in Seq(Units) /\ net \in [Procs -> NetType] /\ pc \in [Procs -> Places]
  BY PartTypes, WireType
<1>2. net'[p] = [wire |-> w, broken |-> FALSE, pulled |-> <<>>]
  BY <1>1, StrikeSpoils DEF Get
<1>3. pc'[p] = "header" /\ UNCHANGED job
  BY <1>1 DEF Get, Goto
<1>4. Len(w) \in Nat
  BY <1>1, LenProperties
<1>5. Len(<<>>) = 0
  OBVIOUS
<1> HIDE DEF w
<1>6. /\ ~net'[p].broken /\ net'[p].wire = w /\ net'[p].pulled = <<>>
  BY <1>2
<1>7. WireOf(job'[p].offer.archive) = w
  BY <1>3 DEF w
<1>8. /\ Len(net'[p].pulled) = 0 /\ Len(net'[p].pulled) + Len(net'[p].wire) = Len(w)
      /\ \A i \in 1 .. Len(net'[p].pulled) : FALSE
      /\ \A i \in 1 .. Len(net'[p].wire) : net'[p].wire[i] = w[Len(net'[p].pulled) + i]
  <2>1. Len(net'[p].pulled) = 0
    BY <1>5, <1>6
  <2>2. \A i \in 1 .. Len(w) : 0 + i = i
    BY <1>4
  <2> QED BY <1>4, <1>6, <2>1, <2>2
<1> QED BY <1>3, <1>6, <1>7, <1>8 DEF Unspoiled

\* The rest of the archive is pulled.
LEMMA DrainArrives ==
    ASSUME TypeOK, NEW p \in Procs, Drain(p), Unspoiled(p)
    PROVE  Unspoiled(p)' /\ net'[p].wire = <<>>
<1> DEFINE w == WireOf(job[p].offer.archive)
           n == Len(net[p].pulled)
           m == Len(net[p].wire)
           all == net[p].pulled \o net[p].wire
<1>1. /\ net \in [Procs -> NetType] /\ net[p] \in NetType
      /\ net[p].wire \in Seq(Units) /\ net[p].pulled \in Seq(Units)
  BY PartTypes
<1>2. /\ net'[p].broken = net[p].broken /\ net'[p].wire = <<>>
      /\ net'[p].pulled = all /\ UNCHANGED job
  BY <1>1 DEF Drain, NetType
<1>3. /\ n \in Nat /\ m \in Nat /\ Len(all) = n + m
      /\ \A i \in 1 .. n + m : all[i] = IF i <= n THEN net[p].pulled[i] ELSE net[p].wire[i - n]
  BY <1>1, ConcatProperties, LenProperties
<1>4. /\ ~net[p].broken /\ n + m = Len(w)
      /\ \A i \in 1 .. n : net[p].pulled[i] = w[i]
      /\ \A i \in 1 .. m : net[p].wire[i] = w[n + i]
  BY DEF Unspoiled
<1>5. WireOf(job'[p].offer.archive) = w
  BY <1>2
<1>6. Len(net'[p].wire) = 0
  BY <1>2
<1> HIDE DEF w, n, m, all
<1>7. \A i \in 1 .. n + m : all[i] = w[i]
  <2>1. ASSUME NEW i \in 1 .. n + m PROVE all[i] = w[i]
    <3>1. CASE i <= n
      BY <1>3, <1>4, <3>1
    <3>2. CASE ~(i <= n)
      <4>1. i - n \in 1 .. m /\ n + (i - n) = i
        BY <1>3, <3>2
      <4> QED BY <1>3, <1>4, <3>2, <4>1
    <3> QED BY <3>1, <3>2
  <2> QED BY <2>1
<1>8. Len(net'[p].pulled) = n + m /\ (n + m) + 0 = n + m
  BY <1>2, <1>3
<1>9. \A i \in 1 .. Len(net'[p].wire) : FALSE
  BY <1>6
<1> QED BY <1>2, <1>4, <1>5, <1>6, <1>7, <1>8, <1>9 DEF Unspoiled

\* At first nothing has come.
LEMMA InitAInv == ASSUME OneProcess, Init PROVE AInv
<1>1. pc[Keeper] = "idle"
  BY TheKeeper DEF Init
<1> QED BY <1>1, InitKInv DEF AInv, Arriving

\* A step that stays at the wire leaves what is to come of the archive.
LEMMA StillArriving ==
    ASSUME NEW p, Unspoiled(p)', pc'[p] \in {"header", "copy", "drain", "flush", "check"},
           pc'[p] \in {"flush", "check"} => net'[p].wire = <<>>
    PROVE  Arriving(p)'
  BY DEF Arriving

\* Every step of one process keeps all of it.
LEMMA StepArriving ==
    ASSUME OneProcess, SoundOffers, AInv, KInv', [Next]_vars PROVE Arriving(Keeper)'
<1>k. Keeper \in Procs /\ TypeOK /\ TypeOK' /\ Streaming(Keeper) /\ Keeping
  BY TheKeeper DEF AInv, KInv
<1>t. /\ pc \in [Procs -> Places] /\ job \in [Procs -> [offer: Offers, verify: BOOLEAN]]
      /\ net \in [Procs -> NetType] /\ hist \in HistType
  BY <1>k, PartTypes DEF TypeOK, HistType
<1> SUFFICES ASSUME hist'.clean[Keeper], GoodArchive(job'[Keeper].offer.archive)
             PROVE  Arriving(Keeper)'
  BY DEF Arriving
<1>0. CASE UNCHANGED vars
  BY <1>0 DEF vars, AInv, Arriving, Unspoiled, file
<1>f. ~Strike(Keeper)
  BY <1>k, StrikeSpoils
<1>1. CASE Start(Keeper)
  <2>1. pc'[Keeper] = "create"
    BY <1>1, <1>t, <1>k DEF Start, Goto
  <2> QED BY <2>1 DEF Arriving
<1>2. CASE Create(Keeper)
  <2>1. pc'[Keeper] = "get"
    BY <1>2, <1>t, <1>k DEF Create, Goto
  <2> QED BY <2>1 DEF Arriving
<1>3. CASE Get(Keeper)
  <2>1. Unspoiled(Keeper)' /\ pc'[Keeper] = "header"
    BY <1>3, <1>k, GetArrives
  <2> QED BY <2>1, StillArriving
<1>4. CASE CreateFails(Keeper) \/ Fault(Keeper)
  BY <1>4, <1>f DEF CreateFails, Fault
<1>5. CASE Kill(Keeper) \/ Cleanup(Keeper)
  <2>1. pc'[Keeper] = "idle"
    BY <1>5, <1>t, <1>k DEF Kill, Cleanup, Goto
  <2> QED BY <2>1 DEF Arriving
<1>6. ASSUME UNCHANGED <<job, hist>>, pc[Keeper] \in {"header", "copy", "drain", "flush", "check"}
      PROVE  Good(Keeper) /\ (pc[Keeper] \in {"flush", "check"} => net[Keeper].wire = <<>>)
  BY <1>6, <1>k DEF Good, AInv, Arriving
<1>7. CASE ReadHeader(Keeper) \/ CopyUnit(Keeper) \/ InflateEnd(Keeper)
  <2>1. /\ pc[Keeper] \in {"header", "copy"} /\ pc'[Keeper] \in {"header", "copy", "drain"}
        /\ UNCHANGED <<job, hist>> /\ Pull(Keeper) /\ net[Keeper].wire # <<>>
    BY <1>7, <1>t, <1>k DEF ReadHeader, CopyUnit, InflateEnd, Reading, HeaderGood, Goto
  <2>2. Unspoiled(Keeper)
    BY <1>6, <2>1 DEF Good
  <2>3. Unspoiled(Keeper)'
    BY <1>k, <2>1, <2>2, PullUnspoiled
  <2> QED BY <2>1, <2>3, StillArriving
<1>8. CASE StoredEnd(Keeper) \/ Flush(Keeper)
  <2>1. /\ pc[Keeper] \in {"copy", "flush"} /\ UNCHANGED <<job, net, hist>>
        /\ pc'[Keeper] = IF pc[Keeper] = "copy" THEN "drain" ELSE "check"
    BY <1>8, <1>t, <1>k DEF StoredEnd, BodyEnds, Flush, Goto
  <2>2. Unspoiled(Keeper) /\ (pc[Keeper] = "flush" => net[Keeper].wire = <<>>)
    BY <1>6, <2>1 DEF Good
  <2>3. Unspoiled(Keeper)'
    BY <2>1, <2>2 DEF Unspoiled
  <2> QED BY <2>1, <2>2, <2>3, StillArriving
<1>9. CASE Drain(Keeper)
  <2>1. pc[Keeper] = "drain" /\ pc'[Keeper] = "flush" /\ UNCHANGED <<job, hist>>
    BY <1>9, <1>t, <1>k DEF Drain, Goto
  <2>2. Unspoiled(Keeper)
    BY <1>6, <2>1 DEF Good
  <2>3. Unspoiled(Keeper)' /\ net'[Keeper].wire = <<>>
    BY <1>9, <1>k, <2>2, DrainArrives
  <2> QED BY <2>1, <2>3, StillArriving
<1>10. CASE Check(Keeper)
  <2>1. /\ pc[Keeper] = "check" /\ pc'[Keeper] = "rename"
        /\ UNCHANGED <<job, hist, content, sink>>
    BY <1>10, <1>t, <1>k DEF Check, Goto
  <2>2. Good(Keeper) /\ net[Keeper].wire = <<>>
    BY <1>6, <2>1
  <2>3. file(Keeper) = job[Keeper].offer.payload
    BY <2>1, <2>2, NotCheckFails
  <2> QED BY <2>1, <2>3 DEF Arriving, file
<1>11. CASE RefuseHeader(Keeper) \/ InflateFails(Keeper) \/ BodyFails(Keeper) \/ DrainFails(Keeper)
            \/ CheckFails(Keeper)
  <2>1. /\ pc[Keeper] \in {"header", "copy", "drain", "check"} /\ UNCHANGED <<job, hist>>
    BY <1>11 DEF RefuseHeader, InflateFails, BodyFails, DrainFails, CheckFails, Reading, BodyEnds, Retreat
  <2>2. Good(Keeper) /\ (pc[Keeper] = "check" => net[Keeper].wire = <<>>)
    BY <1>6, <2>1
  <2>3. CASE RefuseHeader(Keeper)
    BY <2>2, <2>3, NotRefused DEF RefuseHeader
  <2>4. CASE DrainFails(Keeper)
    BY <2>2, <2>4 DEF DrainFails, Good, Unspoiled
  <2>5. CASE CheckFails(Keeper)
    BY <2>2, <2>5, NotCheckFails DEF CheckFails
  <2> QED BY <1>11, <2>2, <2>3, <2>4, <2>5, NotInflateFails, NotBodyFails
<1>12. CASE Rename(Keeper)
  <2>1. pc[Keeper] = "rename" /\ name["partial"] = sink[Keeper].fd /\ sink[Keeper].fd # NoInode
    BY <1>12, <1>k, PartTypes DEF Rename, Keeping
  <2>2. /\ pc'[Keeper] = "unwind" /\ UNCHANGED <<job, sink, content, hist>>
    BY <1>12, <1>t, <1>k, <2>1 DEF Rename, Goto
  <2>3. file(Keeper) = job[Keeper].offer.payload
    BY <2>1, <2>2 DEF AInv, Arriving
  <2> QED BY <2>2, <2>3 DEF Arriving, file
<1>13. \/ UNCHANGED vars
       \/ Start(Keeper) \/ Run(Keeper) \/ CreateFails(Keeper) \/ Fault(Keeper) \/ Kill(Keeper)
  BY TheKeeper DEF Next
<1> QED BY <1>0, <1>1, <1>2, <1>3, <1>4, <1>5, <1>7, <1>8, <1>9, <1>10, <1>11, <1>12, <1>13 DEF Run

\* A run that ends well, or would have, has its image under the final name.
LEMMA StepArrives ==
    ASSUME OneProcess, AInv, NEW p \in Procs, [Next]_vars,
           outcome[p] = "running", outcome'[p] # "running", hist'.clean[p],
           GoodArchive(job[p].offer.archive)
    PROVE  outcome'[p] = "ok" /\ content'[name'["out"]] = job[p].offer.payload
<1>1. p = Keeper /\ p \in Procs /\ TypeOK /\ Keeping
  BY TheKeeper DEF AInv, KInv
<1>t. /\ pc \in [Procs -> Places] /\ outcome \in [Procs -> Outcomes] /\ hist \in HistType
      /\ name \in [{"out", "partial"} -> Inodes \cup {NoInode}]
  BY <1>1 DEF TypeOK, HistType
<1>2. ~Strike(p)
  BY <1>1, StrikeSpoils
<1>3. ~Kill(p)
  <2>1. ASSUME Kill(p) PROVE FALSE
    <3>1. hist' = [hist EXCEPT !.kills = hist.kills + 1,
                               !.clean = [hist.clean EXCEPT ![p] = FALSE]]
      BY <2>1 DEF Kill
    <3> QED BY <1>1, <1>t, <3>1 DEF HistType
  <2> QED BY <2>1
<1>4. ~Start(p)
  BY <1>1, <1>t DEF Start
<1>5. Cleanup(p)
  <2>1. Run(p) /\ outcome' # outcome
    BY <1>1, <1>2, <1>3, <1>4, TheKeeper DEF Next, CreateFails, Fault, vars
  <2> QED BY <2>1 DEF Run, Create, Get, ReadHeader, RefuseHeader, CopyUnit, InflateEnd, InflateFails, StoredEnd,
             BodyFails, Drain, DrainFails, Flush, Check, CheckFails, Rename, Retreat
<1>6. /\ pc[p] \in {"unwind", "retreat"} /\ UNCHANGED <<content, hist>>
      /\ outcome'[p] = (IF pc[p] = "unwind" THEN "ok" ELSE "error")
      /\ name'["out"] = name["out"]
  BY <1>1, <1>5, <1>t DEF Cleanup, RemovePartial
<1>7. pc[p] = "unwind" /\ file(p) = job[p].offer.payload
  BY <1>1, <1>6 DEF AInv, Arriving
<1>8. name["out"] = sink[p].fd
  BY <1>1, <1>7 DEF Keeping
<1> QED BY <1>6, <1>7, <1>8 DEF file

\* A run that meets no fault succeeds for every good archive, whatever earlier
\* runs left, and what then has the final name is the image: Fetch of fetch.go,
\* one process, for any archives that are what the manifest says.
THEOREM ArchivesArrive == OneProcess /\ TruthfulManifest /\ SoundOffers => (Spec => GoodArchivesArrive)
<1> SUFFICES ASSUME OneProcess, TruthfulManifest, SoundOffers PROVE Spec => GoodArchivesArrive
  OBVIOUS
<1>1. Init => AInv
  BY InitAInv
<1>2. AInv /\ [Next]_vars => AInv'
  <2>1. AInv /\ [Next]_vars => KInv'
    BY StepKInv DEF AInv
  <2> QED BY <2>1, StepArriving DEF AInv
<1>3. AInv /\ [Next]_vars =>
          [ \A p \in Procs :
              /\ outcome[p] = "running" /\ outcome'[p] # "running" /\ hist'.clean[p]
              /\ GoodArchive(job[p].offer.archive)
              => /\ outcome'[p] = "ok"
                 /\ content'[name'["out"]] = job[p].offer.payload ]_vars
  BY StepArrives
<1> QED BY <1>1, <1>2, <1>3, PTL DEF Spec, GoodArchivesArrive
=============================================================================
