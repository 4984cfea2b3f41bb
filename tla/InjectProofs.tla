--------------------------- MODULE InjectProofs ---------------------------
(***************************************************************************)
(* What is proved of whole operations and of whole runs, for every image,  *)
(* target and number of runs.                                              *)
(*                                                                         *)
(* First of the writer, where Ext4WriterProofs follows single steps: what  *)
(* an operation has made of the image it began with, so that a clean one   *)
(* stays clean, and what interruptions lose.                               *)
(*                                                                         *)
(* Then of Inject: it uses the writer as the writer asks to be used, so    *)
(* that what holds of the writer holds under Inject; a dry run writes      *)
(* nothing; it implements the store; what it reports is so, and what it    *)
(* refuses it has reason to.                                               *)
(***************************************************************************)
EXTENDS Inject, Ext4WriterProofs, NatFacts, FiniteSetTheorems, FunctionTheorems,
        SequenceTheorems

-----------------------------------------------------------------------------
(* What an operation has changed since it began.                           *)

\* From the allocation of the inode to the end.
Holding == {"balloc", "desc", "body", "inode", "dirent", "parent"}
MakesDir == op.kind = "mkdir"

\* The inode taken, and the block.
InodeTaken(old, new) ==
    \E i \in InodeIdx \ old.ibm[loc.g] :
        /\ loc.ino = InoNum(loc.g, i) /\ loc.ino >= FirstIno
        /\ new.ibm = [old.ibm EXCEPT ![loc.g] = old.ibm[loc.g] \cup {i}]
BlockTaken(old, new) ==
    \E i \in BlockIdx \ old.bbm[loc.g] :
        /\ loc.blk = BlkNum(loc.g, i)
        /\ new.bbm = [old.bbm EXCEPT ![loc.g] = old.bbm[loc.g] \cup {i}]

\* The descriptor of the group, less the inode and so many blocks.
Counted(old, d, blocks) ==
    LET was == old.gd[loc.g] IN
    /\ d.freeI = was.freeI - 1 /\ d.freeB = was.freeB - blocks
    /\ d.dirs = was.dirs + (IF MakesDir THEN 1 ELSE 0)
    /\ d.unused = 0 /\ ~d.iUninit /\ ~d.bUninit
DescOnDisk(old, new) ==
    /\ Counted(old, new.gd[loc.g], 1)
    /\ \A g \in Group \ {loc.g} : new.gd[g] = old.gd[g]

\* addDirent found room for the name in the directory, and no other of it.
RoomFor(ents) ==
    /\ op.in.raw.size <= BlockSize
    /\ Len(ents) > 0
    /\ Last(ents).rec - UsedLen(Last(ents)) >= DirentLen(NameLen[op.name])
    /\ \A i \in DOMAIN ents : ~Named(ents[i], op.name)
RecordAdded(old, new, ftype) ==
    LET b == op.in.raw.blk IN
    /\ \A c \in BlockNums \ {loc.blk, b} : new.blk[c] = old.blk[c]
    /\ new.blk[b].ents = WithDirent(old.blk[b].ents, loc.ino, op.name, ftype)
    /\ RoomFor(old.blk[b].ents)

\* The handle was read from a path of the image the operation began with.
BegunHolds ==
    /\ pc \in Making \cup Overwriting =>
          /\ op.in = ReadInode(hist.before, op.in.num)
          /\ op.in.num \in Reachable(hist.before) \cap InUse(hist.before)
    /\ image.csum = hist.before.csum
CallsHold ==
    /\ hist.calls <= MaxCalls
    /\ pc \in Making \cup Overwriting => hist.calls > 0

\* How far it has got, write by write.
BitmapsHold ==
    /\ pc \in {"ialloc"} \cup Holding => HasRoom(hist.before.gd[loc.g])
    /\ pc \in Holding => InodeTaken(hist.before, image)
    /\ pc = "balloc" => image.bbm = hist.before.bbm
    /\ pc \in Holding \ {"balloc"} => BlockTaken(hist.before, image)
    /\ pc = "oinode" => image.ibm = hist.before.ibm /\ image.bbm = hist.before.bbm
CountsHold ==
    /\ pc = "ialloc" => loc.d = hist.before.gd[loc.g]
    /\ pc = "balloc" => Counted(hist.before, loc.d, 0)
    /\ pc = "desc" => Counted(hist.before, loc.d, 1)
    /\ pc \in {"balloc", "desc", "oinode"} => image.gd = hist.before.gd
    /\ pc \in {"body", "inode", "dirent", "parent"} => DescOnDisk(hist.before, image)
NodesHold ==
    /\ pc \in {"balloc", "desc", "body", "inode", "oinode"} => image.itab = hist.before.itab
    /\ pc \in {"dirent", "parent"} =>
          /\ NodeAt(hist.before, loc.ino).kind = "free"
          /\ \A n \in InodeNums \ {loc.ino} : NodeAt(image, n) = NodeAt(hist.before, n)
ContentsHold ==
    /\ pc \in {"balloc", "desc", "body"} => image.blk = hist.before.blk
    /\ pc \in {"inode", "dirent"} =>
          \A c \in BlockNums \ {loc.blk} : image.blk[c] = hist.before.blk[c]
    /\ pc = "oinode" =>
          \A c \in BlockNums \ {op.in.raw.blk} : image.blk[c] = hist.before.blk[c]
    /\ pc = "parent" => RecordAdded(hist.before, image, "dir")

Progress ==
    BegunHolds /\ CallsHold /\ BitmapsHold /\ CountsHold /\ NodesHold /\ ContentsHold

PInv == GInv /\ SInv /\ Progress

\* Nothing is in progress at first.
LEMMA InitPInv == Init => PInv
<1> SUFFICES ASSUME Init PROVE PInv
  OBVIOUS
<1>1. pc = "closed" /\ hist.before = image /\ hist.calls = 0
  BY DEF Init
<1>2. 0 <= MaxCalls
  BY ImagesAssumption
<1>3. Progress
  BY <1>1, <1>2 DEF Progress, BegunHolds, CallsHold, BitmapsHold, CountsHold, NodesHold,
                    ContentsHold, Making, Overwriting, Holding
<1> QED BY <1>3, InitGInv, InitSInv DEF PInv

\* What no operation in progress says when there is none.
LEMMA RestProgress ==
    ASSUME BeforeHolds', pc' \in {"closed", "idle"}, hist'.calls = hist.calls, CallsHold
    PROVE  Progress'
<1>1. image'.csum = hist'.before.csum
  BY DEF BeforeHolds
<1> QED BY <1>1 DEF Progress, BegunHolds, CallsHold, BitmapsHold, CountsHold, NodesHold,
                    ContentsHold, Making, Overwriting, Holding

\* The types of what an operation in progress uses.
LEMMA ProgressTypes ==
    ASSUME PInv
    PROVE  /\ TypeOK /\ IInv /\ BeforeHolds /\ image \in Image /\ hist.before \in Image
           /\ hist \in Histories /\ hist.calls \in Nat
           /\ loc \in Locals /\ loc.g \in Group /\ loc.d \in GroupDesc
           /\ op \in Operations /\ op.in \in Handle /\ op.in.num \in InodeNums
           /\ op.in.raw \in Inode /\ op.name \in Names
  BY DEF PInv, GInv, IInv, TypeOK, Histories, Locals, Operations, Handle

\* An end of the session calls nothing.
LEMMA CloseCalls ==
    ASSUME hist \in Histories, NEW status, NEW kills, NEW strands,
           CloseWith(status, kills, strands)
    PROVE  pc' = "closed" /\ hist'.calls = hist.calls
<1> DEFINE k == hist.kills + kills
           s == hist.strands + strands
           u == hist.unsynced \/ Unflushed(image, sb)
<1>1. hist' = [hist EXCEPT !.kills = k, !.strands = s, !.unsynced = u, !.before = image]
  BY DEF CloseWith
<1> HIDE DEF k, s, u
<1>2. hist'.calls = hist.calls
  BY <1>1 DEF Histories
<1> QED BY <1>2 DEF CloseWith

\* A step that ends the session keeps what holds of progress.
LEMMA CloseProgress ==
    ASSUME PInv, BeforeHolds', NEW status, NEW kills, NEW strands,
           CloseWith(status, kills, strands)
    PROVE  Progress'
<1>1. hist \in Histories
  BY ProgressTypes
<1>2. pc' = "closed" /\ hist'.calls = hist.calls
  BY <1>1, CloseCalls
<1> QED BY <1>2, RestProgress DEF PInv, Progress

\* So does one that returns.
LEMMA ReturnProgress ==
    ASSUME PInv, BeforeHolds', NEW in, Return(in) PROVE Progress'
<1>1. hist \in Histories
  BY ProgressTypes
<1>2. pc' = "idle" /\ hist'.calls = hist.calls
  BY <1>1 DEF Return, Histories
<1> QED BY <1>2, RestProgress DEF PInv, Progress

\* What a step inside an operation need not look at.
LEMMA InsideProgress ==
    ASSUME PInv, pc \in Making \cup Overwriting, op' = op, hist' = hist,
           image'.csum = image.csum
    PROVE  BegunHolds' /\ CallsHold'
  BY DEF PInv, Progress, BegunHolds, CallsHold

\* lookup found nothing in the way.
LEMMA LookupNameProgress == ASSUME PInv, BeforeHolds', LookupName PROVE Progress'
<1>1. CASE pc' = "pick" /\ UNCHANGED <<image, sb, op, loc, ret, hist>>
  <2>1. BegunHolds' /\ CallsHold'
    BY <1>1, InsideProgress DEF LookupName, Making
  <2> QED BY <1>1, <2>1 DEF Progress, BitmapsHold, CountsHold, NodesHold, ContentsHold, Holding
<1>2. CASE Refuse("refused") \/ Refuse("exists")
  BY <1>2, CloseProgress DEF Refuse
<1> QED BY <1>1, <1>2 DEF LookupName

\* pickGroup reads the descriptor of a group that has room.
LEMMA PickGroupProgress == ASSUME PInv, BeforeHolds', PickGroup PROVE Progress'
<1>1. CASE Refuse("refused")
  BY <1>1, CloseProgress DEF Refuse
<1>2. CASE ~Refuse("refused")
  <2>1. PICK g \in Roomy :
            /\ loc' = [loc EXCEPT !.g = g, !.d = image.gd[g]]
            /\ pc' = "ialloc" /\ UNCHANGED <<image, sb, op, ret, hist>>
    BY <1>2 DEF PickGroup
  <2>2. pc = "pick" /\ g \in Group /\ HasRoom(image.gd[g])
    BY DEF PickGroup, Roomy
  <2>3. loc'.g = g /\ loc'.d = image.gd[g]
    BY <2>1, ProgressTypes DEF Locals
  <2>4. image = hist.before
    BY <2>2, ProgressTypes DEF BeforeHolds
  <2>5. BegunHolds' /\ CallsHold'
    BY <2>1, <2>2, InsideProgress DEF Making
  <2>6. HasRoom(hist'.before.gd[loc'.g]) /\ loc'.d = hist'.before.gd[loc'.g]
    BY <2>1, <2>2, <2>3, <2>4
  <2>7. BitmapsHold'
    BY <2>1, <2>6 DEF BitmapsHold, Holding
  <2>8. CountsHold'
    BY <2>1, <2>6 DEF CountsHold
  <2> QED BY <2>1, <2>5, <2>7, <2>8 DEF Progress, NodesHold, ContentsHold
<1> QED BY <1>1, <1>2

\* The counters a descriptor of a group with room can spare.
LEMMA SpareCounters ==
    ASSUME GroupsFit, PInv, pc \in {"ialloc", "balloc"}
    PROVE  /\ image.gd = hist.before.gd
           /\ LET d == image.gd[loc.g] IN
              /\ d \in GroupDesc
              /\ d.freeI \in Nat /\ d.freeB \in Nat
              /\ Minus1(d.freeI) = d.freeI - 1 /\ Minus1(d.freeB) = d.freeB - 1
              /\ ~d.iUninit /\ ~d.bUninit
<1> DEFINE d == image.gd[loc.g]
<1>1. image \in Image /\ loc.g \in Group /\ BeforeHolds
  BY ProgressTypes
<1>2. image.gd = hist.before.gd
  BY <1>1 DEF PInv, Progress, CountsHold, BeforeHolds
<1>3. HasRoom(d)
  BY <1>2 DEF PInv, Progress, BitmapsHold, Holding
<1>4. d.freeI <= InodesPerGroup /\ d.freeB <= BlocksPerGroup
  BY <1>1 DEF PInv, GInv, GroupsBounded, GroupBounded
<1>5. d \in GroupDesc
  BY <1>1 DEF Image
<1>6. d.freeI \in Nat /\ d.freeB \in Nat
  BY <1>5 DEF GroupDesc
<1>7. d.freeI # 0 /\ d.freeB # 0 /\ ~d.iUninit /\ ~d.bUninit
  BY <1>3 DEF HasRoom
<1> HIDE DEF d
<1>8. d.freeI <= CounterMod /\ d.freeB <= CounterMod
  BY <1>4, <1>6, GeometryAssumption DEF GroupsFit
<1>9. Minus1(d.freeI) = d.freeI - 1 /\ Minus1(d.freeB) = d.freeB - 1
  BY <1>6, <1>7, <1>8, Minus1Is
<1> QED BY <1>2, <1>5, <1>6, <1>7, <1>9 DEF d

\* allocInode takes an inode that was free.
LEMMA AllocInodeProgress == ASSUME GroupsFit, PInv, BeforeHolds', AllocInode PROVE Progress'
<1>1. CASE Refuse("refused")
  BY <1>1, CloseProgress DEF Refuse
<1>2. CASE ~Refuse("refused")
  <2>1. PICK i \in FreeInodeBits(loc.g) :
            /\ image' = [image EXCEPT !.ibm[loc.g] = image.ibm[loc.g] \cup {i}]
            /\ loc' = [loc EXCEPT
                   !.ino = InoReturned(loc.g, i),
                   !.d = DescAfterInode(image, @, image.ibm[loc.g] \cup {i}, op.kind = "mkdir")]
            /\ pc' = "balloc" /\ UNCHANGED <<op, ret, hist>>
    BY <1>2 DEF AllocInode
  <2> DEFINE d == DescAfterInode(image, loc.d, image.ibm[loc.g] \cup {i}, op.kind = "mkdir")
  <2>2. /\ pc = "ialloc" /\ i \in InodeIdx \ image.ibm[loc.g] /\ InoNum(loc.g, i) >= FirstIno
        /\ image \in Image /\ loc.g \in Group /\ loc.d \in GroupDesc /\ loc \in Locals
        /\ image = hist.before
    BY ProgressTypes DEF AllocInode, FreeInodeBits, BeforeHolds
  <2>3. loc.d = image.gd[loc.g]
    BY <2>2 DEF PInv, Progress, CountsHold
  <2>4. /\ d.freeI = Minus1(loc.d.freeI) /\ d.freeB = loc.d.freeB
        /\ d.dirs = IF op.kind = "mkdir" THEN loc.d.dirs + 1 ELSE loc.d.dirs
        /\ d.unused = 0 /\ ~d.iUninit /\ d.bUninit = loc.d.bUninit
    BY <2>2 DEF DescAfterInode, GroupDesc
  <2> HIDE DEF d
  <2>5. loc'.g = loc.g /\ loc'.d = d /\ loc'.ino = InoNum(loc.g, i)
    BY <2>1, <2>2 DEF Locals, d, InoReturned
  <2>6. /\ image'.ibm = [image.ibm EXCEPT ![loc.g] = image.ibm[loc.g] \cup {i}]
        /\ image'.bbm = image.bbm /\ image'.gd = image.gd /\ image'.itab = image.itab
        /\ image'.blk = image.blk /\ image'.csum = image.csum
    BY <2>1, <2>2 DEF Image
  <2>7. BegunHolds' /\ CallsHold'
    BY <2>1, <2>2, <2>6, InsideProgress DEF Making
  <2>8. HasRoom(image.gd[loc.g])
    BY <2>2 DEF PInv, Progress, BitmapsHold, Holding
  <2>9. BitmapsHold'
    <3>1. InodeTaken(hist.before, image)'
      BY <2>1, <2>2, <2>5, <2>6 DEF InodeTaken
    <3> QED BY <2>1, <2>2, <2>5, <2>6, <2>8, <3>1 DEF BitmapsHold, Holding
  <2>10. /\ Minus1(loc.d.freeI) = loc.d.freeI - 1 /\ ~loc.d.bUninit
         /\ loc.d.freeB \in Nat /\ loc.d.dirs \in Nat
    BY <2>2, <2>3, SpareCounters DEF GroupDesc
  <2>11. Counted(hist.before, loc.d, 0)'
    <3>1. d.freeB = loc.d.freeB - 0
      BY <2>4, <2>10
    <3>2. d.dirs = loc.d.dirs + (IF op.kind = "mkdir" THEN 1 ELSE 0)
      BY <2>4, <2>10
    <3> QED BY <2>1, <2>2, <2>3, <2>4, <2>5, <2>10, <3>1, <3>2 DEF Counted, MakesDir
  <2>12. CountsHold'
    BY <2>1, <2>2, <2>6, <2>11 DEF CountsHold
  <2>13. NodesHold' /\ ContentsHold'
    BY <2>1, <2>2, <2>6 DEF NodesHold, ContentsHold
  <2> QED BY <2>7, <2>9, <2>12, <2>13 DEF Progress
<1> QED BY <1>1, <1>2

\* allocBlock takes a block that was free.
LEMMA AllocBlockProgress == ASSUME GroupsFit, PInv, BeforeHolds', AllocBlock PROVE Progress'
<1>1. CASE Refuse("refused")
  BY <1>1, CloseProgress DEF Refuse
<1>2. CASE ~Refuse("refused")
  <2>1. PICK i \in FreeBlockBits(loc.g) :
            /\ image' = [image EXCEPT !.bbm[loc.g] = image.bbm[loc.g] \cup {i}]
            /\ loc' = [loc EXCEPT !.blk = BlkReturned(loc.g, i),
                                  !.d = DescAfterBlock(image, @, image.bbm[loc.g] \cup {i})]
            /\ pc' = "desc" /\ UNCHANGED <<op, ret, hist>>
    BY <1>2 DEF AllocBlock
  <2> DEFINE d == DescAfterBlock(image, loc.d, image.bbm[loc.g] \cup {i})
             was == hist.before.gd[loc.g]
  <2>2. /\ pc = "balloc" /\ i \in BlockIdx \ image.bbm[loc.g]
        /\ image \in Image /\ loc.g \in Group /\ loc.d \in GroupDesc /\ loc \in Locals
    BY ProgressTypes DEF AllocBlock, FreeBlockBits
  <2>3. /\ image.bbm = hist.before.bbm /\ image.gd = hist.before.gd
        /\ image.itab = hist.before.itab /\ image.blk = hist.before.blk
        /\ HasRoom(was) /\ InodeTaken(hist.before, image)
        /\ Counted(hist.before, loc.d, 0)
    BY <2>2 DEF PInv, Progress, BitmapsHold, CountsHold, NodesHold, ContentsHold, Holding
  <2>4. /\ d.freeB = Minus1(loc.d.freeB) /\ d.freeI = loc.d.freeI
        /\ d.dirs = loc.d.dirs /\ d.unused = loc.d.unused
        /\ d.iUninit = loc.d.iUninit /\ ~d.bUninit
    BY <2>2 DEF DescAfterBlock, GroupDesc
  <2> HIDE DEF d
  <2>5. loc'.g = loc.g /\ loc'.d = d /\ loc'.blk = BlkNum(loc.g, i) /\ loc'.ino = loc.ino
    BY <2>1, <2>2 DEF Locals, d, BlkReturned
  <2>6. /\ image'.bbm = [image.bbm EXCEPT ![loc.g] = image.bbm[loc.g] \cup {i}]
        /\ image'.ibm = image.ibm /\ image'.gd = image.gd /\ image'.itab = image.itab
        /\ image'.blk = image.blk /\ image'.csum = image.csum
    BY <2>1, <2>2 DEF Image
  <2>7. BegunHolds' /\ CallsHold'
    BY <2>1, <2>2, <2>6, InsideProgress DEF Making
  <2>8. BitmapsHold'
    <3>1. InodeTaken(hist.before, image)'
      BY <2>1, <2>3, <2>5, <2>6 DEF InodeTaken
    <3>2. BlockTaken(hist.before, image)'
      BY <2>1, <2>2, <2>3, <2>5, <2>6 DEF BlockTaken
    <3> QED BY <2>1, <2>3, <2>5, <3>1, <3>2 DEF BitmapsHold, Holding
  <2>9. Counted(hist.before, loc.d, 1)'
    <3>1. was.freeB \in Nat /\ Minus1(was.freeB) = was.freeB - 1
      BY <2>2, <2>3, SpareCounters
    <3>2. loc.d.freeB = was.freeB - 0
      BY <2>3 DEF Counted
    <3>3. d.freeB = was.freeB - 1
      <4> HIDE DEF was
      <4> QED BY <2>4, <3>1, <3>2
    <3> QED BY <2>1, <2>3, <2>4, <2>5, <3>3 DEF Counted, MakesDir
  <2>10. CountsHold'
    BY <2>1, <2>3, <2>6, <2>9 DEF CountsHold
  <2>11. NodesHold' /\ ContentsHold'
    BY <2>1, <2>3, <2>6 DEF NodesHold, ContentsHold
  <2> QED BY <2>7, <2>8, <2>10, <2>11 DEF Progress
<1> QED BY <1>1, <1>2

\* The descriptor gets to the disk.
LEMMA WriteDescProgress == ASSUME PInv, WriteDesc PROVE Progress'
<1> DEFINE s == DescSeal(image, loc.d.seal)
           d == [loc.d EXCEPT !.seal = s]
<1>1. /\ pc = "desc" /\ pc' = "body" /\ UNCHANGED <<sb, op, loc, ret, hist>>
      /\ image' = [image EXCEPT !.gd[loc.g] = d]
  BY DEF WriteDesc
<1>2. image \in Image /\ loc.g \in Group /\ loc.d \in GroupDesc
  BY ProgressTypes
<1> HIDE DEF s
<1>3. /\ d.freeI = loc.d.freeI /\ d.freeB = loc.d.freeB /\ d.dirs = loc.d.dirs
      /\ d.unused = loc.d.unused /\ d.iUninit = loc.d.iUninit /\ d.bUninit = loc.d.bUninit
  BY <1>2 DEF GroupDesc
<1>4. /\ HasRoom(hist.before.gd[loc.g])
      /\ InodeTaken(hist.before, image) /\ BlockTaken(hist.before, image)
      /\ image.gd = hist.before.gd /\ Counted(hist.before, loc.d, 1)
      /\ image.itab = hist.before.itab /\ image.blk = hist.before.blk
  BY <1>1 DEF PInv, Progress, BitmapsHold, CountsHold, NodesHold, ContentsHold, Holding
<1> HIDE DEF d
<1>5. /\ image'.gd[loc.g] = d /\ \A g \in Group \ {loc.g} : image'.gd[g] = image.gd[g]
      /\ image'.ibm = image.ibm /\ image'.bbm = image.bbm /\ image'.itab = image.itab
      /\ image'.blk = image.blk /\ image'.csum = image.csum
  BY <1>1, <1>2 DEF Image
<1>6. BegunHolds' /\ CallsHold'
  BY <1>1, <1>5, InsideProgress DEF Making
<1>7. InodeTaken(hist.before, image)' /\ BlockTaken(hist.before, image)'
  BY <1>1, <1>4, <1>5 DEF InodeTaken, BlockTaken
<1>8. BitmapsHold'
  BY <1>1, <1>4, <1>7 DEF BitmapsHold, Holding
<1>9. DescOnDisk(hist.before, image)'
  BY <1>1, <1>3, <1>4, <1>5 DEF DescOnDisk, Counted, MakesDir
<1>10. CountsHold'
  BY <1>1, <1>9 DEF CountsHold
<1>11. NodesHold' /\ ContentsHold'
  BY <1>1, <1>4, <1>5 DEF NodesHold, ContentsHold
<1> QED BY <1>6, <1>8, <1>10, <1>11 DEF Progress
\* What the parts of an operation say of inodes and blocks before the contents
\* are written.
LEMMA BodyProgress ==
    ASSUME PInv, pc \in {"body", "inode", "dirent", "parent"}
    PROVE  /\ HasRoom(hist.before.gd[loc.g])
           /\ InodeTaken(hist.before, image) /\ BlockTaken(hist.before, image)
           /\ DescOnDisk(hist.before, image)
  BY DEF PInv, Progress, BitmapsHold, CountsHold, Holding

\* A step that writes contents leaves what the group keeps.
LEMMA ContentsProgress ==
    ASSUME PInv, pc \in {"body", "inode", "dirent", "parent"},
           pc' \in {"body", "inode", "dirent", "parent"}, UNCHANGED <<op, loc, hist>>,
           image'.csum = image.csum, image'.ibm = image.ibm, image'.bbm = image.bbm,
           image'.gd = image.gd
    PROVE  BegunHolds' /\ CallsHold' /\ BitmapsHold' /\ CountsHold'
<1>1. BegunHolds' /\ CallsHold'
  BY InsideProgress DEF Making
<1>2. /\ HasRoom(hist.before.gd[loc.g])'
      /\ InodeTaken(hist.before, image)' /\ BlockTaken(hist.before, image)'
      /\ DescOnDisk(hist.before, image)'
  BY BodyProgress DEF InodeTaken, BlockTaken, DescOnDisk, Counted, MakesDir
<1> QED BY <1>1, <1>2 DEF BitmapsHold, CountsHold, Holding

\* The new block.
LEMMA WriteBodyProgress == ASSUME PInv, WriteBody PROVE Progress'
<1> DEFINE x == IF op.kind = "mkdir" THEN NewDirBlock(image, loc.ino, op.in.num)
                ELSE NewFileBlock(op.data)
<1>1. /\ pc = "body" /\ pc' = "inode" /\ UNCHANGED <<sb, op, loc, ret, hist>>
      /\ image' = [image EXCEPT !.blk[loc.blk] = x]
  BY DEF WriteBody
<1>2. image \in Image /\ loc.blk \in BlockNums
  BY <1>1, ProgressTypes, MakingHolds
<1> HIDE DEF x
<1>3. /\ \A c \in BlockNums \ {loc.blk} : image'.blk[c] = image.blk[c]
      /\ image'.ibm = image.ibm /\ image'.bbm = image.bbm /\ image'.itab = image.itab
      /\ image'.gd = image.gd /\ image'.csum = image.csum
  BY <1>1, <1>2 DEF Image
<1>4. image.itab = hist.before.itab /\ image.blk = hist.before.blk
  BY <1>1 DEF PInv, Progress, NodesHold, ContentsHold
<1>5. BegunHolds' /\ CallsHold' /\ BitmapsHold' /\ CountsHold'
  BY <1>1, <1>3, ContentsProgress
<1>6. NodesHold' /\ ContentsHold'
  BY <1>1, <1>3, <1>4 DEF NodesHold, ContentsHold
<1> QED BY <1>5, <1>6 DEF Progress

\* The new inode, where none was.
LEMMA WriteInodeProgress == ASSUME PInv, WriteInode PROVE Progress'
<1> DEFINE x == Sealed(image, NewInode).raw
<1>1. /\ pc = "inode" /\ pc' = "dirent" /\ UNCHANGED <<sb, op, loc, ret, hist>>
      /\ image' = WriteInodeTo(image, NewInode)
  BY DEF WriteInode
<1>2. image \in Image /\ loc.ino \in InodeNums /\ IInv
  BY <1>1, ProgressTypes, MakingHolds
<1>3. image' = [image EXCEPT !.itab[InodeSlot(loc.ino)] = x]
  BY <1>1 DEF WriteInodeTo, NewInode
<1> HIDE DEF x
<1>4. /\ \A n \in InodeNums \ {loc.ino} : NodeAt(image', n) = NodeAt(image, n)
      /\ image'.ibm = image.ibm /\ image'.bbm = image.bbm /\ image'.blk = image.blk
      /\ image'.gd = image.gd /\ image'.csum = image.csum
  <2>1. \A s \in Slots : s # InodeSlot(loc.ino) => image'.itab[s] = image.itab[s]
    BY <1>2, <1>3 DEF Image
  <2>2. ASSUME NEW n \in InodeNums \ {loc.ino} PROVE NodeAt(image', n) = NodeAt(image, n)
    BY <1>2, <2>1, SlotInTables, SlotInjective DEF NodeAt
  <2> QED BY <1>2, <1>3, <2>2 DEF Image
<1>5. /\ image.itab = hist.before.itab
      /\ \A c \in BlockNums \ {loc.blk} : image.blk[c] = hist.before.blk[c]
  BY <1>1 DEF PInv, Progress, NodesHold, ContentsHold
<1>6. NodeAt(hist.before, loc.ino).kind = "free"
  BY <1>1, <1>2, <1>5 DEF IInv, InodeHolds, NodeAt
<1>7. BegunHolds' /\ CallsHold' /\ BitmapsHold' /\ CountsHold'
  BY <1>1, <1>4, ContentsProgress
<1>8. \A n \in InodeNums \ {loc.ino} : NodeAt(image', n) = NodeAt(hist.before, n)
  BY <1>4, <1>5 DEF NodeAt
<1>9. NodesHold' /\ ContentsHold'
  BY <1>1, <1>4, <1>5, <1>6, <1>8 DEF NodesHold, ContentsHold
<1> QED BY <1>7, <1>9 DEF Progress

\* What addDirent leaves of the image the operation began with.
LEMMA AddDirentAdds ==
    ASSUME PInv, AddDirent, ~DirentRefused(op.in, op.name)
    PROVE  /\ pc = "dirent" /\ RecordAdded(hist.before, image', NewInode.raw.kind)
           /\ image'.blk[loc.blk] = image.blk[loc.blk]
           /\ image'.itab = image.itab /\ image'.gd = image.gd /\ image'.csum = image.csum
           /\ image'.ibm = image.ibm /\ image'.bbm = image.bbm
<1> DEFINE b == op.in.raw.blk
           ents == image.blk[b].ents
           last == Last(ents)
<1>1. /\ pc = "dirent" /\ IInv /\ SInv /\ image \in Image
      /\ op.name \in Names /\ op.in.raw \in Inode
  BY ProgressTypes DEF PInv, AddDirent
<1>2. /\ b \in BlockNums /\ image'.itab = image.itab /\ image'.csum = image.csum
      /\ ents \in Seq(Dirent) /\ Len(ents) > 0
      /\ image'.blk[b].ents = WithDirent(ents, loc.ino, op.name, NewInode.raw.kind)
      /\ \A c \in BlockNums : c # b => image'.blk[c] = image.blk[c]
  BY <1>1, DirentAdded
<1>3. image'.gd = image.gd /\ image'.ibm = image.ibm /\ image'.bbm = image.bbm
  <2>1. \E x : image' = [image EXCEPT !.blk[op.in.raw.blk] = x]
    BY DEF AddDirent, Refuse
  <2> QED BY <1>1, <2>1, BlockWriteCounts DEF SameCounts
<1>4. b # loc.blk /\ loc.blk \in BlockNums
  BY <1>1, BlocksApart
<1>5. \A c \in BlockNums \ {loc.blk} : image.blk[c] = hist.before.blk[c]
  BY <1>1 DEF PInv, Progress, ContentsHold
<1>6. hist.before.blk[b].ents = ents
  BY <1>2, <1>4, <1>5
<1>7. /\ ~(op.in.raw.size > BlockSize)
      /\ ~(last.rec - UsedLen(last) < DirentLen(NameLen[op.name]))
      /\ \A i \in DOMAIN ents : ~Named(ents[i], op.name)
  BY DEF DirentRefused
<1>8. RoomFor(ents)
  <2>1. last \in Dirent
    <3> HIDE DEF ents
    <3>1. Len(ents) \in Nat
      BY <1>2, LenProperties
    <3> QED BY <1>2, <3>1, ElementOfSeq DEF Last
  <2>2. UsedLen(last) \in Nat /\ last.rec \in Nat
    BY <2>1, UsedLenNat, DirentFields
  <2>3. DirentLen(NameLen[op.name]) \in Nat
    <3>1. NameLen[op.name] \in Nat
      BY <1>1, NamesAssumption
    <3> QED BY <3>1, DirentLenNat
  <2>4. op.in.raw.size \in Nat /\ BlockSize \in Nat
    BY <1>1, GeometryAssumption DEF Inode
  <2> DEFINE need == DirentLen(NameLen[op.name])
             used == UsedLen(last)
  <2>5. last.rec - used >= need
    <3>1. need \in Nat /\ used \in Nat /\ last.rec \in Nat /\ ~(last.rec - used < need)
      BY <1>7, <2>2, <2>3
    <3> HIDE DEF last, need, used
    <3> QED BY <3>1
  <2>6. op.in.raw.size <= BlockSize
    BY <1>7, <2>4
  <2> QED BY <1>2, <1>7, <2>5, <2>6 DEF RoomFor
<1> HIDE DEF ents
<1>9. \A c \in BlockNums \ {loc.blk, b} : image'.blk[c] = hist.before.blk[c]
  BY <1>2, <1>5
<1>10. RecordAdded(hist.before, image', NewInode.raw.kind)
  BY <1>2, <1>6, <1>8, <1>9 DEF RecordAdded
<1> QED BY <1>1, <1>2, <1>3, <1>4, <1>10

\* The record of a new directory.
LEMMA AddDirentProgress == ASSUME PInv, BeforeHolds', AddDirent PROVE Progress'
<1>1. CASE DirentRefused(op.in, op.name)
  BY <1>1, CloseProgress DEF AddDirent, Refuse
<1>2. CASE ~DirentRefused(op.in, op.name) /\ op.kind # "mkdir"
  BY <1>2, ReturnProgress DEF AddDirent
<1>3. CASE ~DirentRefused(op.in, op.name) /\ op.kind = "mkdir"
  <2>1. pc' = "parent" /\ UNCHANGED <<op, loc, ret, hist>>
    BY <1>3 DEF AddDirent
  <2>2. /\ pc = "dirent" /\ RecordAdded(hist.before, image', NewInode.raw.kind)
        /\ image'.itab = image.itab /\ image'.gd = image.gd /\ image'.csum = image.csum
        /\ image'.ibm = image.ibm /\ image'.bbm = image.bbm
    BY <1>3, AddDirentAdds
  <2>3. NewInode.raw.kind = "dir"
    BY <1>3 DEF NewInode, InitInode
  <2>4. BegunHolds' /\ CallsHold' /\ BitmapsHold' /\ CountsHold'
    BY <2>1, <2>2, ContentsProgress
  <2>5. NodesHold'
    BY <2>1, <2>2 DEF PInv, Progress, NodesHold, NodeAt
  <2>6. RecordAdded(hist.before, image, "dir")'
    BY <2>1, <2>2, <2>3 DEF RecordAdded, RoomFor
  <2>7. ContentsHold'
    BY <2>1, <2>6 DEF ContentsHold
  <2> QED BY <2>4, <2>5, <2>7 DEF Progress
<1> QED BY <1>1, <1>2, <1>3

\* The data of a file overwritten.
LEMMA OverwriteDataProgress == ASSUME PInv, BeforeHolds', OverwriteData PROVE Progress'
<1>1. CASE Refuse("refused")
  BY <1>1, CloseProgress DEF Refuse
<1>2. CASE ~Refuse("refused")
  <2> DEFINE x == NewFileBlock(op.data)
  <2>1. /\ pc = "odata" /\ pc' = "oinode" /\ UNCHANGED <<sb, op, loc, ret, hist>>
        /\ image' = [image EXCEPT !.blk[op.in.raw.blk] = x]
    BY <1>2 DEF OverwriteData
  <2>2. image \in Image /\ image = hist.before
    BY <2>1, ProgressTypes DEF BeforeHolds
  <2> HIDE DEF x
  <2>3. /\ \A c \in BlockNums \ {op.in.raw.blk} : image'.blk[c] = image.blk[c]
        /\ image'.ibm = image.ibm /\ image'.bbm = image.bbm /\ image'.itab = image.itab
        /\ image'.gd = image.gd /\ image'.csum = image.csum
    BY <2>1, <2>2 DEF Image
  <2>4. BegunHolds' /\ CallsHold'
    BY <2>1, <2>3, InsideProgress DEF Overwriting
  <2>5. BitmapsHold' /\ CountsHold' /\ NodesHold' /\ ContentsHold'
    BY <2>1, <2>2, <2>3 DEF BitmapsHold, CountsHold, NodesHold, ContentsHold, Holding
  <2> QED BY <2>4, <2>5 DEF Progress
<1> QED BY <1>1, <1>2

\* A call starts from the image as it is.
LEMMA CallProgress ==
    ASSUME PInv, NEW in \in Handles, NEW kind, NEW name, NEW data,
           NEW first \in {"lookup", "odata"}, Call(kind, in, name, data, first)
    PROVE  Progress'
<1>1. /\ pc = "idle" /\ hist.calls < MaxCalls /\ pc' = first /\ image' = image
      /\ op' = [kind |-> kind, in |-> in, name |-> name, data |-> data]
      /\ hist' = [hist EXCEPT !.calls = @ + 1]
  BY DEF Call
<1>2. /\ hist \in Histories /\ hist.calls \in Nat /\ image = hist.before /\ MaxCalls \in Nat
  BY <1>1, ProgressTypes, ImagesAssumption DEF BeforeHolds
<1>3. hist'.calls = hist.calls + 1 /\ hist'.before = hist.before
  BY <1>1, <1>2 DEF Histories
<1>4. hist'.calls <= MaxCalls /\ hist'.calls > 0
  BY <1>1, <1>2, <1>3
<1>5. op'.in = in
  BY <1>1
<1>6. PICK n \in Reachable(image) \cap InUse(image) : in = ReadInode(image, n)
  BY DEF Handles
<1>7. in.num = n
  BY <1>6 DEF ReadInode
<1>8. BegunHolds'
  BY <1>1, <1>2, <1>3, <1>5, <1>6, <1>7 DEF BegunHolds
<1>9. CallsHold'
  BY <1>4 DEF CallsHold
<1> QED BY <1>1, <1>8, <1>9 DEF Progress, BitmapsHold, CountsHold, NodesHold, ContentsHold, Holding

\* What callers do.
LEMMA CallerProgress == ASSUME PInv, BeforeHolds', Caller PROVE Progress'
<1>1. hist \in Histories
  BY ProgressTypes
<1>2. CASE OpenFS \/ Sync
  <2>1. pc' = "idle" /\ hist'.calls = hist.calls
    BY <1>1, <1>2 DEF OpenFS, Sync, Histories
  <2> QED BY <2>1, RestProgress DEF PInv, Progress
<1>3. CASE Close
  BY <1>3, CloseProgress DEF Close
<1>4. DirHandles \subseteq Handles
  BY DEF DirHandles, Handles, DirsOf
<1>5. ASSUME NEW in \in Handles, NEW kind, NEW name, NEW data,
             NEW first \in {"lookup", "odata"}, Call(kind, in, name, data, first)
      PROVE  Progress'
  BY <1>5, CallProgress
<1> QED BY <1>2, <1>3, <1>4, <1>5 DEF Caller, CallMkdir, CallCreateFile, CallOverwrite

\* Every step.
LEMMA NextPInv == ASSUME GroupsFit, PInv, [Next]_vars PROVE PInv'
<1>1. GInv' /\ SInv'
  BY NextGInv, NextSInv DEF PInv
<1>2. BeforeHolds'
  BY <1>1 DEF GInv
<1>3. CASE Step
  <2>1. ASSUME WriteParent \/ OverwriteInode PROVE Progress'
    <3>1. \E in : Return(in)
      BY <2>1 DEF WriteParent, OverwriteInode
    <3> QED BY <1>2, <3>1, ReturnProgress
  <2>2. ASSUME LookupName \/ PickGroup \/ AllocInode \/ AllocBlock \/ WriteDesc PROVE Progress'
    BY <1>2, <2>2, LookupNameProgress, PickGroupProgress, AllocInodeProgress,
       AllocBlockProgress, WriteDescProgress
  <2>3. ASSUME WriteBody \/ WriteInode \/ AddDirent \/ OverwriteData PROVE Progress'
    BY <1>2, <2>3, WriteBodyProgress, WriteInodeProgress, AddDirentProgress,
       OverwriteDataProgress
  <2>4. Progress'
    BY <1>3, <2>1, <2>2, <2>3 DEF Step
  <2> QED BY <1>1, <2>4 DEF PInv
<1>4. CASE Caller
  BY <1>1, <1>2, <1>4, CallerProgress DEF PInv
<1>5. CASE Kill
  <2>1. Progress'
    BY <1>2, <1>5, CloseProgress DEF Kill
  <2> QED BY <1>1, <2>1 DEF PInv
<1>6. CASE UNCHANGED vars
  <2>1. UNCHANGED <<image, pc, op, loc, hist>>
    BY <1>6 DEF vars
  <2>2. Progress'
    BY <2>1 DEF PInv, Progress, BegunHolds, CallsHold, BitmapsHold, CountsHold, NodesHold,
                ContentsHold, InodeTaken, BlockTaken, DescOnDisk, Counted, MakesDir, RecordAdded,
                RoomFor
  <2> QED BY <1>1, <2>2 DEF PInv
<1> QED BY <1>3, <1>4, <1>5, <1>6 DEF Next
-----------------------------------------------------------------------------
(* What a call of Mkdir or CreateFile that succeeds has changed.           *)

\* Inodes alike in everything but links and checksum.
SameButLinks(x, y) ==
    /\ x.kind = y.kind /\ x.single = y.single /\ x.hole = y.hole
    /\ x.blk = y.blk /\ x.owns = y.owns /\ x.size = y.size

\* The kind of what is made, as its record gives it.
MadeKind == IF MakesDir THEN "dir" ELSE "file"

MadeNodes(old, new) ==
    /\ NodeAt(old, loc.ino).kind = "free"
    /\ LET x == NodeAt(new, loc.ino) IN
       /\ x.kind = MadeKind /\ x.owns = {loc.blk} /\ x.blk = loc.blk
       /\ x.links = (IF MakesDir THEN 2 ELSE 1)
       /\ MakesDir => x.size = BlockSize
    /\ \A m \in InodeNums \ {loc.ino} :
          /\ SameButLinks(NodeAt(new, m), NodeAt(old, m))
          /\ NodeAt(new, m).links = IF MakesDir /\ m = op.in.num
                                    THEN (NodeAt(old, m).links + 1) % 65536
                                    ELSE NodeAt(old, m).links
MadeBlocks(old, new) ==
    /\ RecordAdded(old, new, MadeKind)
    /\ MakesDir => new.blk[loc.blk].ents = NewDirBlock(new, loc.ino, op.in.num).ents
MadeCounts(old, new) ==
    /\ HasRoom(old.gd[loc.g])
    /\ InodeTaken(old, new) /\ BlockTaken(old, new) /\ DescOnDisk(old, new)
MadeIn(old) ==
    /\ op.in.num \in Reachable(old) \cap DirsOf(old)
    /\ op.in.raw = NodeAt(old, op.in.num) /\ op.in.raw.single
    /\ op.name \in PathNames
    /\ loc.ino \in InodeNums /\ loc.blk \in BlockNums /\ loc.g \in Group
    /\ loc.ino # op.in.num

WasMade(old, new) ==
    /\ old \in Image /\ new \in Image /\ new.csum = old.csum
    /\ MadeIn(old) /\ MadeNodes(old, new) /\ MadeBlocks(old, new) /\ MadeCounts(old, new)

\* What NewInode says.
LEMMA NewInodeSays ==
    /\ NewInode.raw.kind = MadeKind /\ NewInode.raw.owns = {loc.blk}
    /\ NewInode.raw.blk = loc.blk /\ NewInode.raw.links = (IF MakesDir THEN 2 ELSE 1)
    /\ MakesDir => NewInode.raw.size = BlockSize
  BY DEF NewInode, InitInode, MadeKind, MakesDir

\* A checksum set changes nothing else.
LEMMA SealedSame ==
    ASSUME NEW img, NEW in \in Handle
    PROVE  /\ SameButLinks(Sealed(img, in).raw, in.raw)
           /\ Sealed(img, in).raw.links = in.raw.links
           /\ Sealed(img, in).num = in.num
  BY DEF Sealed, Handle, Inode, SameButLinks

\* Where an operation is when its inode is written.
LEMMA MadeSoFar ==
    ASSUME PInv, pc \in {"dirent", "parent"}
    PROVE  /\ MadeIn(hist.before) /\ MadeCounts(hist.before, image)
           /\ NodeAt(hist.before, loc.ino).kind = "free"
           /\ LET x == NodeAt(image, loc.ino) IN
              /\ x.kind = MadeKind /\ x.owns = {loc.blk} /\ x.blk = loc.blk
              /\ x.links = (IF MakesDir THEN 2 ELSE 1)
              /\ MakesDir => x.size = BlockSize
           /\ \A m \in InodeNums \ {loc.ino} : NodeAt(image, m) = NodeAt(hist.before, m)
           /\ MakesDir => image.blk[loc.blk].ents = NewDirBlock(image, loc.ino, op.in.num).ents
           /\ op.in.raw.blk # loc.blk /\ image.csum = hist.before.csum
<1>1. /\ IInv /\ SInv /\ pc \in Making /\ loc.g \in Group
      /\ op.in.num \in InodeNums
  BY ProgressTypes DEF PInv, Making
<1>2. /\ op.in = ReadInode(hist.before, op.in.num)
      /\ op.in.num \in Reachable(hist.before) \cap InUse(hist.before)
      /\ image.csum = hist.before.csum
  BY <1>1 DEF PInv, Progress, BegunHolds
<1>3. op.in.raw.kind = "dir" /\ op.in.raw.single
  BY <1>1 DEF IInv, ArgumentsHold
<1>4. op.in.raw = NodeAt(hist.before, op.in.num)
  BY <1>2 DEF ReadInode
<1>5. /\ NodeAt(image, loc.ino) = Sealed(image, NewInode).raw /\ loc.ino # op.in.num
      /\ op.name \in PathNames
      /\ MakesDir => image.blk[loc.blk].ents = NewDirBlock(image, loc.ino, op.in.num).ents
  BY <1>1 DEF SInv, MadeHolds, MakesDir
<1>6. /\ loc.ino \in InodeNums /\ loc.blk \in BlockNums /\ NewInode \in Handle
      /\ op.in.raw.blk # loc.blk
  BY <1>1, BlocksApart
<1>7. MadeIn(hist.before)
  BY <1>1, <1>2, <1>3, <1>4, <1>5, <1>6 DEF MadeIn, DirsOf
<1>8. MadeCounts(hist.before, image)
  BY BodyProgress DEF MadeCounts
<1>9. /\ SameButLinks(NodeAt(image, loc.ino), NewInode.raw)
      /\ NodeAt(image, loc.ino).links = NewInode.raw.links
  BY <1>5, <1>6, SealedSame
<1>10. /\ NodeAt(hist.before, loc.ino).kind = "free"
       /\ \A m \in InodeNums \ {loc.ino} : NodeAt(image, m) = NodeAt(hist.before, m)
  BY DEF PInv, Progress, NodesHold
<1>11. LET x == NodeAt(image, loc.ino) IN
       /\ x.kind = MadeKind /\ x.owns = {loc.blk} /\ x.blk = loc.blk
       /\ x.links = (IF MakesDir THEN 2 ELSE 1)
       /\ MakesDir => x.size = BlockSize
  BY <1>9, NewInodeSays DEF SameButLinks
<1> QED BY <1>2, <1>5, <1>6, <1>7, <1>8, <1>10, <1>11

\* The counts of a group do not see contents.
LEMMA CountsSeen ==
    ASSUME NEW old, NEW a, NEW b, MadeCounts(old, a),
           b.ibm = a.ibm, b.bbm = a.bbm, b.gd = a.gd
    PROVE  MadeCounts(old, b)
  BY DEF MadeCounts, InodeTaken, BlockTaken, DescOnDisk, Counted

\* A file made.
LEMMA CreateMade ==
    ASSUME PInv, image' \in Image, AddDirent, ~DirentRefused(op.in, op.name), ~MakesDir
    PROVE  WasMade(hist.before, image')
<1>1. /\ pc = "dirent" /\ RecordAdded(hist.before, image', NewInode.raw.kind)
      /\ image'.itab = image.itab /\ image'.gd = image.gd /\ image'.csum = image.csum
      /\ image'.ibm = image.ibm /\ image'.bbm = image.bbm
  BY AddDirentAdds
<1>2. \A m : NodeAt(image', m) = NodeAt(image, m)
  BY <1>1 DEF NodeAt
<1>3. MadeNodes(hist.before, image')
  BY <1>1, <1>2, MadeSoFar DEF MadeNodes, SameButLinks
<1>4. MadeBlocks(hist.before, image')
  BY <1>1, NewInodeSays DEF MadeBlocks
<1>5. MadeCounts(hist.before, image')
  BY <1>1, MadeSoFar, CountsSeen
<1> QED BY <1>1, <1>3, <1>4, <1>5, MadeSoFar, ProgressTypes DEF WasMade

\* A directory made.
LEMMA MkdirMade ==
    ASSUME PInv, image' \in Image, WriteParent PROVE WasMade(hist.before, image')
<1> DEFINE p == op.in.num
           links == (op.in.raw.links + 1) % 65536
           in == [op.in EXCEPT !.raw.links = links]
           x == Sealed(image, in).raw
<1>1. /\ pc = "parent" /\ image' = WriteInodeTo(image, in)
      /\ image \in Image /\ op.in \in Handle /\ op.in.raw \in Inode /\ p \in InodeNums
      /\ SInv
  BY ProgressTypes DEF WriteParent, PInv
<1>2. links \in Nat
  <2>1. op.in.raw.links \in Nat
    BY <1>1 DEF Inode
  <2> QED BY <2>1, SMT
<1> HIDE DEF links
<1>3. in \in Handle /\ in.num = p /\ SameButLinks(in.raw, op.in.raw) /\ in.raw.links = links
  BY <1>1, <1>2 DEF Handle, Inode, SameButLinks
<1>4. image' = [image EXCEPT !.itab[InodeSlot(p)] = x]
  BY <1>1, <1>3 DEF WriteInodeTo
<1> HIDE DEF in
<1>5. SameButLinks(x, in.raw) /\ x.links = in.raw.links
  BY <1>3, SealedSame
<1>6. SameButLinks(x, op.in.raw) /\ x.links = links
  BY <1>3, <1>5 DEF SameButLinks
<1> HIDE DEF x
<1>7. /\ image'.blk = image.blk /\ image'.ibm = image.ibm /\ image'.bbm = image.bbm
      /\ image'.gd = image.gd /\ image'.csum = image.csum
  BY <1>1, <1>4 DEF Image
<1>8. NodeAt(image', p) = x /\ \A m \in InodeNums : m # p => NodeAt(image', m) = NodeAt(image, m)
  <2>1. /\ image'.itab[InodeSlot(p)] = x
        /\ \A s \in Slots : s # InodeSlot(p) => image'.itab[s] = image.itab[s]
    BY <1>1, <1>4, SlotInTables DEF Image
  <2> QED BY <1>1, <2>1, SlotInTables, SlotInjective DEF NodeAt
<1>9. MakesDir
  BY <1>1 DEF SInv, MadeHolds, MakesDir
<1>10. op.in.raw = NodeAt(hist.before, p) /\ loc.ino # p /\ MadeIn(hist.before)
       /\ loc.ino \in InodeNums
  BY <1>1, MadeSoFar DEF MadeIn
<1>11. ASSUME NEW m \in InodeNums \ {loc.ino}
       PROVE  /\ SameButLinks(NodeAt(image', m), NodeAt(hist.before, m))
              /\ NodeAt(image', m).links = IF MakesDir /\ m = p
                                           THEN (NodeAt(hist.before, m).links + 1) % 65536
                                           ELSE NodeAt(hist.before, m).links
  <2>1. CASE m = p
    BY <2>1, <1>6, <1>8, <1>9, <1>10 DEF links
  <2>2. CASE m # p
    <3>1. NodeAt(image', m) = NodeAt(hist.before, m)
      BY <1>1, <1>8, <2>2, MadeSoFar
    <3> QED BY <2>2, <3>1 DEF SameButLinks
  <2> QED BY <2>1, <2>2
<1>12. NodeAt(image', loc.ino) = NodeAt(image, loc.ino)
  BY <1>8, <1>10
<1>13. MadeNodes(hist.before, image')
  BY <1>1, <1>11, <1>12, MadeSoFar DEF MadeNodes
<1>14. MadeBlocks(hist.before, image')
  <2>1. RecordAdded(hist.before, image, "dir")
    BY <1>1 DEF PInv, Progress, ContentsHold
  <2>2. RecordAdded(hist.before, image', MadeKind)
    BY <1>7, <1>9, <2>1 DEF RecordAdded, MadeKind
  <2>3. NewDirBlock(image', loc.ino, p).ents = NewDirBlock(image, loc.ino, p).ents
    BY <1>7 DEF NewDirBlock, Limit, MetadataCsum
  <2> QED BY <1>1, <1>7, <2>2, <2>3, MadeSoFar DEF MadeBlocks
<1>15. MadeCounts(hist.before, image')
  BY <1>1, <1>7, MadeSoFar, CountsSeen
<1> QED BY <1>1, <1>7, <1>10, <1>13, <1>14, <1>15, MadeSoFar, ProgressTypes DEF WasMade

-----------------------------------------------------------------------------
(* What a call of Overwrite that succeeds has changed.                     *)

Overwrote(old, new) ==
    /\ old \in Image /\ new \in Image
    /\ new.csum = old.csum /\ new.gd = old.gd /\ new.ibm = old.ibm /\ new.bbm = old.bbm
    /\ op.in.num \in InUse(old) /\ NodeAt(old, op.in.num).kind = "file"
    /\ NodeAt(old, op.in.num).single /\ NodeAt(new, op.in.num).size \in Nat
    /\ \A m \in InodeNums :
          LET x == NodeAt(new, m)
              y == NodeAt(old, m)
          IN  /\ m = op.in.num \/ x.size = y.size
              /\ x.kind = y.kind /\ x.single = y.single /\ x.hole = y.hole
              /\ x.blk = y.blk /\ x.owns = y.owns /\ x.links = y.links
    /\ \A c \in BlockNums \ {op.in.raw.blk} : new.blk[c] = old.blk[c]
    /\ op.in.raw.blk = NodeAt(old, op.in.num).blk

\* A file overwritten.
LEMMA OverwriteMade ==
    ASSUME PInv, image' \in Image, OverwriteInode PROVE Overwrote(hist.before, image')
<1> DEFINE p == op.in.num
           in == [op.in EXCEPT !.raw.size = DataLen[op.data]]
           x == Sealed(image, in).raw
<1>1. /\ pc = "oinode" /\ image' = WriteInodeTo(image, in)
      /\ image \in Image /\ op.in \in Handle /\ op.in.raw \in Inode /\ p \in InodeNums
      /\ IInv /\ hist.before \in Image
  BY ProgressTypes DEF OverwriteInode, PInv
<1>2. op.data \in Data /\ ~OverwriteRefused /\ op.in.raw.kind # "free"
  BY <1>1 DEF IInv, ArgumentsHold, Overwriting
<1>3. DataLen[op.data] \in Nat
  BY <1>2, NamesAssumption
<1>4. /\ in \in Handle /\ in.num = p /\ in.raw.size = DataLen[op.data]
      /\ in.raw.kind = op.in.raw.kind /\ in.raw.single = op.in.raw.single
      /\ in.raw.hole = op.in.raw.hole /\ in.raw.blk = op.in.raw.blk
      /\ in.raw.owns = op.in.raw.owns /\ in.raw.links = op.in.raw.links
  BY <1>1, <1>3 DEF Handle, Inode
<1>5. image' = [image EXCEPT !.itab[InodeSlot(p)] = x]
  BY <1>1, <1>4 DEF WriteInodeTo
<1> HIDE DEF in
<1>6. SameButLinks(x, in.raw) /\ x.links = in.raw.links
  BY <1>4, SealedSame
<1> HIDE DEF x
<1>7. /\ image'.blk = image.blk /\ image'.ibm = image.ibm /\ image'.bbm = image.bbm
      /\ image'.gd = image.gd /\ image'.csum = image.csum
  BY <1>1, <1>5 DEF Image
<1>8. NodeAt(image', p) = x /\ \A m \in InodeNums : m # p => NodeAt(image', m) = NodeAt(image, m)
  <2>1. /\ image'.itab[InodeSlot(p)] = x
        /\ \A s \in Slots : s # InodeSlot(p) => image'.itab[s] = image.itab[s]
    BY <1>1, <1>5, SlotInTables DEF Image
  <2> QED BY <1>1, <2>1, SlotInTables, SlotInjective DEF NodeAt
<1>9. /\ op.in = ReadInode(hist.before, p) /\ p \in InUse(hist.before)
      /\ image.csum = hist.before.csum /\ image.gd = hist.before.gd
      /\ image.ibm = hist.before.ibm /\ image.bbm = hist.before.bbm
      /\ image.itab = hist.before.itab
      /\ \A c \in BlockNums \ {op.in.raw.blk} : image.blk[c] = hist.before.blk[c]
  BY <1>1 DEF PInv, Progress, BegunHolds, BitmapsHold, CountsHold, NodesHold, ContentsHold,
              Overwriting
<1>10. op.in.raw = NodeAt(hist.before, p) /\ \A m : NodeAt(image, m) = NodeAt(hist.before, m)
  BY <1>9 DEF ReadInode, NodeAt
<1>11. op.in.raw.kind = "file" /\ op.in.raw.single
  BY <1>1, <1>2 DEF OverwriteRefused, Inode
<1>12. /\ x.size = DataLen[op.data] /\ x.kind = op.in.raw.kind /\ x.single = op.in.raw.single
       /\ x.hole = op.in.raw.hole /\ x.blk = op.in.raw.blk /\ x.owns = op.in.raw.owns
       /\ x.links = op.in.raw.links
  BY <1>4, <1>6 DEF SameButLinks
<1>13. ASSUME NEW m \in InodeNums
       PROVE  LET z == NodeAt(image', m)
                  y == NodeAt(hist.before, m)
              IN  /\ m = p \/ z.size = y.size
                  /\ z.kind = y.kind /\ z.single = y.single /\ z.hole = y.hole
                  /\ z.blk = y.blk /\ z.owns = y.owns /\ z.links = y.links
  BY <1>8, <1>10, <1>12
<1>14. NodeAt(image', p).size \in Nat
  BY <1>3, <1>8, <1>12
<1> QED BY <1>1, <1>7, <1>9, <1>10, <1>11, <1>13, <1>14 DEF Overwrote
-----------------------------------------------------------------------------
(* The directory a record was added to.                                    *)

\* A record that is kept, its length apart: an old one keeps its length or has
\* just what it needs.
KeptRecord(e, f) ==
    /\ Alike(e, f) /\ e.ftype = f.ftype
    /\ e.rec = f.rec \/ (f.ino # 0 /\ e.rec = DirentLen(f.nlen))

\* addDirent, record by record.
LEMMA WithDirentRecords ==
    ASSUME NEW ents \in Seq(Dirent), Len(ents) > 0, NEW ino, NEW name, NEW ftype,
           Last(ents).rec - UsedLen(Last(ents)) >= DirentLen(NameLen[name]),
           NEW after, after = WithDirent(ents, ino, name, ftype)
    PROVE  \E t \in Nat :
              /\ t \in {Len(ents), Len(ents) + 1} /\ t # 0 /\ DOMAIN after = 1 .. t
              /\ \A i \in 1 .. t - 1 : i \in DOMAIN ents /\ KeptRecord(after[i], ents[i])
              /\ \A i \in DOMAIN ents : i <= t - 1 \/ ents[i].ino = 0
              /\ after[t].ino = ino /\ after[t].name = name /\ after[t].ftype = ftype
              /\ after[t].nlen = NameLen[name] % 256
              /\ after[t].rec >= DirentLen(NameLen[name])
<1> DEFINE last == Last(ents)
           used == UsedLen(last)
           new  == NewDirent(ino, name, last.rec - used, ftype)
           shrunk == [last EXCEPT !.rec = used]
           n == Len(ents) - 1
<1>1. /\ n \in Nat /\ Len(ents) = n + 1 /\ last = ents[n + 1] /\ last \in Dirent
      /\ DOMAIN ents = 1 .. n + 1
  <2>1. Len(ents) \in Nat /\ DOMAIN ents = 1 .. Len(ents)
    BY LenProperties
  <2>2. last = ents[Len(ents)] /\ ents[Len(ents)] \in Dirent
    BY <2>1, ElementOfSeq DEF Last
  <2> QED BY <2>1, <2>2
<1>2. /\ Front(ents) \in Seq(Dirent) /\ Len(Front(ents)) = n
      /\ \A k \in 1 .. n : Front(ents)[k] = ents[k]
  <2>1. \A k \in 1 .. n : ents[k] \in Dirent
    BY <1>1, ElementOfSeq
  <2>2. Front(ents) = SubSeq(ents, 1, n)
    BY DEF Front
  <2> HIDE DEF n
  <2>3. /\ SubSeq(ents, 1, n) \in Seq(Dirent)
        /\ Len(SubSeq(ents, 1, n)) = IF 1 <= n THEN n - 1 + 1 ELSE 0
        /\ \A k \in 1 .. n - 1 + 1 : SubSeq(ents, 1, n)[k] = ents[1 + k - 1]
    BY <1>1, <2>1, SubSeqProperties
  <2> QED BY <1>1, <2>2, <2>3
<1>3. /\ last.ino # 0 => KeptRecord(shrunk, last)
      /\ new.ino = ino /\ new.name = name /\ new.nlen = NameLen[name] % 256
      /\ new.ftype = ftype /\ new.rec >= DirentLen(NameLen[name])
  BY <1>1 DEF Dirent, NewDirent, Alike, KeptRecord, UsedLen
<1>4. last.ino # 0 <=> used # 0
  <2>1. last.ino = 0 => used = 0
    BY DEF UsedLen
  <2> QED BY <1>1, <2>1, UsedNotZero
<1>5. \/ used = 0 /\ after = Front(ents) \o <<new>>
      \/ used # 0 /\ after = Front(ents) \o <<shrunk, new>>
  BY DEF WithDirent
<1>6. \A e : KeptRecord(e, e)
  BY DEF KeptRecord, Alike
<1> HIDE DEF new, shrunk, n, used, last
<1>7. CASE used = 0
  <2>1. /\ DOMAIN after = 1 .. n + 1 /\ after[n + 1] = new
        /\ \A i \in 1 .. n : after[i] = ents[i]
    BY <1>1, <1>2, <1>5, <1>7
  <2> DEFINE t == n + 1
  <2>2. t \in Nat /\ t = Len(ents) /\ t - 1 = n /\ t # 0
    BY <1>1
  <2>3. \A i \in 1 .. t - 1 : i \in DOMAIN ents /\ KeptRecord(after[i], ents[i])
    BY <1>1, <1>6, <2>1, <2>2
  <2>4. \A i \in DOMAIN ents : i <= t - 1 \/ ents[i].ino = 0
    BY <1>1, <1>4, <1>7, <2>2
  <2>5. DOMAIN after = 1 .. t /\ after[t] = new
    BY <2>1
  <2> HIDE DEF t
  <2> QED BY <1>3, <2>2, <2>3, <2>4, <2>5
<1>8. CASE used # 0
  <2>1. /\ DOMAIN after = 1 .. n + 2 /\ after[n + 2] = new /\ after[n + 1] = shrunk
        /\ \A i \in 1 .. n : after[i] = ents[i]
    BY <1>1, <1>2, <1>5, <1>8
  <2> DEFINE t == n + 2
  <2>2. t \in Nat /\ t = Len(ents) + 1 /\ t - 1 = n + 1 /\ t # 0 /\ t # Len(ents)
    BY <1>1
  <2>3. \A i \in 1 .. n + 1 : KeptRecord(after[i], ents[i])
    <3>1. KeptRecord(after[n + 1], ents[n + 1])
      BY <1>1, <1>3, <1>4, <1>8, <2>1
    <3>2. \A i \in 1 .. n : KeptRecord(after[i], ents[i])
      BY <1>6, <2>1
    <3> QED BY <1>1, <3>1, <3>2
  <2>4. \A i \in 1 .. t - 1 : i \in DOMAIN ents /\ KeptRecord(after[i], ents[i])
    BY <1>1, <2>2, <2>3
  <2>5. \A i \in DOMAIN ents : i <= t - 1
    BY <1>1, <2>2
  <2>6. DOMAIN after = 1 .. t /\ after[t] = new
    BY <2>1
  <2> HIDE DEF t
  <2> QED BY <1>3, <2>2, <2>4, <2>5, <2>6
<1> QED BY <1>7, <1>8

-----------------------------------------------------------------------------
(* Who is in use, and where, after something was made.                     *)

\* The new inode joins those in use; nothing else of them changes but links.
LEMMA MadeInUse ==
    ASSUME NEW old, NEW new, WasMade(old, new)
    PROVE  /\ InUse(new) = InUse(old) \cup {loc.ino} /\ loc.ino \notin InUse(old)
           /\ DirsOf(new) = DirsOf(old) \cup (IF MakesDir THEN {loc.ino} ELSE {})
           /\ InUse(old) \subseteq InodeNums
           /\ op.in.num \in DirsOf(old) /\ op.in.num \in InUse(old)
           /\ OwnedBy(new, InUse(new)) = OwnedBy(old, InUse(old)) \cup {loc.blk}
           /\ \A m \in InUse(old) : SameButLinks(NodeAt(new, m), NodeAt(old, m))
<1> DEFINE n == loc.ino
<1>1. /\ n \in InodeNums /\ NodeAt(old, n).kind = "free"
      /\ NodeAt(new, n).kind = MadeKind /\ NodeAt(new, n).owns = {loc.blk}
      /\ \A m \in InodeNums \ {n} : SameButLinks(NodeAt(new, m), NodeAt(old, m))
      /\ op.in.num \in DirsOf(old)
  BY DEF WasMade, MadeIn, MadeNodes
<1>2. MadeKind \in {"dir", "file"} /\ (MadeKind = "dir" <=> MakesDir)
  BY DEF MadeKind
<1> HIDE DEF n
<1>3. InUse(new) = InUse(old) \cup {n} /\ n \notin InUse(old) /\ InUse(old) \subseteq InodeNums
  BY <1>1, <1>2 DEF InUse, SameButLinks
<1>4. DirsOf(new) = DirsOf(old) \cup (IF MakesDir THEN {n} ELSE {})
  BY <1>1, <1>2, <1>3 DEF DirsOf, SameButLinks
<1>5. \A m \in InUse(old) : SameButLinks(NodeAt(new, m), NodeAt(old, m))
  BY <1>1, <1>3
<1>6. OwnedBy(new, InUse(new)) = OwnedBy(old, InUse(old)) \cup {loc.blk}
  BY <1>1, <1>3, <1>5 DEF OwnedBy, SameButLinks
<1> QED BY <1>1, <1>3, <1>4, <1>5, <1>6 DEF DirsOf, n

\* The block taken was nobody's.
LEMMA MadeBlockFree ==
    ASSUME NEW old, NEW new, WasMade(old, new), BitmapsMatch(old)
    PROVE  loc.blk \notin MetaBlocks \cup OwnedBy(old, InUse(old))
<1>1. /\ loc.g \in Group /\ ~old.gd[loc.g].bUninit
      /\ \E i \in BlockIdx \ old.bbm[loc.g] : loc.blk = BlkNum(loc.g, i)
  BY DEF WasMade, MadeIn, MadeCounts, HasRoom, BlockTaken
<1>2. old.bbm[loc.g] = UsedBlockBits(old, loc.g)
  BY <1>1 DEF BitmapsMatch
<1> QED BY <1>1, <1>2 DEF UsedBlockBits

\* The directory has one block, which is its alone.
LEMMA MadeInOneBlock ==
    ASSUME NEW old, NEW new, WasMade(old, new), FsckClean(old)
    PROVE  /\ NodeAt(old, op.in.num).owns = {op.in.raw.blk}
           /\ op.in.raw.blk \in BlockNums
           /\ \A d \in DirsOf(old) : d # op.in.num => op.in.raw.blk \notin NodeAt(old, d).owns
           /\ \A d \in DirsOf(old) : loc.blk \notin NodeAt(old, d).owns
           /\ op.in.raw.blk # loc.blk
<1> DEFINE p == op.in.num
           x == NodeAt(old, p)
           b == op.in.raw.blk
<1>1. /\ old \in Image /\ p \in DirsOf(old) /\ op.in.raw = x /\ x.single
      /\ op.in.raw.size <= BlockSize
  BY DEF WasMade, MadeIn, MadeBlocks, RecordAdded, RoomFor
<1>2. p \in InUse(old) /\ x.kind = "dir" /\ p \in InodeNums
  BY <1>1 DEF DirsOf, InUse
<1>3. x \in Inode
  BY <1>1, <1>2, NodeType
<1>4. b \in x.owns
  BY <1>1, <1>2 DEF FsckClean, ExtentsOwned
<1>5. b \in BlockNums
  BY <1>3, <1>4 DEF Inode
<1>6. x.size = Cardinality(x.owns) * BlockSize /\ x.size <= BlockSize
  BY <1>1, <1>2 DEF FsckClean, SizesMatch
<1>7. x.owns = {b}
  <2>1. IsFiniteSet(x.owns) /\ Cardinality(x.owns) \in Nat
    <3>1. x.owns \subseteq BlockNums
      BY <1>3 DEF Inode
    <3>2. IsFiniteSet(BlockNums)
      <4>1. /\ FirstDataBlock \in Int
            /\ FirstDataBlock + NumGroups * BlocksPerGroup - 1 \in Int
        BY GeometryAssumption
      <4> QED BY <4>1, FS_Interval DEF BlockNums
    <3> QED BY <3>1, <3>2, FS_Subset, FS_CardinalityType
  <2> DEFINE c == Cardinality(x.owns)
  <2>2. ~(c >= 2)
    <3> SUFFICES ASSUME c >= 2 PROVE FALSE
      OBVIOUS
    <3>1. c \in Nat /\ BlockSize \in Nat /\ BlockSize > 0 /\ c * BlockSize <= BlockSize
      BY <1>6, <2>1, GeometryAssumption DEF DirentTail
    <3> HIDE DEF c
    <3>2. c * BlockSize >= 2 * BlockSize
      BY <3>1, SMT
    <3> QED BY <3>1, <3>2
  <2>3. ASSUME NEW d \in x.owns, d # b PROVE FALSE
    <3>1. {b, d} \subseteq x.owns /\ IsFiniteSet({b}) /\ d \notin {b}
      BY <1>4, <2>3, FS_Singleton
    <3>2. Cardinality({b}) = 1
      BY FS_Singleton
    <3>3. Cardinality({b} \cup {d}) = Cardinality({b}) + 1
      BY <3>1, FS_AddElement
    <3>4. {b} \cup {d} \subseteq x.owns
      BY <1>4, <2>3
    <3>5. Cardinality({b} \cup {d}) <= c
      BY <2>1, <3>4, FS_Subset
    <3> QED BY <2>1, <2>2, <3>2, <3>3, <3>5
  <2> QED BY <1>4, <2>3
<1>8. ASSUME NEW d \in DirsOf(old), d # p PROVE b \notin NodeAt(old, d).owns
  BY <1>2, <1>4, <1>8 DEF FsckClean, BlocksOwnedOnce, DirsOf
<1>9. loc.blk \notin OwnedBy(old, InUse(old))
  BY MadeBlockFree DEF FsckClean
<1>10. \A d \in InUse(old) : loc.blk \notin NodeAt(old, d).owns
  BY <1>9 DEF OwnedBy
<1>11. \A d \in DirsOf(old) : loc.blk \notin NodeAt(old, d).owns
  BY <1>10 DEF DirsOf
<1> QED BY <1>4, <1>5, <1>7, <1>8, <1>11, <1>1
-----------------------------------------------------------------------------
(* What a path leads to.  Reachable is the end of a search that is given   *)
(* as many rounds as there are directories: that is as many as it needs.   *)

\* One round of the search.
Round(img, S) == S \cup {e.ino : e \in UNION {Children(img, n) : n \in S \cap DirsOf(img)}}

\* The records of a directory are records.
LEMMA EntriesType ==
    ASSUME NEW img, Good(img), NEW d \in DirsOf(img), NEW e \in Entries(img, d)
    PROVE  e \in Dirent /\ e.ino \in InUse(img)
<1>1. d \in InodeNums /\ img \in Image
  BY DEF DirsOf, InUse, Good
<1>2. PICK b \in NodeAt(img, d).owns : e \in ToSet(img.blk[b].ents) /\ e.ino # 0
  BY DEF Entries
<1>3. b \in BlockNums
  BY <1>1, NodeType DEF Inode
<1>4. img.blk[b].ents \in Seq(Dirent)
  BY <1>1, <1>3 DEF Image, Block
<1>5. e \in Dirent
  BY <1>2, <1>4 DEF ToSet
<1> QED BY <1>5 DEF Good, LinksResolve, RecordsLead

\* A round adds inodes in use.
LEMMA RoundType ==
    ASSUME NEW img, Good(img), NEW S \in SUBSET InodeNums
    PROVE  Round(img, S) \in SUBSET InodeNums /\ S \subseteq Round(img, S)
<1>1. ASSUME NEW n \in S \cap DirsOf(img), NEW e \in Children(img, n)
      PROVE  e.ino \in InodeNums
  BY EntriesType DEF Children, InUse
<1> QED BY <1>1 DEF Round

\* The root is an inode of the filesystem.
LEMMA RootType == RootIno \in InodeNums
<1>1. NumGroups >= 1 /\ InodesPerGroup >= 3 /\ NumGroups \in Nat /\ InodesPerGroup \in Nat
  BY GeometryAssumption DEF RootIno
<1>2. NumGroups * InodesPerGroup >= InodesPerGroup
  BY <1>1, SMT
<1> QED BY <1>1, <1>2 DEF InodeNums, RootIno

\* The search, round by round.
Searches(img, f, n) ==
    /\ f \in [0 .. n -> SUBSET InodeNums]
    /\ f[0] = {RootIno}
    /\ \A k \in 1 .. n : f[k] = Round(img, f[k - 1])

\* Some function is the search, for any number of rounds.
LEMMA SearchExists ==
    ASSUME NEW img, Good(img), NEW n \in Nat PROVE \E f : Searches(img, f, n)
<1> DEFINE V == SUBSET InodeNums
           next == [k \in 1 .. n |-> [S \in V |-> Round(img, S)]]
<1>1. next \in [1 .. n -> [V -> V]] /\ {RootIno} \in V
  BY RoundType, RootType
<1>2. PICK f \in [0 .. n -> V] : Follows(f, n, {RootIno}, next)
  <2> HIDE DEF next, V
  <2> QED BY <1>1, Recursion
<1>3. ASSUME NEW k \in 1 .. n PROVE f[k] = Round(img, f[k - 1])
  <2>1. k - 1 \in 0 .. n
    OBVIOUS
  <2>2. f[k - 1] \in V
    BY <2>1
  <2>3. f[k] = next[k][f[k - 1]]
    BY <1>2 DEF Follows
  <2> QED BY <2>2, <2>3
<1> QED BY <1>2, <1>3 DEF Searches, Follows

\* It is the one ReachableIn makes.
LEMMA SearchIs ==
    ASSUME NEW img, Good(img), NEW n \in Nat, NEW f, Searches(img, f, n), NEW k \in 0 .. n
    PROVE  ReachableIn(img, k) = f[k]
<1>1. k \in Nat /\ f[0] = {RootIno}
  BY DEF Searches
<1>2. PICK h : Searches(img, h, k)
  BY <1>1, SearchExists
<1> DEFINE r == CHOOSE g : g = [j \in 0 .. k |-> IF j = 0 THEN {RootIno} ELSE Round(img, g[j - 1])]
<1>3. r = [j \in 0 .. k |-> IF j = 0 THEN {RootIno} ELSE Round(img, r[j - 1])]
  <2>1. h = [j \in 0 .. k |-> IF j = 0 THEN {RootIno} ELSE Round(img, h[j - 1])]
    BY <1>1, <1>2 DEF Searches
  <2> QED BY <2>1
<1>4. ReachableIn(img, k) = r[k]
  BY DEF ReachableIn, Round
<1> HIDE DEF r
<1> DEFINE T == {j \in 0 .. k : r[j] = f[j]}
<1>5. 0 \in T
  <2>1. 0 \in 0 .. k
    BY <1>1
  <2> QED BY <1>1, <1>3, <2>1
<1>6. ASSUME NEW j \in 0 .. k - 1, j \in T PROVE j + 1 \in T
  <2>1. j + 1 \in 0 .. k /\ j + 1 \in 1 .. n /\ j + 1 # 0 /\ (j + 1) - 1 = j
    BY <1>1
  <2>2. r[j + 1] = Round(img, r[j])
    BY <1>3, <2>1
  <2>3. f[j + 1] = Round(img, f[j])
    BY <2>1 DEF Searches
  <2> QED BY <1>6, <2>1, <2>2, <2>3
<1> HIDE DEF T
<1>7. \A j \in 0 .. k : j \in T
  BY <1>1, <1>5, <1>6, UpTo
<1>8. k \in 0 .. k
  BY <1>1
<1> QED BY <1>4, <1>7, <1>8 DEF T

\* A round that finds nothing is the last that could.
LEMMA SearchStops ==
    ASSUME NEW img, NEW n \in Nat, NEW f, Searches(img, f, n),
           NEW i \in 0 .. n - 1, f[i + 1] = f[i]
    PROVE  \A k \in 0 .. n - i : f[i + k] = f[i]
<1> DEFINE m == n - i
           T == {k \in 0 .. m : f[i + k] = f[i]}
<1>1. m \in Nat /\ i \in Nat /\ n \in Nat /\ i < n
  OBVIOUS
<1>2. 0 \in T
  BY <1>1
<1>3. ASSUME NEW k \in 0 .. m - 1, k \in T PROVE k + 1 \in T
  <2>1. k + 1 \in 0 .. m /\ i + (k + 1) \in 1 .. n /\ (i + (k + 1)) - 1 = i + k
    BY <1>1
  <2>2. i + 1 \in 1 .. n /\ (i + 1) - 1 = i
    BY <1>1
  <2>3. f[i + (k + 1)] = Round(img, f[i + k])
    BY <2>1 DEF Searches
  <2>4. f[i + 1] = Round(img, f[i])
    BY <2>2 DEF Searches
  <2> QED BY <1>3, <2>1, <2>3, <2>4
<1> HIDE DEF T, m
<1>4. \A k \in 0 .. m : k \in T
  BY <1>1, <1>2, <1>3, UpTo
<1> QED BY <1>4 DEF T, m

\* A set that is not the whole of a finite one is smaller.
LEMMA Smaller ==
    ASSUME NEW A, NEW B, IsFiniteSet(B), A \subseteq B, A # B
    PROVE  /\ Cardinality(A) \in Nat /\ Cardinality(B) \in Nat
           /\ Cardinality(A) + 1 <= Cardinality(B)
<1>1. A \in SUBSET B
  OBVIOUS
<1>2. /\ IsFiniteSet(A) /\ Cardinality(A) <= Cardinality(B)
      /\ Cardinality(A) # Cardinality(B)
  BY <1>1, FS_Subset
<1>3. Cardinality(A) \in Nat /\ Cardinality(B) \in Nat
  BY <1>2, FS_CardinalityType
<1> QED BY <1>2, <1>3

\* Only finitely many inodes are directories.
LEMMA DirsFinite ==
    ASSUME NEW img PROVE IsFiniteSet(DirsOf(img)) /\ Cardinality(DirsOf(img)) \in Nat
<1> DEFINE m == NumGroups * InodesPerGroup
<1>1. m \in Int
  BY GeometryAssumption, SMT
<1> HIDE DEF m
<1>2. IsFiniteSet(1 .. m)
  BY <1>1, FS_Interval
<1>3. DirsOf(img) \in SUBSET (1 .. m)
  BY DEF DirsOf, InUse, InodeNums, m
<1>4. IsFiniteSet(DirsOf(img))
  BY <1>2, <1>3, FS_Subset
<1> QED BY <1>4, FS_CardinalityType

\* Each round but the last finds a directory, or there would be more rounds
\* than directories: one more round finds nothing.
LEMMA SearchEnds ==
    ASSUME NEW img, Good(img)
    PROVE  /\ Reachable(img) \in SUBSET InodeNums
           /\ RootIno \in Reachable(img)
           /\ Round(img, Reachable(img)) = Reachable(img)
<1> DEFINE D == DirsOf(img)
           K == Cardinality(D)
<1>1. IsFiniteSet(D) /\ K \in Nat
  BY DirsFinite
<1>2. Reachable(img) = ReachableIn(img, K)
  BY DEF Reachable
<1> HIDE DEF D, K
<1> DEFINE n == K + 1
<1>3. n \in Nat /\ K \in 0 .. n /\ n \in 0 .. n /\ n \in 1 .. n /\ 0 \in 0 .. n /\ n - 1 = K
  BY <1>1
<1>4. PICK f : Searches(img, f, n)
  BY <1>3, SearchExists
<1> HIDE DEF n
<1>5. Reachable(img) = f[K]
  BY <1>2, <1>3, <1>4, SearchIs
<1>6. f[n] = Round(img, f[K]) /\ f[K] \in SUBSET InodeNums
  BY <1>3, <1>4 DEF Searches
<1>7. ASSUME NEW k \in 0 .. n - 1
      PROVE  /\ k \in 0 .. n /\ k + 1 \in 0 .. n /\ f[k] \in SUBSET InodeNums
             /\ f[k + 1] = Round(img, f[k]) /\ f[k] \subseteq f[k + 1]
  <2>1. k \in 0 .. n /\ k + 1 \in 0 .. n /\ k + 1 \in 1 .. n /\ (k + 1) - 1 = k
    BY <1>3
  <2>2. f[k] \in SUBSET InodeNums /\ f[k + 1] = Round(img, f[k])
    BY <1>4, <2>1 DEF Searches
  <2> QED BY <2>1, <2>2, RoundType
<1>8. ASSUME NEW k \in 0 .. n - 1, f[k + 1] = f[k]
      PROVE  f[n] = f[K]
  <2>1. \A j \in 0 .. n - k : f[k + j] = f[k]
    BY <1>3, <1>4, <1>8, SearchStops
  <2>2. n - k \in 0 .. n - k /\ K - k \in 0 .. n - k /\ k + (n - k) = n /\ k + (K - k) = K
    BY <1>3
  <2> QED BY <2>1, <2>2
<1>9. ASSUME NEW k \in 0 .. K - 1, f[k + 1] \cap D = f[k] \cap D
      PROVE  f[n] = f[K]
  <2>1. k \in 0 .. n - 1 /\ k + 1 \in 0 .. n - 1
    BY <1>3
  <2>2. f[k + 1] = Round(img, f[k]) /\ f[(k + 1) + 1] = Round(img, f[k + 1])
        /\ f[k] \subseteq f[k + 1]
    BY <1>7, <2>1
  <2>3. f[(k + 1) + 1] = f[k + 1]
    BY <1>9, <2>2 DEF Round, D
  <2> QED BY <1>8, <2>1, <2>3
<1>10. f[n] = f[K]
  <2> SUFFICES ASSUME f[n] # f[K] PROVE FALSE
    OBVIOUS
  <2> DEFINE found(k) == f[k] \cap D
             T == {k \in 0 .. K : Cardinality(found(k)) >= k + 1}
  <2>1. \A k : found(k) \in SUBSET D
    OBVIOUS
  <2>2. \A k : IsFiniteSet(found(k)) /\ Cardinality(found(k)) \in Nat
               /\ Cardinality(found(k)) <= K
    <3> HIDE DEF found
    <3> QED BY <1>1, <2>1, FS_Subset, FS_CardinalityType DEF K
  <2>3. found(0) # {}
    <3> SUFFICES ASSUME found(0) = {} PROVE FALSE
      OBVIOUS
    <3>1. 0 \in 0 .. n - 1
      BY <1>1, <1>3
    <3>2. f[0 + 1] = Round(img, f[0])
      BY <1>7, <3>1
    <3>3. f[0 + 1] = f[0]
      BY <3>2 DEF Round, D
    <3> QED BY <1>8, <3>1, <3>3
  <2>4. 0 \in T
    <3>1. Cardinality(found(0)) # 0
      <4> HIDE DEF found
      <4> QED BY <2>2, <2>3, FS_EmptySet
    <3>2. 0 \in 0 .. K
      BY <1>1
    <3> HIDE DEF found
    <3> QED BY <2>2, <3>1, <3>2
  <2>5. ASSUME NEW k \in 0 .. K - 1, k \in T PROVE k + 1 \in T
    <3>1. k \in 0 .. n - 1 /\ k + 1 \in 0 .. K
      BY <1>1, <1>3
    <3>2. found(k) # found(k + 1)
      BY <1>9
    <3>3. found(k) \subseteq found(k + 1)
      BY <1>7, <3>1
    <3> HIDE DEF found
    <3>4. Cardinality(found(k)) + 1 <= Cardinality(found(k + 1))
      BY <2>2, <3>2, <3>3, Smaller
    <3>5. Cardinality(found(k)) >= k + 1
      BY <2>5
    <3> QED BY <2>2, <3>1, <3>4, <3>5
  <2> HIDE DEF T
  <2>6. \A k \in 0 .. K : k \in T
    BY <1>1, <2>4, <2>5, UpTo
  <2>7. K \in T
    BY <1>1, <2>6
  <2> HIDE DEF found
  <2>8. Cardinality(found(K)) >= K + 1
    BY <2>7 DEF T
  <2>9. Cardinality(found(K)) \in Nat /\ Cardinality(found(K)) <= K
    BY <2>2
  <2> QED BY <1>1, <2>8, <2>9
<1>11. RootIno \in f[K]
  <2> DEFINE T == {k \in 0 .. K : RootIno \in f[k]}
  <2>1. 0 \in T
    <3>1. 0 \in 0 .. K
      BY <1>1
    <3> QED BY <1>4, <3>1 DEF Searches
  <2>2. ASSUME NEW k \in 0 .. K - 1, k \in T PROVE k + 1 \in T
    <3>1. k \in 0 .. n - 1 /\ k + 1 \in 0 .. K
      BY <1>1, <1>3
    <3>2. f[k] \subseteq f[k + 1]
      BY <1>7, <3>1
    <3> QED BY <2>2, <3>1, <3>2
  <2> HIDE DEF T
  <2>3. \A k \in 0 .. K : k \in T
    BY <1>1, <2>1, <2>2, UpTo
  <2>4. K \in 0 .. K
    BY <1>1
  <2> QED BY <2>3, <2>4 DEF T
<1> QED BY <1>5, <1>6, <1>10, <1>11

\* What the root leads to is in every set with the root and with what its
\* directories name.
LEMMA ReachableLeast ==
    ASSUME NEW img, Good(img), NEW S, RootIno \in S,
           \A n \in S \cap DirsOf(img) : \A e \in Children(img, n) : e.ino \in S
    PROVE  Reachable(img) \subseteq S
<1> DEFINE K == Cardinality(DirsOf(img))
<1>1. K \in Nat
  BY DirsFinite
<1>2. Reachable(img) = ReachableIn(img, K)
  BY DEF Reachable
<1> HIDE DEF K
<1>3. PICK f : Searches(img, f, K)
  BY <1>1, SearchExists
<1>4. K \in 0 .. K /\ 0 \in 0 .. K
  BY <1>1
<1>5. Reachable(img) = f[K]
  BY <1>1, <1>2, <1>3, <1>4, SearchIs
<1> DEFINE T == {k \in 0 .. K : f[k] \subseteq S}
<1>6. 0 \in T
  BY <1>3, <1>4 DEF Searches
<1>7. ASSUME NEW k \in 0 .. K - 1, k \in T PROVE k + 1 \in T
  <2>1. k + 1 \in 1 .. K /\ k + 1 \in 0 .. K /\ (k + 1) - 1 = k
    BY <1>1
  <2>2. f[k + 1] = Round(img, f[k])
    BY <1>3, <2>1 DEF Searches
  <2>3. f[k] \subseteq S
    BY <1>7
  <2> QED BY <2>1, <2>2, <2>3 DEF Round
<1> HIDE DEF T
<1>8. \A k \in 0 .. K : k \in T
  BY <1>1, <1>6, <1>7, UpTo
<1> QED BY <1>4, <1>5, <1>8 DEF T

\* The root leads to what a directory it leads to names.
LEMMA ReachableOn ==
    ASSUME NEW img, Good(img), NEW n \in Reachable(img), n \in DirsOf(img),
           NEW e \in Children(img, n)
    PROVE  e.ino \in Reachable(img)
BY SearchEnds DEF Round

\* What a path leads to, it goes on leading to while names are kept.
LEMMA ReachableGrows ==
    ASSUME NEW img, Good(img), NEW new, Good(new), \A d \in DirsOf(img) : NamesKeptIn(img, new, d)
    PROVE  Reachable(img) \subseteq Reachable(new)
<1>1. RootIno \in Reachable(new)
  BY SearchEnds
<1>2. ASSUME NEW n \in Reachable(new) \cap DirsOf(img), NEW e \in Children(img, n)
      PROVE  e.ino \in Reachable(new)
  <2>1. n \in DirsOf(new) /\ e \in Entries(img, n) /\ e.name \notin {Dot, DotDot}
    BY <1>2 DEF NamesKeptIn, Children
  <2>2. PICK f \in Entries(new, n) : f.name = e.name /\ f.ino = e.ino
    BY <1>2, <2>1 DEF NamesKeptIn
  <2>3. f \in Children(new, n)
    BY <2>1, <2>2 DEF Children
  <2> QED BY <1>2, <2>1, <2>2, <2>3, ReachableOn
<1> QED BY <1>1, <1>2, ReachableLeast
-----------------------------------------------------------------------------
(* The records of the directories after something was made.                *)

\* The t-th record is the new one, those before it are kept and those that are
\* gone were unused.
AddedAt(ents, after, t) ==
    /\ t \in Nat /\ t # 0 /\ DOMAIN after = 1 .. t
    /\ \A i \in 1 .. t - 1 : i \in DOMAIN ents /\ KeptRecord(after[i], ents[i])
    /\ \A i \in DOMAIN ents : i <= t - 1 \/ ents[i].ino = 0
    /\ after[t].ino = loc.ino /\ after[t].name = op.name /\ after[t].ftype = MadeKind
    /\ after[t].nlen = NameLen[op.name] /\ after[t].rec >= DirentLen(NameLen[op.name])

\* What is made is made in a clean image whose records have whole names.
MadeClean(old, new) == WasMade(old, new) /\ FsckClean(old) /\ WholeNames(old) /\ NamesFit

\* The blocks of other directories are not touched.
LEMMA MadeElsewhere ==
    ASSUME NEW old, NEW new, MadeClean(old, new), NEW d \in DirsOf(old), d # op.in.num
    PROVE  /\ NodeAt(new, d).owns = NodeAt(old, d).owns
           /\ \A b \in NodeAt(old, d).owns : new.blk[b] = old.blk[b]
           /\ Entries(new, d) = Entries(old, d)
<1>1. WasMade(old, new) /\ FsckClean(old)
  BY DEF MadeClean
<1>2. d \in InUse(old) /\ d \in InodeNums /\ old \in Image
  BY <1>1 DEF DirsOf, InUse, WasMade
<1>3. NodeAt(new, d).owns = NodeAt(old, d).owns
  BY <1>1, <1>2, MadeInUse DEF SameButLinks
<1>4. NodeAt(old, d).owns \subseteq BlockNums
  BY <1>2, NodeType DEF Inode
<1>5. op.in.raw.blk \notin NodeAt(old, d).owns /\ loc.blk \notin NodeAt(old, d).owns
  BY <1>1, MadeInOneBlock
<1>6. \A c \in BlockNums \ {loc.blk, op.in.raw.blk} : new.blk[c] = old.blk[c]
  BY <1>1 DEF WasMade, MadeBlocks, RecordAdded
<1>7. \A b \in NodeAt(old, d).owns : new.blk[b] = old.blk[b]
  BY <1>4, <1>5, <1>6
<1> QED BY <1>3, <1>7 DEF Entries

\* The directory's records.
LEMMA MadeHere ==
    ASSUME NEW old, NEW new, MadeClean(old, new)
    PROVE  LET b == op.in.raw.blk IN
           /\ NodeAt(old, op.in.num).owns = {b} /\ NodeAt(new, op.in.num).owns = {b}
           /\ b \in BlockNums /\ old.blk[b].ents \in Seq(Dirent)
           /\ WellFormed(new, new.blk[b].ents)
           /\ Entries(old, op.in.num) = {e \in ToSet(old.blk[b].ents) : e.ino # 0}
           /\ Entries(new, op.in.num) = {e \in ToSet(new.blk[b].ents) : e.ino # 0}
           /\ \E t : AddedAt(old.blk[b].ents, new.blk[b].ents, t)
           /\ \A i \in DOMAIN old.blk[b].ents :
                 old.blk[b].ents[i].ino # 0 => old.blk[b].ents[i].name # op.name
<1> DEFINE p == op.in.num
           b == op.in.raw.blk
           ents == old.blk[b].ents
           after == new.blk[b].ents
<1>1. WasMade(old, new) /\ FsckClean(old) /\ WholeNames(old) /\ NamesFit
  BY DEF MadeClean
<1>2. /\ NodeAt(old, p).owns = {b} /\ b \in BlockNums /\ p \in DirsOf(old) /\ p \in InUse(old)
      /\ old \in Image
  BY <1>1, MadeInOneBlock, MadeInUse DEF WasMade
<1>3. NodeAt(new, p).owns = {b}
  BY <1>1, <1>2, MadeInUse DEF SameButLinks
<1>4. ents \in Seq(Dirent)
  BY <1>2 DEF Image, Block
<1>5. /\ after = WithDirent(ents, loc.ino, op.name, MadeKind)
      /\ Len(ents) > 0
      /\ Last(ents).rec - UsedLen(Last(ents)) >= DirentLen(NameLen[op.name])
      /\ \A i \in DOMAIN ents : ~Named(ents[i], op.name)
      /\ new.csum = old.csum
      /\ loc.ino \in InodeNums /\ op.name \in Names /\ op.name \notin {Dot, DotDot}
  BY <1>1 DEF WasMade, MadeIn, MadeBlocks, RecordAdded, RoomFor, PathNames
<1>6. NameLen[op.name] % 256 = NameLen[op.name]
  <2>1. NameLen[op.name] \in Nat /\ NameLen[op.name] < 256
    BY <1>1, <1>5, NamesAssumption DEF NamesFit
  <2> QED BY <2>1, SMT
<1>7. WellFormed(old, ents)
  BY <1>1, <1>2 DEF FsckClean, DirectorySound, DirectoryBlockSound
<1>8. MadeKind \in {"dir", "file"}
  BY DEF MadeKind
<1>9. WellFormed(new, after)
  <2>1. WellFormed(old, after)
    BY <1>4, <1>5, <1>7, <1>8, WithDirentWellFormed
  <2> QED BY <1>5, <2>1, FormedSame
<1>10. \E t : AddedAt(ents, after, t)
  <2> HIDE DEF ents, after
  <2>1. PICK t \in Nat :
              /\ t \in {Len(ents), Len(ents) + 1} /\ t # 0 /\ DOMAIN after = 1 .. t
              /\ \A i \in 1 .. t - 1 : i \in DOMAIN ents /\ KeptRecord(after[i], ents[i])
              /\ \A i \in DOMAIN ents : i <= t - 1 \/ ents[i].ino = 0
              /\ after[t].ino = loc.ino /\ after[t].name = op.name /\ after[t].ftype = MadeKind
              /\ after[t].nlen = NameLen[op.name] % 256
              /\ after[t].rec >= DirentLen(NameLen[op.name])
    BY <1>4, <1>5, WithDirentRecords
  <2> QED BY <1>6, <2>1 DEF AddedAt
<1>11. ASSUME NEW i \in DOMAIN ents, ents[i].ino # 0, ents[i].name = op.name PROVE FALSE
  <2>1. ents[i] \in Entries(old, p)
    <3>1. ents[i] \in ToSet(ents)
      BY <1>11 DEF ToSet
    <3> HIDE DEF ents
    <3>2. ents[i] \in {e \in ToSet(ents) : e.ino # 0}
      BY <1>11, <3>1
    <3> QED BY <1>2, <3>2 DEF Entries, ents
  <2>2. ents[i] \in Children(old, p)
    BY <1>5, <1>11, <2>1 DEF Children
  <2>3. ents[i].nlen = NameLen[op.name]
    BY <1>1, <1>2, <1>11, <2>2 DEF WholeNames
  <2> QED BY <1>5, <1>11, <2>3 DEF Named
<1>12. Entries(old, p) = {e \in ToSet(ents) : e.ino # 0}
  BY <1>2 DEF Entries
<1>13. Entries(new, p) = {e \in ToSet(after) : e.ino # 0}
  BY <1>3 DEF Entries
<1> QED BY <1>2, <1>3, <1>4, <1>9, <1>10, <1>11, <1>12, <1>13

\* A record in use is kept.
LEMMA AddedKeeps ==
    ASSUME NEW ents \in Seq(Dirent), NEW after, NEW t, AddedAt(ents, after, t),
           NEW e \in ToSet(ents), e.ino # 0
    PROVE  \E f \in ToSet(after) : Alike(f, e) /\ f.ino # 0 /\ f.ftype = e.ftype
<1>1. PICK i \in DOMAIN ents : e = ents[i]
  BY DEF ToSet
<1>2. i \in 1 .. Len(ents) /\ Len(ents) \in Nat
  BY <1>1, LenProperties
<1>3. i \in 1 .. t - 1 /\ t \in Nat /\ DOMAIN after = 1 .. t
  BY <1>1, <1>2 DEF AddedAt
<1>4. KeptRecord(after[i], ents[i]) /\ i \in DOMAIN after
  BY <1>3 DEF AddedAt
<1>5. after[i] \in ToSet(after)
  BY <1>4 DEF ToSet
<1> QED BY <1>1, <1>4, <1>5 DEF KeptRecord, Alike

\* A record that is there was, or is the new one.
LEMMA AddedOrKept ==
    ASSUME NEW ents, NEW after, NEW t, AddedAt(ents, after, t), NEW f \in ToSet(after), f.ino # 0
    PROVE  \/ \E e \in ToSet(ents) : Alike(f, e) /\ e.ino # 0 /\ f.ftype = e.ftype
           \/ f.ino = loc.ino /\ f.name = op.name /\ f.nlen = NameLen[op.name]
<1>1. PICK i \in DOMAIN after : f = after[i]
  BY DEF ToSet
<1>2. t \in Nat /\ i \in 1 .. t
  BY <1>1 DEF AddedAt
<1>3. CASE i = t
  BY <1>1, <1>3 DEF AddedAt
<1>4. CASE i # t
  <2>1. i \in 1 .. t - 1
    BY <1>2, <1>4
  <2>2. i \in DOMAIN ents /\ KeptRecord(after[i], ents[i])
    BY <2>1 DEF AddedAt
  <2>3. ents[i] \in ToSet(ents)
    BY <2>2 DEF ToSet
  <2> QED BY <1>1, <2>2, <2>3 DEF KeptRecord, Alike
<1> QED BY <1>3, <1>4

\* The new one is there.
LEMMA AddedIs ==
    ASSUME NEW ents, NEW after, NEW t, AddedAt(ents, after, t)
    PROVE  after[t] \in ToSet(after)
<1>1. t \in DOMAIN after
  BY DEF AddedAt
<1> QED BY <1>1 DEF ToSet

\* No directory loses a record, and only one gains one.
LEMMA MadeEntries ==
    ASSUME NEW old, NEW new, MadeClean(old, new)
    PROVE  /\ \A d \in DirsOf(old) : \A e \in Entries(old, d) :
                 \E f \in Entries(new, d) : Alike(f, e) /\ f.ftype = e.ftype
           /\ \A d \in DirsOf(old) : \A f \in Entries(new, d) :
                 \/ \E e \in Entries(old, d) : Alike(f, e)
                 \/ /\ d = op.in.num
                    /\ f.ino = loc.ino /\ f.name = op.name /\ f.nlen = NameLen[op.name]
           /\ \E f \in Entries(new, op.in.num) : f.ino = loc.ino /\ f.name = op.name
           /\ \A e \in Entries(old, op.in.num) : e.name # op.name
<1> DEFINE p == op.in.num
           ents == old.blk[op.in.raw.blk].ents
           after == new.blk[op.in.raw.blk].ents
<1>1. /\ ents \in Seq(Dirent)
      /\ Entries(old, p) = {e \in ToSet(ents) : e.ino # 0}
      /\ Entries(new, p) = {e \in ToSet(after) : e.ino # 0}
      /\ \A i \in DOMAIN ents : ents[i].ino # 0 => ents[i].name # op.name
  BY MadeHere
<1>2. PICK t : AddedAt(ents, after, t)
  BY MadeHere
<1>3. loc.ino # 0
  BY DEF MadeClean, WasMade, MadeIn, InodeNums
<1> HIDE DEF ents, after, p
<1>4. \A e \in Entries(old, p) :
         \E f \in Entries(new, p) : Alike(f, e) /\ f.ftype = e.ftype
  BY <1>1, <1>2, AddedKeeps
<1>5. \A f \in Entries(new, p) :
         \/ \E e \in Entries(old, p) : Alike(f, e)
         \/ f.ino = loc.ino /\ f.name = op.name /\ f.nlen = NameLen[op.name]
  BY <1>1, <1>2, AddedOrKept
<1>6. after[t] \in Entries(new, p) /\ after[t].ino = loc.ino /\ after[t].name = op.name
  <2>1. after[t].ino = loc.ino /\ after[t].name = op.name
    BY <1>2 DEF AddedAt
  <2> QED BY <1>1, <1>2, <1>3, <2>1, AddedIs
<1>7. \A e \in Entries(old, p) : e.name # op.name
  BY <1>1 DEF ToSet
<1>8. \A d \in DirsOf(old) \ {p} : Entries(new, d) = Entries(old, d)
  BY MadeElsewhere DEF p
<1>9. \A e : Alike(e, e)
  BY DEF Alike
<1>10. \A d \in DirsOf(old) : \A e \in Entries(old, d) :
          \E f \in Entries(new, d) : Alike(f, e) /\ f.ftype = e.ftype
  BY <1>4, <1>8, <1>9
<1>11. \A d \in DirsOf(old) : \A f \in Entries(new, d) :
          \/ \E e \in Entries(old, d) : Alike(f, e)
          \/ d = p /\ f.ino = loc.ino /\ f.name = op.name /\ f.nlen = NameLen[op.name]
  BY <1>5, <1>8, <1>9
<1> QED BY <1>6, <1>7, <1>10, <1>11 DEF p

\* What is in the directory made.
LEMMA MadeNewEntries ==
    ASSUME NEW old, NEW new, MadeClean(old, new), MakesDir
    PROVE  LET ents == NewDirBlock(new, loc.ino, op.in.num).ents IN
           /\ NodeAt(new, loc.ino).owns = {loc.blk} /\ new.blk[loc.blk].ents = ents
           /\ WellFormed(new, ents)
           /\ DOMAIN ents = {1, 2} /\ ents[1].ino = loc.ino /\ ents[2].ino = op.in.num
           /\ ents[1].name = Dot /\ ents[2].name = DotDot
           /\ ents[1].nlen = 1 /\ ents[2].nlen = 2
           /\ ents[1].ftype = "dir" /\ ents[2].ftype = "dir"
           /\ ents[1].rec >= DirentLen(1) /\ ents[2].rec >= DirentLen(2)
           /\ Entries(new, loc.ino) = {ents[1], ents[2]}
<1> DEFINE ents == NewDirBlock(new, loc.ino, op.in.num).ents
<1>1. /\ WasMade(old, new) /\ loc.ino \in InodeNums /\ op.in.num \in InodeNums
      /\ NodeAt(new, loc.ino).owns = {loc.blk} /\ new.blk[loc.blk].ents = ents
  BY MadeInUse DEF MadeClean, WasMade, MadeIn, MadeNodes, MadeBlocks, DirsOf, InUse
<1>2. WellFormed(new, ents)
  BY <1>1, NewDirBlockWellFormed
<1>3. /\ DOMAIN ents = {1, 2} /\ ents[1].ino = loc.ino /\ ents[2].ino = op.in.num
      /\ ents[1].name = Dot /\ ents[2].name = DotDot
      /\ ents[1].nlen = 1 /\ ents[2].nlen = 2
      /\ ents[1].ftype = "dir" /\ ents[2].ftype = "dir"
      /\ ents[1].rec = 12 /\ ents[2].rec = Limit(new) - 12
  BY DEF NewDirBlock
<1>4. Limit(new) - 12 >= 12 /\ DirentLen(1) = 12 /\ DirentLen(2) = 12
  <2>1. Limit(new) \in Nat /\ Limit(new) > 24
    BY GeometryAssumption DEF Limit, DirentTail
  <2>2. DirentLen(1) = 12 /\ DirentLen(2) = 12
    BY SMT DEF DirentLen
  <2> QED BY <2>1, <2>2
<1>5. loc.ino # 0 /\ op.in.num # 0
  BY <1>1 DEF InodeNums
<1> HIDE DEF ents
<1>6. ToSet(ents) = {ents[1], ents[2]}
  BY <1>3 DEF ToSet
<1>7. Entries(new, loc.ino) = {e \in ToSet(ents) : e.ino # 0}
  BY <1>1 DEF Entries
<1>8. Entries(new, loc.ino) = {ents[1], ents[2]}
  BY <1>3, <1>5, <1>6, <1>7
<1> QED BY <1>1, <1>2, <1>3, <1>4, <1>8 DEF ents
-----------------------------------------------------------------------------
(* Directories are sound after something was made.                         *)

\* A record that was sound still is.
LEMMA RecordSoundStill ==
    ASSUME NEW old, NEW new, WasMade(old, new), NEW n \in InUse(old)
    PROVE  n \in InUse(new) /\ NodeAt(new, n).kind = NodeAt(old, n).kind
  BY MadeInUse DEF SameButLinks

\* "." and ".." lead where they did.
LEMMA DotsStill ==
    ASSUME NEW old, NEW new, MadeClean(old, new), NEW d \in DirsOf(old)
    PROVE  /\ \E e \in Entries(new, d) : e.name = Dot /\ e.ino = d
           /\ \E e \in Entries(new, d) :
                 /\ e.name = DotDot /\ e.ino \in DirsOf(new)
                 /\ \E f \in Entries(new, e.ino) :
                       f.ino = d /\ (f.name \notin {Dot, DotDot} \/ d = RootIno)
<1>1. DirectorySound(old, d) /\ WasMade(old, new)
  BY DEF MadeClean, FsckClean
<1>2. PICK e \in Entries(old, d) : e.name = Dot /\ e.ino = d
  BY <1>1 DEF DirectorySound
<1>3. PICK e2 \in Entries(new, d) : Alike(e2, e)
  BY MadeEntries
<1>4. PICK u \in Entries(old, d) :
          /\ u.name = DotDot /\ u.ino \in DirsOf(old)
          /\ \E f \in Entries(old, u.ino) :
                f.ino = d /\ (f.name \notin {Dot, DotDot} \/ d = RootIno)
  BY <1>1 DEF DirectorySound
<1>5. PICK u2 \in Entries(new, d) : Alike(u2, u)
  BY MadeEntries
<1>6. PICK f \in Entries(old, u.ino) :
          f.ino = d /\ (f.name \notin {Dot, DotDot} \/ d = RootIno)
  BY <1>4
<1>7. PICK f2 \in Entries(new, u.ino) : Alike(f2, f)
  BY <1>4, <1>6, MadeEntries
<1>8. u.ino \in DirsOf(new)
  BY <1>1, <1>4, MadeInUse
<1> QED BY <1>2, <1>3, <1>4, <1>5, <1>6, <1>7, <1>8 DEF Alike

\* Another directory.
LEMMA SoundElsewhere ==
    ASSUME NEW old, NEW new, MadeClean(old, new), NEW d \in DirsOf(old), d # op.in.num
    PROVE  DirectorySound(new, d)
<1>1. DirectorySound(old, d) /\ WasMade(old, new) /\ new.csum = old.csum
  BY DEF MadeClean, FsckClean, WasMade
<1>2. /\ NodeAt(new, d).owns = NodeAt(old, d).owns
      /\ \A b \in NodeAt(old, d).owns : new.blk[b] = old.blk[b]
  BY MadeElsewhere
<1>3. ASSUME NEW b \in NodeAt(new, d).owns PROVE DirectoryBlockSound(new, b, d)
  <2>1. DirectoryBlockSound(old, b, d) /\ new.blk[b] = old.blk[b]
    BY <1>1, <1>2 DEF DirectorySound
  <2>2. WellFormed(new, new.blk[b].ents)
    BY <1>1, <2>1, FormedSame DEF DirectoryBlockSound
  <2> QED BY <1>1, <2>1, <2>2, RecordSoundStill DEF DirectoryBlockSound
<1>4. NamesUnique(new, d)
  BY <1>1, <1>2 DEF DirectorySound, NamesUnique
<1> QED BY <1>3, <1>4, DotsStill DEF DirectorySound

\* The directory that has one more record.
LEMMA SoundHere ==
    ASSUME NEW old, NEW new, MadeClean(old, new)
    PROVE  DirectorySound(new, op.in.num)
<1> DEFINE p == op.in.num
           b == op.in.raw.blk
           ents == old.blk[b].ents
           after == new.blk[b].ents
<1>1. /\ WasMade(old, new) /\ FsckClean(old) /\ p \in DirsOf(old)
      /\ loc.ino \in InUse(new) /\ NodeAt(new, loc.ino).kind = MadeKind
      /\ op.name \in Names
  BY MadeInUse DEF MadeClean, WasMade, MadeIn, MadeNodes, PathNames
<1>2. /\ NodeAt(old, p).owns = {b} /\ NodeAt(new, p).owns = {b}
      /\ WellFormed(new, after) /\ ents \in Seq(Dirent)
      /\ \A i \in DOMAIN ents : ents[i].ino # 0 => ents[i].name # op.name
  BY MadeHere
<1>3. PICK t : AddedAt(ents, after, t)
  BY MadeHere
<1>4. NameLen[op.name] > 0
  BY <1>1, NamesAssumption
<1>5. DirectoryBlockSound(old, b, p) /\ NamesUnique(old, p)
  BY <1>1, <1>2 DEF FsckClean, DirectorySound
<1>6. /\ t \in Nat /\ DOMAIN after = 1 .. t
      /\ \A i \in 1 .. t - 1 : i \in DOMAIN ents /\ KeptRecord(after[i], ents[i])
      /\ after[t].ino = loc.ino /\ after[t].name = op.name /\ after[t].ftype = MadeKind
      /\ after[t].nlen = NameLen[op.name] /\ after[t].rec >= DirentLen(NameLen[op.name])
  BY <1>3 DEF AddedAt
<1>7. /\ \A i \in DOMAIN ents :
            ents[i].ino # 0 =>
                /\ ents[i].rec >= DirentLen(ents[i].nlen)
                /\ ents[i].nlen > 0
                /\ ents[i].ino \in InUse(old)
                /\ NodeAt(old, ents[i].ino).kind = ents[i].ftype
      /\ \A i \in DOMAIN ents, j \in DOMAIN ents :
            ents[i].ino # 0 /\ ents[j].ino # 0 /\ ents[i].name = ents[j].name => i = j
  BY <1>2, <1>5 DEF DirectoryBlockSound, NamesUnique
<1> HIDE DEF ents, after
<1>8. \A i \in DOMAIN after : i = t \/ i \in 1 .. t - 1
  BY <1>6
<1>9. ASSUME NEW i \in 1 .. t - 1, after[i].ino # 0
      PROVE  /\ i \in DOMAIN ents /\ ents[i].ino # 0 /\ Alike(after[i], ents[i])
             /\ after[i].rec >= DirentLen(after[i].nlen) /\ after[i].nlen > 0
             /\ after[i].ino \in InUse(new)
             /\ NodeAt(new, after[i].ino).kind = after[i].ftype
  <2>1. /\ i \in DOMAIN ents /\ Alike(after[i], ents[i]) /\ after[i].ftype = ents[i].ftype
        /\ after[i].rec = ents[i].rec \/ after[i].rec = DirentLen(ents[i].nlen)
    BY <1>6 DEF KeptRecord
  <2>2. ents[i].ino # 0 /\ after[i].ino = ents[i].ino /\ after[i].nlen = ents[i].nlen
    BY <1>9, <2>1 DEF Alike
  <2>3. /\ ents[i].rec >= DirentLen(ents[i].nlen) /\ ents[i].nlen > 0
        /\ ents[i].ino \in InUse(old) /\ NodeAt(old, ents[i].ino).kind = ents[i].ftype
    BY <1>7, <2>1, <2>2
  <2>4. ents[i].nlen \in Nat
    BY <1>2, <2>1, ElementOfSeq, LenProperties, DirentFields
  <2>5. DirentLen(ents[i].nlen) \in Nat
    BY <2>4, DirentLenRoom
  <2>6. after[i].rec >= DirentLen(ents[i].nlen)
    BY <2>1, <2>3, <2>5
  <2> QED BY <1>1, <2>1, <2>2, <2>3, <2>6, RecordSoundStill
<1>10. DirectoryBlockSound(new, b, p)
  <2>1. ASSUME NEW i \in DOMAIN after, after[i].ino # 0
        PROVE  /\ after[i].rec >= DirentLen(after[i].nlen) /\ after[i].nlen > 0
               /\ after[i].ino \in InUse(new)
               /\ NodeAt(new, after[i].ino).kind = after[i].ftype
    <3>1. CASE i = t
      BY <1>1, <1>4, <1>6, <3>1
    <3>2. CASE i # t
      BY <1>8, <1>9, <2>1, <3>2
    <3> QED BY <3>1, <3>2
  <2> QED BY <1>2, <2>1 DEF DirectoryBlockSound, after
<1>11. ASSUME NEW i \in DOMAIN after, NEW j \in DOMAIN after, after[i].ino # 0, after[j].ino # 0,
              after[i].name = after[j].name
       PROVE  i = j
  <2>1. ASSUME NEW k \in 1 .. t - 1, after[k].ino # 0 PROVE after[k].name # op.name
    <3>1. k \in DOMAIN ents /\ ents[k].ino # 0 /\ after[k].name = ents[k].name
      BY <1>9, <2>1 DEF Alike
    <3> QED BY <1>2, <3>1 DEF ents
  <2>2. CASE i = t \/ j = t
    BY <1>6, <1>8, <1>11, <2>1, <2>2
  <2>3. CASE i # t /\ j # t
    <3>1. i \in 1 .. t - 1 /\ j \in 1 .. t - 1
      BY <1>8, <2>3
    <3>2. /\ i \in DOMAIN ents /\ ents[i].ino # 0 /\ after[i].name = ents[i].name
          /\ j \in DOMAIN ents /\ ents[j].ino # 0 /\ after[j].name = ents[j].name
      BY <1>9, <1>11, <3>1 DEF Alike
    <3> QED BY <1>7, <1>11, <3>2
  <2> QED BY <2>2, <2>3
<1>12. NamesUnique(new, p)
  BY <1>2, <1>11 DEF NamesUnique, after
<1> QED BY <1>1, <1>2, <1>10, <1>12, DotsStill DEF DirectorySound

\* The directory made.
LEMMA SoundThere ==
    ASSUME NEW old, NEW new, MadeClean(old, new), MakesDir
    PROVE  DirectorySound(new, loc.ino)
<1> DEFINE p == op.in.num
           n == loc.ino
           ents == NewDirBlock(new, n, p).ents
<1>1. /\ NodeAt(new, n).owns = {loc.blk} /\ new.blk[loc.blk].ents = ents
      /\ WellFormed(new, ents)
      /\ DOMAIN ents = {1, 2} /\ ents[1].ino = n /\ ents[2].ino = p
      /\ ents[1].name = Dot /\ ents[2].name = DotDot
      /\ ents[1].nlen = 1 /\ ents[2].nlen = 2
      /\ ents[1].ftype = "dir" /\ ents[2].ftype = "dir"
      /\ ents[1].rec >= DirentLen(1) /\ ents[2].rec >= DirentLen(2)
      /\ Entries(new, n) = {ents[1], ents[2]}
  BY MadeNewEntries
<1>2. WasMade(old, new) /\ op.name \notin {Dot, DotDot}
  BY DEF MadeClean, WasMade, MadeIn, PathNames
<1>3. /\ n \in DirsOf(new) /\ p \in DirsOf(new)
  BY <1>2, MadeInUse
<1>4. PICK f \in Entries(new, p) : f.ino = n /\ f.name = op.name
  BY MadeEntries
<1> HIDE DEF ents
<1>5. Dot # DotDot
  BY DEF Dot, DotDot
<1>6. DirectoryBlockSound(new, loc.blk, n)
  <2>1. n \in InUse(new) /\ NodeAt(new, n).kind = "dir" /\ p \in InUse(new) /\ NodeAt(new, p).kind = "dir"
    BY <1>3 DEF DirsOf
  <2> QED BY <1>1, <2>1 DEF DirectoryBlockSound
<1>7. NamesUnique(new, n)
  BY <1>1, <1>5 DEF NamesUnique
<1> QED BY <1>1, <1>2, <1>3, <1>4, <1>6, <1>7 DEF DirectorySound

\* All of them.
LEMMA MadeSound ==
    ASSUME NEW old, NEW new, MadeClean(old, new)
    PROVE  \A d \in DirsOf(new) : DirectorySound(new, d)
<1>1. WasMade(old, new)
  BY DEF MadeClean
<1>2. DirsOf(new) = DirsOf(old) \cup (IF MakesDir THEN {loc.ino} ELSE {})
  BY <1>1, MadeInUse
<1> QED BY <1>2, SoundElsewhere, SoundHere, SoundThere

\* What has a path keeps it, and what was made has one.
LEMMA MadeAttached ==
    ASSUME NEW old, NEW new, MadeClean(old, new), Good(old), Good(new)
    PROVE  Reachable(old) \subseteq Reachable(new) /\ EveryInodeAttached(new)
<1>1. /\ WasMade(old, new) /\ InUse(old) \subseteq Reachable(old)
      /\ op.name \notin {Dot, DotDot} /\ op.in.num \in Reachable(old)
  BY DEF MadeClean, FsckClean, EveryInodeAttached, WasMade, MadeIn, PathNames
<1>2. \A d \in DirsOf(old) : NamesKeptIn(old, new, d)
  <2>1. DirsOf(old) \subseteq DirsOf(new)
    BY <1>1, MadeInUse
  <2> QED BY <2>1, MadeEntries DEF NamesKeptIn, Alike
<1>3. Reachable(old) \subseteq Reachable(new)
  BY <1>2, ReachableGrows
<1>4. loc.ino \in Reachable(new)
  <2>1. PICK f \in Entries(new, op.in.num) : f.ino = loc.ino /\ f.name = op.name
    BY MadeEntries
  <2>2. f \in Children(new, op.in.num)
    BY <1>1, <2>1 DEF Children
  <2>3. op.in.num \in DirsOf(new)
    BY <1>1, MadeInUse
  <2> QED BY <1>1, <1>3, <2>1, <2>2, <2>3, ReachableOn
<1>5. InUse(new) = InUse(old) \cup {loc.ino}
  BY <1>1, MadeInUse
<1> QED BY <1>1, <1>3, <1>4, <1>5 DEF EveryInodeAttached
-----------------------------------------------------------------------------
(* Links.                                                                  *)

\* How often a directory names an inode.
NamedBy(img, d, m) == {e \in Entries(img, d) : e.ino = m}
PerDir(img, m) == [d \in DirsOf(img) |-> Cardinality(NamedBy(img, d, m))]

\* The records of a directory are finitely many.
LEMMA EntriesFinite ==
    ASSUME NEW img \in Image, NEW d \in DirsOf(img), NEW m
    PROVE  IsFiniteSet(NamedBy(img, d, m)) /\ Cardinality(NamedBy(img, d, m)) \in Nat
<1> DEFINE O == NodeAt(img, d).owns
           E(b) == {e \in ToSet(img.blk[b].ents) : e.ino # 0}
           f == [b \in O |-> E(b)]
           S == {f[b] : b \in O}
<1>1. O \subseteq BlockNums
  BY NodeType DEF DirsOf, InUse, Inode
<1>2. IsFiniteSet(O)
  <2>1. /\ FirstDataBlock \in Int
        /\ FirstDataBlock + NumGroups * BlocksPerGroup - 1 \in Int
    BY GeometryAssumption
  <2>2. IsFiniteSet(BlockNums)
    BY <2>1, FS_Interval DEF BlockNums
  <2> HIDE DEF O
  <2> QED BY <1>1, <2>2, FS_Subset
<1>3. ASSUME NEW b \in O PROVE IsFiniteSet(E(b))
  <2> DEFINE ents == img.blk[b].ents
  <2>1. ents \in Seq(Dirent)
    BY <1>1 DEF Image, Block
  <2> HIDE DEF ents
  <2>2. Len(ents) \in Nat /\ DOMAIN ents = 1 .. Len(ents)
    BY <2>1, LenProperties
  <2> DEFINE g == [i \in 1 .. Len(ents) |-> ents[i]]
  <2>3. g \in Surjection(1 .. Len(ents), ToSet(ents))
    <3>1. g \in [1 .. Len(ents) -> ToSet(ents)]
      BY <2>2 DEF ToSet
    <3>2. \A t \in ToSet(ents) : \E i \in 1 .. Len(ents) : g[i] = t
      BY <2>2 DEF ToSet
    <3> QED BY <3>1, <3>2, Fun_IsSurj
  <2> HIDE DEF g
  <2>4. IsFiniteSet(1 .. Len(ents))
    BY <2>2, FS_Interval
  <2>5. IsFiniteSet(ToSet(ents))
    BY <2>3, <2>4, FS_Surjection
  <2>6. E(b) \subseteq ToSet(ents)
    BY DEF ents
  <2> HIDE DEF E
  <2> QED BY <2>5, <2>6, FS_Subset
<1>4. IsFiniteSet(S)
  <2>1. f \in Surjection(O, S)
    <3> HIDE DEF O, E
    <3>1. f \in [O -> S] /\ \A t \in S : \E b \in O : f[b] = t
      OBVIOUS
    <3> HIDE DEF f, S
    <3> QED BY <3>1, Fun_IsSurj
  <2> HIDE DEF f, S, O
  <2> QED BY <1>2, <2>1, FS_Surjection
<1>5. \A T \in S : IsFiniteSet(T)
  BY <1>3
<1>6. Entries(img, d) = UNION S
  <2>1. \A b \in O : f[b] = E(b)
    OBVIOUS
  <2>2. S = {E(b) : b \in O}
    BY <2>1
  <2> QED BY <2>2 DEF Entries
<1> HIDE DEF S
<1>7. IsFiniteSet(Entries(img, d))
  BY <1>4, <1>5, <1>6, FS_UNION
<1>8. NamedBy(img, d, m) \subseteq Entries(img, d)
  BY DEF NamedBy
<1>9. IsFiniteSet(NamedBy(img, d, m))
  BY <1>7, <1>8, FS_Subset
<1> QED BY <1>9, FS_CardinalityType

\* NamesOf is a sum.
LEMMA NamesOfIs ==
    ASSUME NEW img \in Image, NEW m
    PROVE  /\ PerDir(img, m) \in [DirsOf(img) -> Nat]
           /\ \E f : /\ Adds(f, PerDir(img, m), DirsOf(img), AnyOf(DirsOf(img)))
                     /\ NamesOf(img, m) = f[DirsOf(img)]
<1> DEFINE D == DirsOf(img)
           iter[s \in SUBSET D] ==
              IF s = {} THEN 0
              ELSE LET x == CHOOSE x \in s : TRUE
                   IN  Cardinality({e \in Entries(img, x) : e.ino = m}) + iter[s \ {x}]
           Eq(f) == f = [s \in SUBSET D |->
              IF s = {} THEN 0
              ELSE LET x == CHOOSE x \in s : TRUE
                   IN  Cardinality({e \in Entries(img, x) : e.ino = m}) + f[s \ {x}]]
<1>0. PerDir(img, m) \in [D -> Nat]
  BY EntriesFinite DEF PerDir
<1>1. NamesOf(img, m) = iter[D]
  BY DEF NamesOf, MapThenSumSet, MapThenFoldSet
<1>2. ASSUME NEW f PROVE Eq(f) <=> Adds(f, PerDir(img, m), D, AnyOf(D))
  <2>1. ASSUME NEW s \in SUBSET D
        PROVE  (IF s = {} THEN 0
                ELSE LET x == CHOOSE x \in s : TRUE
                     IN  Cardinality({e \in Entries(img, x) : e.ino = m}) + f[s \ {x}])
               = (IF s = {} THEN 0 ELSE PerDir(img, m)[AnyOf(D)[s]] + f[Less(AnyOf(D), s)])
    <3>1. s # {} => AnyOf(D)[s] \in D
      BY LessIn, AnyOfChooses
    <3>2. s # {} => PerDir(img, m)[AnyOf(D)[s]]
                    = Cardinality({e \in Entries(img, AnyOf(D)[s]) : e.ino = m})
      BY <3>1 DEF PerDir, NamedBy
    <3> HIDE DEF D
    <3> QED BY <3>2 DEF AnyOf, Less
  <2> QED BY <2>1 DEF Adds
<1>3. \E f : Eq(f)
  <2>1. \E f : Adds(f, PerDir(img, m), D, AnyOf(D))
    BY <1>0, DirsFinite, AddsExists, AnyOfChooses
  <2> HIDE DEF Eq
  <2> QED BY <1>2, <2>1
<1>4. iter = CHOOSE f : Eq(f)
  OBVIOUS
<1>5. Eq(iter)
  <2> HIDE DEF Eq, iter
  <2> QED BY <1>3, <1>4
<1> HIDE DEF Eq, iter
<1> QED BY <1>0, <1>1, <1>2, <1>5

\* Records in use of one name are one.
LEMMA UniqueByName ==
    ASSUME NEW img, NEW d, NamesUnique(img, d), NEW e \in Entries(img, d), NEW f \in Entries(img, d),
           e.name = f.name
    PROVE  e = f
<1>1. PICK b \in NodeAt(img, d).owns : e \in ToSet(img.blk[b].ents) /\ e.ino # 0
  BY DEF Entries
<1>2. PICK c \in NodeAt(img, d).owns : f \in ToSet(img.blk[c].ents) /\ f.ino # 0
  BY DEF Entries
<1>3. PICK i \in DOMAIN img.blk[b].ents : e = img.blk[b].ents[i]
  BY <1>1 DEF ToSet
<1>4. PICK j \in DOMAIN img.blk[c].ents : f = img.blk[c].ents[j]
  BY <1>2 DEF ToSet
<1>5. b = c /\ i = j
  BY <1>1, <1>2, <1>3, <1>4 DEF NamesUnique
<1> QED BY <1>3, <1>4, <1>5

\* Sets of records alike in name have as many.
LEMMA SameByName ==
    ASSUME NEW A, NEW B, IsFiniteSet(A),
           \A e \in A : \E f \in B : f.name = e.name,
           \A f \in B : \E e \in A : e.name = f.name,
           \A e, f \in A : e.name = f.name => e = f,
           \A e, f \in B : e.name = f.name => e = f
    PROVE  Cardinality(B) = Cardinality(A)
<1> DEFINE g == [e \in A |-> CHOOSE f \in B : f.name = e.name]
<1>1. \A e \in A : g[e] \in B /\ g[e].name = e.name
  OBVIOUS
<1>2. g \in [A -> B]
  BY <1>1
<1> HIDE DEF g
<1>3. \A a, b \in A : g[a] = g[b] => a = b
  BY <1>1
<1>4. \A t \in B : \E s \in A : g[s] = t
  BY <1>1
<1>5. g \in Bijection(A, B)
  BY <1>2, <1>3, <1>4, Fun_IsBij
<1>6. ExistsBijection(A, B)
  BY <1>5 DEF ExistsBijection
<1> QED BY <1>6, FS_Bijection
-----------------------------------------------------------------------------
(* The links of inodes after something was made.                           *)

\* What a directory names an old inode by.
LEMMA LinkedStill ==
    ASSUME NEW old, NEW new, MadeClean(old, new), NEW d \in DirsOf(old), NEW m, m # loc.ino
    PROVE  Cardinality(NamedBy(new, d, m)) = Cardinality(NamedBy(old, d, m))
<1> DEFINE A == NamedBy(old, d, m)
           B == NamedBy(new, d, m)
<1>1. /\ WasMade(old, new) /\ FsckClean(old) /\ old \in Image
      /\ d \in DirsOf(new)
  BY MadeInUse DEF MadeClean, WasMade
<1>2. IsFiniteSet(A)
  BY <1>1, EntriesFinite
<1>3. \A e \in A : \E f \in B : f.name = e.name
  <2> SUFFICES ASSUME NEW e \in A PROVE \E f \in B : f.name = e.name
    OBVIOUS
  <2>1. e \in Entries(old, d) /\ e.ino = m
    BY DEF NamedBy
  <2>2. PICK f \in Entries(new, d) : Alike(f, e)
    BY <2>1, MadeEntries
  <2> QED BY <2>1, <2>2 DEF Alike, NamedBy
<1>4. \A f \in B : \E e \in A : e.name = f.name
  <2> SUFFICES ASSUME NEW f \in B PROVE \E e \in A : e.name = f.name
    OBVIOUS
  <2>1. f \in Entries(new, d) /\ f.ino = m
    BY DEF NamedBy
  <2>2. PICK e \in Entries(old, d) : Alike(f, e)
    BY <2>1, MadeEntries
  <2> QED BY <2>1, <2>2 DEF Alike, NamedBy
<1>5. NamesUnique(old, d) /\ NamesUnique(new, d)
  BY <1>1, MadeSound DEF FsckClean, DirectorySound
<1>6. \A e, f \in A : e.name = f.name => e = f
  BY <1>5, UniqueByName DEF NamedBy
<1>7. \A e, f \in B : e.name = f.name => e = f
  BY <1>5, UniqueByName DEF NamedBy
<1> HIDE DEF A, B
<1>8. Cardinality(B) = Cardinality(A)
  BY <1>2, <1>3, <1>4, <1>6, <1>7, SameByName
<1> QED BY <1>8 DEF A, B

\* Nothing named the new inode.
LEMMA UnlinkedBefore ==
    ASSUME NEW old, NEW new, MadeClean(old, new), Good(old), NEW d \in DirsOf(old)
    PROVE  NamedBy(old, d, loc.ino) = {} /\ Cardinality(NamedBy(old, d, loc.ino)) = 0
<1>1. loc.ino \notin InUse(old)
  BY MadeInUse DEF MadeClean
<1>2. NamedBy(old, d, loc.ino) = {}
  BY <1>1, EntriesType DEF NamedBy
<1> QED BY <1>2, FS_EmptySet

\* The directory names it once.
LEMMA LinkedHere ==
    ASSUME NEW old, NEW new, MadeClean(old, new), Good(old), NEW d \in DirsOf(old)
    PROVE  Cardinality(NamedBy(new, d, loc.ino)) = IF d = op.in.num THEN 1 ELSE 0
<1>1. WasMade(old, new) /\ d \in DirsOf(new) /\ loc.ino \notin InUse(old)
  BY MadeInUse DEF MadeClean
<1>2. ASSUME NEW f \in NamedBy(new, d, loc.ino)
      PROVE  d = op.in.num /\ f \in Entries(new, d) /\ f.name = op.name
  <2>1. f \in Entries(new, d) /\ f.ino = loc.ino
    BY DEF NamedBy
  <2>2. ~(\E e \in Entries(old, d) : Alike(f, e))
    BY <1>1, <2>1, EntriesType DEF Alike
  <2> QED BY <2>1, <2>2, MadeEntries
<1>3. CASE d # op.in.num
  <2>1. NamedBy(new, d, loc.ino) = {}
    BY <1>2, <1>3
  <2> QED BY <1>3, <2>1, FS_EmptySet
<1>4. CASE d = op.in.num
  <2>1. PICK g \in Entries(new, d) : g.ino = loc.ino /\ g.name = op.name
    BY <1>4, MadeEntries
  <2>2. NamesUnique(new, d)
    BY <1>1, MadeSound DEF DirectorySound
  <2>3. NamedBy(new, d, loc.ino) = {g}
    <3>1. g \in NamedBy(new, d, loc.ino)
      BY <2>1 DEF NamedBy
    <3>2. \A f \in NamedBy(new, d, loc.ino) : f = g
      BY <1>2, <2>1, <2>2, UniqueByName
    <3> QED BY <3>1, <3>2
  <2> QED BY <1>4, <2>3, FS_Singleton
<1> QED BY <1>3, <1>4

\* A directory made names itself and the directory it is in.
LEMMA LinkedThere ==
    ASSUME NEW old, NEW new, MadeClean(old, new), MakesDir, NEW m
    PROVE  Cardinality(NamedBy(new, loc.ino, m)) = IF m \in {loc.ino, op.in.num} THEN 1 ELSE 0
<1> DEFINE ents == NewDirBlock(new, loc.ino, op.in.num).ents
<1>1. /\ ents[1].ino = loc.ino /\ ents[2].ino = op.in.num
      /\ Entries(new, loc.ino) = {ents[1], ents[2]}
  BY MadeNewEntries
<1>2. loc.ino # op.in.num
  BY DEF MadeClean, WasMade, MadeIn
<1> HIDE DEF ents
<1>3. CASE m = loc.ino
  <2>1. NamedBy(new, loc.ino, m) = {ents[1]}
    BY <1>1, <1>2, <1>3 DEF NamedBy
  <2> QED BY <1>3, <2>1, FS_Singleton
<1>4. CASE m = op.in.num
  <2>1. NamedBy(new, loc.ino, m) = {ents[2]}
    BY <1>1, <1>2, <1>4 DEF NamedBy
  <2> QED BY <1>4, <2>1, FS_Singleton
<1>5. CASE m \notin {loc.ino, op.in.num}
  <2>1. NamedBy(new, loc.ino, m) = {}
    BY <1>1, <1>5 DEF NamedBy
  <2> QED BY <1>5, <2>1, FS_EmptySet
<1> QED BY <1>3, <1>4, <1>5

\* The names of an inode in all directories.
LEMMA LinksMade ==
    ASSUME NEW old, NEW new, MadeClean(old, new), NEW m,
           \A d \in DirsOf(old) \ {op.in.num} :
              Cardinality(NamedBy(new, d, m)) = Cardinality(NamedBy(old, d, m))
    PROVE  /\ NamesOf(new, m) \in Nat /\ NamesOf(old, m) \in Nat
           /\ NamesOf(new, m) + Cardinality(NamedBy(old, op.in.num, m))
                = NamesOf(old, m) + Cardinality(NamedBy(new, op.in.num, m))
                  + (IF MakesDir THEN Cardinality(NamedBy(new, loc.ino, m)) ELSE 0)
<1> DEFINE G == DirsOf(old)
           H == DirsOf(new)
           p == op.in.num
           n == loc.ino
           v == PerDir(old, m)
           w == PerDir(new, m)
<1>1. /\ WasMade(old, new) /\ old \in Image /\ new \in Image /\ p \in G
      /\ H = G \cup (IF MakesDir THEN {n} ELSE {}) /\ n \notin G
  BY MadeInUse DEF MadeClean, WasMade, DirsOf
<1>2. PICK f : Adds(f, v, G, AnyOf(G)) /\ NamesOf(old, m) = f[G]
  BY <1>1, NamesOfIs
<1>3. PICK h : Adds(h, w, H, AnyOf(H)) /\ NamesOf(new, m) = h[H]
  BY <1>1, NamesOfIs
<1>4. v \in [G -> Nat] /\ w \in [H -> Nat]
  BY <1>1, NamesOfIs
<1>5. /\ \A d \in G : v[d] = Cardinality(NamedBy(old, d, m))
      /\ \A d \in H : w[d] = Cardinality(NamedBy(new, d, m))
  BY DEF PerDir
<1>6. IsFiniteSet(G) /\ IsFiniteSet(H) /\ Chooses(AnyOf(G), G) /\ Chooses(AnyOf(H), H)
  BY DirsFinite, AnyOfChooses
<1>7. G \subseteq H /\ \A s \in SUBSET G : s # {} => AnyOf(H)[s] = AnyOf(G)[s]
  <2>1. G \subseteq H
    BY <1>1
  <2> HIDE DEF G, H
  <2> QED BY <2>1 DEF AnyOf
<1> HIDE DEF v, w, G, H
<1>8. \A d \in G \ {p} : w[d] = v[d]
  <2>1. \A d \in G \ {p} : Cardinality(NamedBy(new, d, m)) = Cardinality(NamedBy(old, d, m))
    BY DEF G
  <2> QED BY <1>5, <1>7, <2>1
<1>9. /\ v[p] = Cardinality(NamedBy(old, p, m)) /\ w[p] = Cardinality(NamedBy(new, p, m))
      /\ v[p] \in Nat /\ w[p] \in Nat
  BY <1>1, <1>4, <1>5, <1>7
<1>10. f[G] \in Nat /\ h[H] \in Nat
  BY <1>2, <1>3, <1>4, <1>6, AddsType
<1>11. CASE MakesDir
  <2>1. H = G \cup {n} /\ n \in H
    BY <1>1, <1>11
  <2>2. h[H] + v[p] = f[G] + w[p] + w[n]
    <3>1. p \in G /\ n \notin G /\ H = G \cup {n}
      BY <1>1, <2>1
    <3>2. Adds(f, v, G, AnyOf(G)) /\ Adds(h, w, H, AnyOf(H))
      BY <1>2, <1>3
    <3> DEFINE c == AnyOf(G)
               d == AnyOf(H)
    <3>3. /\ IsFiniteSet(G) /\ Chooses(c, G) /\ Chooses(d, H)
          /\ Adds(f, v, G, c) /\ Adds(h, w, H, d)
          /\ \A s \in SUBSET G : s # {} => d[s] = c[s]
      BY <1>6, <1>7, <3>2
    <3> HIDE DEF p, n, c, d
    <3>4. v \in [G -> Nat] /\ w \in [H -> Nat] /\ \A x \in G \ {p} : w[x] = v[x]
      BY <1>4, <1>8
    <3> QED BY <3>1, <3>3, <3>4, AddsMore
  <2>3. w[n] = Cardinality(NamedBy(new, n, m))
    BY <1>5, <2>1
  <2> QED BY <1>2, <1>3, <1>9, <1>10, <1>11, <2>2, <2>3
<1>12. CASE ~MakesDir
  <2>1. H = G
    BY <1>1, <1>12
  <2>2. h[G] + v[p] = f[G] + w[p]
    <3>1. Adds(h, w, G, AnyOf(G)) /\ w \in [G -> Nat]
      BY <1>3, <1>4, <2>1
    <3> QED BY <1>1, <1>2, <1>4, <1>6, <1>8, <3>1, AddsChange
  <2>3. h[H] + v[p] = f[G] + w[p]
    BY <2>1, <2>2
  <2>4. h[H] + v[p] = f[G] + w[p] + 0
    BY <1>9, <1>10, <2>3
  <2> QED BY <1>2, <1>3, <1>9, <1>10, <1>12, <2>4
<1> QED BY <1>11, <1>12

\* An inode nothing names.
LEMMA NoNamesOf ==
    ASSUME NEW old, NEW new, MadeClean(old, new), Good(old) PROVE NamesOf(old, loc.ino) = 0
<1> DEFINE G == DirsOf(old)
           v == PerDir(old, loc.ino)
<1>1. old \in Image
  BY DEF Good
<1>2. PICK f : Adds(f, v, G, AnyOf(G)) /\ NamesOf(old, loc.ino) = f[G]
  BY <1>1, NamesOfIs
<1>3. v \in [G -> Nat] /\ \A d \in G : v[d] = 0
  BY <1>1, NamesOfIs, UnlinkedBefore DEF PerDir
<1>4. IsFiniteSet(G) /\ Chooses(AnyOf(G), G)
  BY DirsFinite, AnyOfChooses
<1> HIDE DEF v, G
<1> QED BY <1>2, <1>3, <1>4, AddsZeros

\* The link count of every inode is right.
LEMMA MadeLinksMatch ==
    ASSUME NEW old, NEW new, MadeClean(old, new), Good(old),
           NodeAt(old, op.in.num).links + 1 < 65536
    PROVE  LinkCountsMatch(new)
<1> DEFINE p == op.in.num
           n == loc.ino
<1>1. /\ WasMade(old, new) /\ p \in DirsOf(old) /\ p \in InUse(old) /\ n \notin InUse(old)
      /\ InUse(new) = InUse(old) \cup {n} /\ InUse(old) \subseteq InodeNums
      /\ old \in Image
  BY MadeInUse DEF MadeClean, WasMade
<1>2. ASSUME NEW m \in InUse(old) PROVE NodeAt(new, m).links = NamesOf(new, m)
  <2> DEFINE was == Cardinality(NamedBy(old, p, m))
  <2>1. m # n /\ m \in InodeNums \ {n}
    BY <1>1
  <2>2. \A d \in DirsOf(old) :
          Cardinality(NamedBy(new, d, m)) = Cardinality(NamedBy(old, d, m))
    BY <2>1, LinkedStill
  <2>3. Cardinality(NamedBy(new, p, m)) = was /\ was \in Nat
    BY <1>1, <2>2, EntriesFinite
  <2>4. /\ NamesOf(new, m) \in Nat /\ NamesOf(old, m) \in Nat
        /\ NamesOf(new, m) + was = NamesOf(old, m) + was
             + (IF MakesDir THEN Cardinality(NamedBy(new, n, m)) ELSE 0)
    BY <2>2, <2>3, LinksMade
  <2>5. MakesDir => Cardinality(NamedBy(new, n, m)) = IF m = p THEN 1 ELSE 0
    BY <2>1, LinkedThere
  <2>6. NodeAt(old, m).links = NamesOf(old, m)
    BY DEF MadeClean, FsckClean, LinkCountsMatch
  <2>7. NodeAt(new, m).links = IF MakesDir /\ m = p THEN (NodeAt(old, m).links + 1) % 65536
                               ELSE NodeAt(old, m).links
    BY <1>1, <2>1 DEF WasMade, MadeNodes
  <2> HIDE DEF was
  <2>8. CASE MakesDir /\ m = p
    <3>1. NamesOf(new, m) = NamesOf(old, m) + 1
      BY <2>3, <2>4, <2>5, <2>8
    <3>2. NamesOf(old, m) + 1 < 65536
      BY <2>6, <2>8
    <3>3. (NamesOf(old, m) + 1) % 65536 = NamesOf(old, m) + 1
      BY <2>4, <3>2, SMT
    <3> QED BY <2>6, <2>7, <2>8, <3>1, <3>3
  <2>9. CASE ~(MakesDir /\ m = p)
    <3>1. NamesOf(new, m) = NamesOf(old, m)
      BY <2>3, <2>4, <2>5, <2>9
    <3> QED BY <2>6, <2>7, <2>9, <3>1
  <2> QED BY <2>8, <2>9
<1>3. NodeAt(new, n).links = NamesOf(new, n)
  <2>1. /\ \A d \in DirsOf(old) \ {p} :
              Cardinality(NamedBy(new, d, n)) = Cardinality(NamedBy(old, d, n))
        /\ Cardinality(NamedBy(old, p, n)) = 0 /\ Cardinality(NamedBy(new, p, n)) = 1
    BY <1>1, UnlinkedBefore, LinkedHere
  <2>2. /\ NamesOf(new, n) \in Nat /\ NamesOf(old, n) \in Nat
        /\ NamesOf(new, n) + 0 = NamesOf(old, n) + 1
             + (IF MakesDir THEN Cardinality(NamedBy(new, n, n)) ELSE 0)
    BY <2>1, LinksMade
  <2>3. NamesOf(old, n) = 0
    BY NoNamesOf
  <2>4. MakesDir => Cardinality(NamedBy(new, n, n)) = 1
    BY LinkedThere
  <2>5. NamesOf(new, n) = IF MakesDir THEN 2 ELSE 1
    BY <2>2, <2>3, <2>4
  <2> QED BY <1>1, <2>5 DEF WasMade, MadeNodes
<1> QED BY <1>1, <1>2, <1>3 DEF LinkCountsMatch
-----------------------------------------------------------------------------
(* Sizes, bitmaps and counters after something was made.                   *)

\* Inode numbers are different in different places.
LEMMA InoNumInjective ==
    ASSUME NEW g \in Group, NEW i \in InodeIdx, NEW h \in Group, NEW j \in InodeIdx,
           InoNum(g, i) = InoNum(h, j)
    PROVE  g = h /\ i = j
<1>1. <<g, i>> = <<h, j>>
  BY InoNumLemma
<1> QED BY <1>1

\* The inode and the block taken, by their places.
LEMMA TakenAt ==
    ASSUME NEW old, NEW new, WasMade(old, new), FsckClean(old)
    PROVE  /\ loc.g \in Group
           /\ ~old.gd[loc.g].iUninit /\ ~old.gd[loc.g].bUninit
           /\ \A g \in Group \ {loc.g} : /\ new.gd[g] = old.gd[g]
                                         /\ new.ibm[g] = old.ibm[g] /\ new.bbm[g] = old.bbm[g]
           /\ \E i \in InodeIdx \ UsedInodeBits(old, loc.g) :
                 loc.ino = InoNum(loc.g, i) /\ new.ibm[loc.g] = UsedInodeBits(old, loc.g) \cup {i}
           /\ \E i \in BlockIdx \ UsedBlockBits(old, loc.g) :
                 loc.blk = BlkNum(loc.g, i) /\ new.bbm[loc.g] = UsedBlockBits(old, loc.g) \cup {i}
<1>1. /\ old \in Image /\ loc.g \in Group /\ HasRoom(old.gd[loc.g])
      /\ InodeTaken(old, new) /\ BlockTaken(old, new) /\ DescOnDisk(old, new)
  BY DEF WasMade, MadeIn, MadeCounts
<1>2. ~old.gd[loc.g].iUninit /\ ~old.gd[loc.g].bUninit
  BY <1>1 DEF HasRoom
<1>3. old.ibm[loc.g] = UsedInodeBits(old, loc.g) /\ old.bbm[loc.g] = UsedBlockBits(old, loc.g)
  BY <1>1, <1>2 DEF FsckClean, BitmapsMatch
<1>4. PICK i \in InodeIdx \ old.ibm[loc.g] :
        /\ loc.ino = InoNum(loc.g, i)
        /\ new.ibm = [old.ibm EXCEPT ![loc.g] = old.ibm[loc.g] \cup {i}]
  BY <1>1 DEF InodeTaken
<1>5. PICK j \in BlockIdx \ old.bbm[loc.g] :
        /\ loc.blk = BlkNum(loc.g, j)
        /\ new.bbm = [old.bbm EXCEPT ![loc.g] = old.bbm[loc.g] \cup {j}]
  BY <1>1 DEF BlockTaken
<1>6. old.ibm \in [Group -> SUBSET InodeIdx] /\ old.bbm \in [Group -> SUBSET BlockIdx]
  BY <1>1 DEF Image
<1>7. /\ new.ibm[loc.g] = old.ibm[loc.g] \cup {i} /\ new.bbm[loc.g] = old.bbm[loc.g] \cup {j}
      /\ \A g \in Group \ {loc.g} : new.ibm[g] = old.ibm[g] /\ new.bbm[g] = old.bbm[g]
  BY <1>1, <1>4, <1>5, <1>6
<1>8. \A g \in Group \ {loc.g} : new.gd[g] = old.gd[g]
  BY <1>1 DEF DescOnDisk
<1> QED BY <1>1, <1>2, <1>3, <1>4, <1>5, <1>7, <1>8

\* What the bitmaps should say.
LEMMA UsedBitsMade ==
    ASSUME NEW old, NEW new, WasMade(old, new), NEW g \in Group, loc.g \in Group,
           NEW i \in InodeIdx, loc.ino = InoNum(loc.g, i), loc.ino >= FirstIno,
           NEW j \in BlockIdx, loc.blk = BlkNum(loc.g, j)
    PROVE  /\ UsedInodeBits(new, g) = UsedInodeBits(old, g) \cup (IF g = loc.g THEN {i} ELSE {})
           /\ UsedBlockBits(new, g) = UsedBlockBits(old, g) \cup (IF g = loc.g THEN {j} ELSE {})
           /\ {k \in InodeIdx : InoNum(g, k) \in DirsOf(new)}
                = {k \in InodeIdx : InoNum(g, k) \in DirsOf(old)}
                  \cup (IF g = loc.g /\ MakesDir THEN {i} ELSE {})
<1>1. /\ InUse(new) = InUse(old) \cup {loc.ino}
      /\ DirsOf(new) = DirsOf(old) \cup (IF MakesDir THEN {loc.ino} ELSE {})
      /\ OwnedBy(new, InUse(new)) = OwnedBy(old, InUse(old)) \cup {loc.blk}
  BY MadeInUse
<1>2. \A k \in InodeIdx : InoNum(g, k) = loc.ino <=> g = loc.g /\ k = i
  BY InoNumInjective
<1>3. \A k \in BlockIdx : BlkNum(g, k) = loc.blk <=> g = loc.g /\ k = j
  BY BlkNumInjective
<1>4. UsedInodeBits(new, g) = UsedInodeBits(old, g) \cup (IF g = loc.g THEN {i} ELSE {})
  BY <1>1, <1>2 DEF UsedInodeBits
<1>5. UsedBlockBits(new, g) = UsedBlockBits(old, g) \cup (IF g = loc.g THEN {j} ELSE {})
  BY <1>1, <1>3 DEF UsedBlockBits
<1>6. {k \in InodeIdx : InoNum(g, k) \in DirsOf(new)}
        = {k \in InodeIdx : InoNum(g, k) \in DirsOf(old)}
          \cup (IF g = loc.g /\ MakesDir THEN {i} ELSE {})
  BY <1>1, <1>2
<1> QED BY <1>4, <1>5, <1>6

\* The bitmaps and the group counters are right.
LEMMA MadeBitsMatch ==
    ASSUME NEW old, NEW new, WasMade(old, new), FsckClean(old)
    PROVE  BitmapsMatch(new) /\ GroupCountsMatch(new)
<1>1. PICK i \in InodeIdx \ UsedInodeBits(old, loc.g) :
         loc.ino = InoNum(loc.g, i) /\ new.ibm[loc.g] = UsedInodeBits(old, loc.g) \cup {i}
  BY TakenAt
<1>2. PICK j \in BlockIdx \ UsedBlockBits(old, loc.g) :
         loc.blk = BlkNum(loc.g, j) /\ new.bbm[loc.g] = UsedBlockBits(old, loc.g) \cup {j}
  BY TakenAt
<1>3. /\ loc.g \in Group
      /\ \A g \in Group \ {loc.g} : /\ new.gd[g] = old.gd[g]
                                    /\ new.ibm[g] = old.ibm[g] /\ new.bbm[g] = old.bbm[g]
  BY TakenAt
<1>4. /\ InodeTaken(old, new) /\ DescOnDisk(old, new) /\ loc.ino >= FirstIno
      /\ loc.ino \notin DirsOf(old) /\ old \in Image
  <2>1. loc.ino \notin DirsOf(old)
    BY MadeInUse DEF DirsOf
  <2> QED BY <2>1 DEF WasMade, MadeCounts, InodeTaken
<1>5. BitmapsMatch(old) /\ GroupCountsMatch(old)
  BY DEF FsckClean
<1>6. ASSUME NEW g \in Group
      PROVE  /\ UsedInodeBits(new, g) = UsedInodeBits(old, g) \cup (IF g = loc.g THEN {i} ELSE {})
             /\ UsedBlockBits(new, g) = UsedBlockBits(old, g) \cup (IF g = loc.g THEN {j} ELSE {})
             /\ {k \in InodeIdx : InoNum(g, k) \in DirsOf(new)}
                  = {k \in InodeIdx : InoNum(g, k) \in DirsOf(old)}
                    \cup (IF g = loc.g /\ MakesDir THEN {i} ELSE {})
  BY <1>1, <1>2, <1>3, <1>4, UsedBitsMade
<1>7. BitmapsMatch(new)
  <2> SUFFICES ASSUME NEW g \in Group
               PROVE  /\ ~new.gd[g].iUninit => new.ibm[g] = UsedInodeBits(new, g)
                      /\ ~new.gd[g].bUninit => new.bbm[g] = UsedBlockBits(new, g)
    BY DEF BitmapsMatch
  <2>1. CASE g = loc.g
    BY <1>1, <1>2, <1>6, <2>1
  <2>2. CASE g # loc.g
    <3>1. UsedInodeBits(new, g) = UsedInodeBits(old, g) /\ UsedBlockBits(new, g) = UsedBlockBits(old, g)
      BY <1>6, <2>2
    <3>2. new.gd[g] = old.gd[g] /\ new.ibm[g] = old.ibm[g] /\ new.bbm[g] = old.bbm[g]
      BY <1>3, <2>2
    <3> QED BY <1>5, <3>1, <3>2 DEF BitmapsMatch
  <2> QED BY <2>1, <2>2
<1>8. ASSUME NEW g \in Group
      PROVE  /\ new.gd[g].freeI = InodesPerGroup - Cardinality(UsedInodeBits(new, g))
             /\ new.gd[g].freeB = BlocksPerGroup - Cardinality(UsedBlockBits(new, g))
             /\ new.gd[g].dirs = Cardinality({k \in InodeIdx : InoNum(g, k) \in DirsOf(new)})
  <2> DEFINE D == {k \in InodeIdx : InoNum(g, k) \in DirsOf(old)}
             I == UsedInodeBits(old, g)
             B == UsedBlockBits(old, g)
  <2>1. /\ old.gd[g].freeI = InodesPerGroup - Cardinality(I)
        /\ old.gd[g].freeB = BlocksPerGroup - Cardinality(B)
        /\ old.gd[g].dirs = Cardinality(D)
    BY <1>5 DEF GroupCountsMatch
  <2>2. CASE g # loc.g
    <3>1. /\ UsedInodeBits(new, g) = I /\ UsedBlockBits(new, g) = B
          /\ {k \in InodeIdx : InoNum(g, k) \in DirsOf(new)} = D
      BY <1>6, <2>2
    <3>2. new.gd[g] = old.gd[g]
      BY <1>3, <2>2
    <3> HIDE DEF I, B, D
    <3> QED BY <2>1, <3>1, <3>2
  <2>3. CASE g = loc.g
    <3>1. /\ IsFiniteSet(I) /\ IsFiniteSet(B) /\ IsFiniteSet(D)
          /\ Cardinality(I) \in Nat /\ Cardinality(B) \in Nat /\ Cardinality(D) \in Nat
      <4>1. I \in SUBSET InodeIdx /\ B \in SUBSET BlockIdx /\ D \in SUBSET InodeIdx
        BY DEF UsedInodeBits, UsedBlockBits
      <4> HIDE DEF I, B, D
      <4> QED BY <4>1, InodeBits, BlockBits
    <3>2. i \notin I /\ j \notin B /\ i \notin D
      BY <1>1, <1>2, <1>4, <2>3
    <3>3. /\ UsedInodeBits(new, g) = I \cup {i} /\ UsedBlockBits(new, g) = B \cup {j}
          /\ {k \in InodeIdx : InoNum(g, k) \in DirsOf(new)}
               = IF MakesDir THEN D \cup {i} ELSE D
      BY <1>6, <2>3
    <3>4. /\ new.gd[g].freeI = old.gd[g].freeI - 1 /\ new.gd[g].freeB = old.gd[g].freeB - 1
          /\ new.gd[g].dirs = old.gd[g].dirs + (IF MakesDir THEN 1 ELSE 0)
      BY <1>4, <2>3 DEF DescOnDisk, Counted
    <3>5. InodesPerGroup \in Nat /\ BlocksPerGroup \in Nat
      BY GeometryAssumption
    <3> HIDE DEF I, B, D
    <3>6. /\ Cardinality(I \cup {i}) = Cardinality(I) + 1
          /\ Cardinality(B \cup {j}) = Cardinality(B) + 1
          /\ Cardinality(D \cup {i}) = Cardinality(D) + 1
      BY <3>1, <3>2, OneMore
    <3>7. new.gd[g].freeI = InodesPerGroup - Cardinality(I \cup {i})
      BY <2>1, <3>1, <3>4, <3>5, <3>6
    <3>8. new.gd[g].freeB = BlocksPerGroup - Cardinality(B \cup {j})
      BY <2>1, <3>1, <3>4, <3>5, <3>6
    <3>9. new.gd[g].dirs = Cardinality(IF MakesDir THEN D \cup {i} ELSE D)
      BY <2>1, <3>1, <3>4, <3>6
    <3> QED BY <3>3, <3>7, <3>8, <3>9
  <2> QED BY <2>2, <2>3
<1> QED BY <1>7, <1>8 DEF GroupCountsMatch

\* The table is scanned as far as the new inode.
LEMMA MadeScanned ==
    ASSUME NEW old, NEW new, WasMade(old, new), FsckClean(old)
    PROVE  UsedInodesScanned(new)
<1> SUFFICES ASSUME NEW g \in Group, NEW k \in InodeIdx, InoNum(g, k) \in InUse(new)
             PROVE  ~new.gd[g].iUninit /\ k < InodesPerGroup - new.gd[g].unused
  BY DEF UsedInodesScanned
<1>1. CASE g = loc.g
  <2>1. new.gd[g].unused = 0 /\ ~new.gd[g].iUninit
    BY <1>1 DEF WasMade, MadeCounts, DescOnDisk, Counted
  <2>2. k < InodesPerGroup - 0
    BY GeometryAssumption DEF InodeIdx
  <2> QED BY <2>1, <2>2
<1>2. CASE g # loc.g
  <2>1. PICK i \in InodeIdx : loc.ino = InoNum(loc.g, i)
    BY TakenAt
  <2>2. InoNum(g, k) # loc.ino
    BY <1>2, <2>1, TakenAt, InoNumInjective
  <2>3. InoNum(g, k) \in InUse(old)
    BY <2>2, MadeInUse
  <2>4. new.gd[g] = old.gd[g]
    BY <1>2, TakenAt
  <2> QED BY <2>3, <2>4 DEF FsckClean, UsedInodesScanned
<1> QED BY <1>1, <1>2

\* Sizes are right.
LEMMA MadeSized ==
    ASSUME NEW old, NEW new, WasMade(old, new), FsckClean(old)
    PROVE  SizesMatch(new)
<1>1. SizesMatch(old) /\ InUse(new) = InUse(old) \cup {loc.ino}
  BY MadeInUse DEF FsckClean
<1>2. ASSUME NEW m \in InUse(old)
      PROVE  LET x == NodeAt(new, m) IN
             /\ x.kind = "dir" => x.size = Cardinality(x.owns) * BlockSize
             /\ x.kind = "file" /\ ~x.hole => x.size >= (Cardinality(x.owns) - 1) * BlockSize
  BY <1>1, <1>2, MadeInUse DEF SizesMatch, SameButLinks
<1>3. LET x == NodeAt(new, loc.ino) IN
      /\ x.kind = "dir" => x.size = Cardinality(x.owns) * BlockSize
      /\ x.kind = "file" /\ ~x.hole => x.size >= (Cardinality(x.owns) - 1) * BlockSize
  <2> DEFINE x == NodeAt(new, loc.ino)
  <2>1. /\ x.owns = {loc.blk} /\ x.kind = MadeKind
        /\ MakesDir => x.size = BlockSize
        /\ loc.ino \in InodeNums /\ new \in Image
    BY DEF WasMade, MadeIn, MadeNodes
  <2>2. Cardinality({loc.blk}) = 1
    BY FS_Singleton
  <2>3. x.size \in Nat
    BY <2>1, NodeType DEF Inode
  <2>4. x.kind = "dir" => MakesDir
    BY <2>1 DEF MadeKind
  <2>5. BlockSize \in Nat
    BY GeometryAssumption
  <2>6. 1 * BlockSize = BlockSize /\ (1 - 1) * BlockSize = 0
    BY <2>5
  <2> HIDE DEF x
  <2>7. x.kind = "dir" => x.size = Cardinality(x.owns) * BlockSize
    BY <2>1, <2>2, <2>4, <2>6
  <2>8. x.size >= (Cardinality(x.owns) - 1) * BlockSize
    BY <2>1, <2>2, <2>3, <2>6
  <2> QED BY <2>7, <2>8 DEF x
<1> QED BY <1>1, <1>2, <1>3 DEF SizesMatch

\* What is made in a clean image leaves a clean one.
LEMMA MadeIsClean ==
    ASSUME NEW old, NEW new, MadeClean(old, new), Good(old), Good(new),
           NodeAt(old, op.in.num).links + 1 < 65536
    PROVE  FsckClean(new)
<1>1. WasMade(old, new) /\ FsckClean(old)
  BY DEF MadeClean
<1>2. BlocksOwnedOnce(new) /\ ExtentsOwned(new)
  BY DEF Good, LinksResolve
<1>3. SizesMatch(new) /\ UsedInodesScanned(new)
  BY <1>1, MadeSized, MadeScanned
<1>4. (\A d \in DirsOf(new) : DirectorySound(new, d)) /\ EveryInodeAttached(new)
  BY MadeSound, MadeAttached
<1>5. LinkCountsMatch(new)
  BY MadeLinksMatch
<1>6. BitmapsMatch(new) /\ GroupCountsMatch(new)
  BY <1>1, MadeBitsMatch
<1> QED BY <1>2, <1>3, <1>4, <1>5, <1>6 DEF FsckClean
-----------------------------------------------------------------------------
(* Images with the same tree: sizes, checksums, the superblock and the     *)
(* contents of files apart.                                                *)

SameTree(old, new) ==
    /\ old \in Image /\ new \in Image
    /\ new.csum = old.csum /\ new.gd = old.gd /\ new.ibm = old.ibm /\ new.bbm = old.bbm
    /\ \A m \in InodeNums :
          LET x == NodeAt(new, m)
              y == NodeAt(old, m)
          IN  /\ x.kind = y.kind /\ x.single = y.single /\ x.blk = y.blk
              /\ x.owns = y.owns /\ x.links = y.links
    /\ \A d \in DirsOf(old) : \A b \in NodeAt(old, d).owns : new.blk[b] = old.blk[b]

\* What two images with the same tree agree on.
LEMMA SameTreeSeen ==
    ASSUME NEW old, NEW new, SameTree(old, new)
    PROVE  /\ InUse(new) = InUse(old) /\ DirsOf(new) = DirsOf(old) /\ InUse(old) \subseteq InodeNums
           /\ OwnedBy(new, InUse(new)) = OwnedBy(old, InUse(old))
           /\ \A d \in DirsOf(old) : Entries(new, d) = Entries(old, d)
           /\ Limit(new) = Limit(old)
<1>1. InUse(new) = InUse(old) /\ DirsOf(new) = DirsOf(old) /\ InUse(old) \subseteq InodeNums
  BY DEF SameTree, InUse, DirsOf
<1>2. OwnedBy(new, InUse(new)) = OwnedBy(old, InUse(old))
  BY <1>1 DEF SameTree, OwnedBy
<1>3. ASSUME NEW d \in DirsOf(old) PROVE Entries(new, d) = Entries(old, d)
  <2>1. /\ NodeAt(new, d).owns = NodeAt(old, d).owns
        /\ \A b \in NodeAt(old, d).owns : new.blk[b] = old.blk[b]
    BY <1>1 DEF SameTree, DirsOf
  <2> QED BY <2>1 DEF Entries
<1>4. Limit(new) = Limit(old)
  BY DEF SameTree, Limit, MetadataCsum
<1> QED BY <1>1, <1>2, <1>3, <1>4

\* Their directories are as sound.
LEMMA SameTreeSound ==
    ASSUME NEW old, NEW new, SameTree(old, new), NEW d \in DirsOf(old), DirectorySound(old, d)
    PROVE  DirectorySound(new, d)
<1>1. /\ InUse(new) = InUse(old) /\ DirsOf(new) = DirsOf(old) /\ InUse(old) \subseteq InodeNums
      /\ \A c \in DirsOf(old) : Entries(new, c) = Entries(old, c)
      /\ Limit(new) = Limit(old)
  BY SameTreeSeen
<1>2. /\ NodeAt(new, d).owns = NodeAt(old, d).owns
      /\ \A b \in NodeAt(old, d).owns : new.blk[b] = old.blk[b]
  BY <1>1 DEF SameTree, DirsOf
<1>3. \A m \in InodeNums : NodeAt(new, m).kind = NodeAt(old, m).kind
  BY DEF SameTree
<1>4. ASSUME NEW b \in NodeAt(old, d).owns PROVE DirectoryBlockSound(new, b, d)
  <2>1. DirectoryBlockSound(old, b, d) /\ new.blk[b] = old.blk[b]
    BY <1>2 DEF DirectorySound
  <2>2. WellFormed(new, new.blk[b].ents)
    BY <1>1, <2>1 DEF DirectoryBlockSound, WellFormed
  <2> QED BY <1>1, <1>3, <2>1, <2>2 DEF DirectoryBlockSound
<1>5. NamesUnique(new, d)
  BY <1>2 DEF DirectorySound, NamesUnique
<1> QED BY <1>1, <1>2, <1>4, <1>5 DEF DirectorySound

\* Their inodes have as many names.
LEMMA SameTreeNames ==
    ASSUME NEW old, NEW new, SameTree(old, new), NEW m
    PROVE  NamesOf(new, m) = NamesOf(old, m)
<1> DEFINE D == DirsOf(old)
<1>1. DirsOf(new) = D /\ \A d \in D : Entries(new, d) = Entries(old, d)
  BY SameTreeSeen
<1>2. old \in Image /\ new \in Image
  BY DEF SameTree
<1>3. \A d \in D : PerDir(new, m)[d] = PerDir(old, m)[d]
  BY <1>1 DEF PerDir, NamedBy
<1>4. PICK f : Adds(f, PerDir(new, m), D, AnyOf(D)) /\ NamesOf(new, m) = f[D]
  BY <1>1, <1>2, NamesOfIs
<1>5. PICK g : Adds(g, PerDir(old, m), D, AnyOf(D)) /\ NamesOf(old, m) = g[D]
  BY <1>2, NamesOfIs
<1>6. IsFiniteSet(D) /\ Chooses(AnyOf(D), D) /\ D \subseteq D
  BY DirsFinite, AnyOfChooses
<1> HIDE DEF D
<1>7. f[D] = g[D]
  BY <1>3, <1>4, <1>5, <1>6, AddsAgree
<1> QED BY <1>4, <1>5, <1>7

\* If sizes are right too, one is as clean as the other.
LEMMA SameTreeClean ==
    ASSUME NEW old, NEW new, SameTree(old, new), FsckClean(old), Good(old), Good(new),
           SizesMatch(new)
    PROVE  FsckClean(new)
<1>1. /\ InUse(new) = InUse(old) /\ DirsOf(new) = DirsOf(old) /\ InUse(old) \subseteq InodeNums
      /\ OwnedBy(new, InUse(new)) = OwnedBy(old, InUse(old))
      /\ \A c \in DirsOf(old) : Entries(new, c) = Entries(old, c)
  BY SameTreeSeen
<1>2. new.gd = old.gd /\ new.ibm = old.ibm /\ new.bbm = old.bbm
  BY DEF SameTree
<1>3. BlocksOwnedOnce(new) /\ ExtentsOwned(new)
  BY DEF Good, LinksResolve
<1>4. UsedInodesScanned(new)
  BY <1>1, <1>2 DEF FsckClean, UsedInodesScanned
<1>5. \A d \in DirsOf(new) : DirectorySound(new, d)
  BY <1>1, SameTreeSound DEF FsckClean
<1>6. EveryInodeAttached(new)
  <2>1. \A d \in DirsOf(old) : NamesKeptIn(old, new, d)
    BY <1>1 DEF NamesKeptIn
  <2>2. Reachable(old) \subseteq Reachable(new)
    BY <2>1, ReachableGrows
  <2> QED BY <1>1, <2>2 DEF FsckClean, EveryInodeAttached
<1>7. LinkCountsMatch(new)
  <2> SUFFICES ASSUME NEW n \in InUse(new) PROVE NodeAt(new, n).links = NamesOf(new, n)
    BY DEF LinkCountsMatch
  <2>1. NodeAt(new, n).links = NodeAt(old, n).links /\ n \in InUse(old)
    BY <1>1 DEF SameTree
  <2>2. NodeAt(old, n).links = NamesOf(old, n)
    BY <2>1 DEF FsckClean, LinkCountsMatch
  <2> QED BY <2>1, <2>2, SameTreeNames
<1>8. \A g \in Group : /\ UsedInodeBits(new, g) = UsedInodeBits(old, g)
                       /\ UsedBlockBits(new, g) = UsedBlockBits(old, g)
  BY <1>1 DEF UsedInodeBits, UsedBlockBits
<1>9. BitmapsMatch(new)
  BY <1>2, <1>8 DEF FsckClean, BitmapsMatch
<1>10. GroupCountsMatch(new)
  BY <1>1, <1>2, <1>8 DEF FsckClean, GroupCountsMatch
<1> QED BY <1>3, <1>4, <1>5, <1>6, <1>7, <1>9, <1>10 DEF FsckClean

\* Overwriting a file leaves the tree: the block is the file's and no
\* directory's.
LEMMA OverwroteTree ==
    ASSUME NEW old, NEW new, Overwrote(old, new), Good(old) PROVE SameTree(old, new)
<1>1. ASSUME NEW d \in DirsOf(old), NEW b \in NodeAt(old, d).owns PROVE new.blk[b] = old.blk[b]
  <2>1. d \in InUse(old) /\ NodeAt(old, d).kind = "dir" /\ d \in InodeNums
    BY DEF DirsOf, InUse
  <2>2. d # op.in.num /\ op.in.num \in InUse(old)
    BY <2>1 DEF Overwrote
  <2>3. op.in.raw.blk \in NodeAt(old, op.in.num).owns
    BY <2>2 DEF Overwrote, Good, LinksResolve, ExtentsOwned
  <2>4. b # op.in.raw.blk
    BY <2>1, <2>2, <2>3 DEF Good, LinksResolve, BlocksOwnedOnce
  <2>5. b \in BlockNums
    <3>1. NodeAt(old, d) \in Inode
      BY <2>1, NodeType DEF Good
    <3> QED BY <3>1 DEF Inode
  <2> QED BY <2>4, <2>5 DEF Overwrote
<1> QED BY <1>1 DEF Overwrote, SameTree

\* Files of one extent map one block still.
LEMMA SameTreeShort ==
    ASSUME NEW old, NEW new, SameTree(old, new), NoLongFiles(old) PROVE NoLongFiles(new)
<1>1. InUse(new) = InUse(old) /\ InUse(old) \subseteq InodeNums
  BY SameTreeSeen
<1> QED BY <1>1 DEF SameTree, NoLongFiles

\* Records have whole names still.
LEMMA SameTreeWhole ==
    ASSUME NEW old, NEW new, SameTree(old, new), WholeNames(old) PROVE WholeNames(new)
<1>1. DirsOf(new) = DirsOf(old) /\ \A d \in DirsOf(old) : Entries(new, d) = Entries(old, d)
  BY SameTreeSeen
<1> QED BY <1>1 DEF WholeNames, Children

\* The size of a file overwritten is right: it has one block.
LEMMA OverwroteSized ==
    ASSUME NEW old, NEW new, Overwrote(old, new), Good(old), SizesMatch(old), NoLongFiles(old)
    PROVE  SizesMatch(new)
<1>1. SameTree(old, new)
  BY OverwroteTree
<1>2. InUse(new) = InUse(old) /\ InUse(old) \subseteq InodeNums
  BY <1>1, SameTreeSeen
<1> SUFFICES ASSUME NEW n \in InUse(old)
             PROVE  LET x == NodeAt(new, n) IN
                    /\ x.kind = "dir" => x.size = Cardinality(x.owns) * BlockSize
                    /\ x.kind = "file" /\ ~x.hole => x.size >= (Cardinality(x.owns) - 1) * BlockSize
  BY <1>2 DEF SizesMatch
<1>3. CASE n # op.in.num
  <2>1. LET x == NodeAt(new, n)
            y == NodeAt(old, n)
        IN  x.kind = y.kind /\ x.size = y.size /\ x.owns = y.owns /\ x.hole = y.hole
    BY <1>2, <1>3 DEF Overwrote
  <2> QED BY <2>1 DEF SizesMatch
<1>4. CASE n = op.in.num
  <2> DEFINE x == NodeAt(new, n)
  <2>1. x.kind = "file" /\ x.owns = NodeAt(old, n).owns /\ x.size \in Nat
    BY <1>2, <1>4 DEF Overwrote
  <2>2. NodeAt(old, n).owns = {NodeAt(old, n).blk}
    BY <1>4 DEF Overwrote, NoLongFiles
  <2>3. Cardinality(x.owns) = 1
    BY <2>1, <2>2, FS_Singleton
  <2>4. BlockSize \in Nat
    BY GeometryAssumption
  <2>5. (1 - 1) * BlockSize = 0
    BY <2>4
  <2> HIDE DEF x
  <2>6. x.size >= (Cardinality(x.owns) - 1) * BlockSize
    BY <2>1, <2>3, <2>5
  <2> QED BY <2>1, <2>6 DEF x
<1> QED BY <1>3, <1>4
-----------------------------------------------------------------------------
(* Clean before, clean after: what the operations start from.              *)

\* After k calls no link count is near where it wraps.
LinksWithin(img, k) == \A n \in InUse(img) : NodeAt(img, n).links + MaxCalls < 65536 + k

\* The image is clean, and such that an operation leaves it clean.
Sane(img, k) == FsckClean(img) /\ NoLongFiles(img) /\ WholeNames(img) /\ LinksWithin(img, k)

\* The calls made before the operation in progress.
CallsBefore == IF pc \in {"closed", "idle"} THEN hist.calls ELSE hist.calls - 1

SaneBefore == Undisturbed => Sane(hist.before, CallsBefore)

\* Later there is more room.
LEMMA SaneLater ==
    ASSUME NEW img, Good(img), NEW k \in Int, NEW l \in Int, k <= l, Sane(img, k)
    PROVE  Sane(img, l)
<1>1. ASSUME NEW n \in InUse(img) PROVE NodeAt(img, n).links + MaxCalls < 65536 + l
  <2>1. NodeAt(img, n) \in Inode
    BY NodeType DEF InUse, Good
  <2>2. NodeAt(img, n).links \in Nat /\ MaxCalls \in Nat
    BY <2>1, ImagesAssumption DEF Inode
  <2>3. NodeAt(img, n).links + MaxCalls < 65536 + k
    BY DEF Sane, LinksWithin
  <2> QED BY <2>2, <2>3
<1> QED BY <1>1 DEF Sane, LinksWithin

\* The links of what is made, and of where.
LEMMA MadeLinksWithin ==
    ASSUME LinksFit, NEW old, NEW new, WasMade(old, new), NEW k \in Nat, k < MaxCalls, LinksWithin(old, k)
    PROVE  LinksWithin(new, k + 1) /\ NodeAt(old, op.in.num).links + 1 < 65536
<1>1. /\ InUse(new) = InUse(old) \cup {loc.ino} /\ loc.ino \notin InUse(old)
      /\ InUse(old) \subseteq InodeNums /\ op.in.num \in InUse(old)
  BY MadeInUse
<1>2. MaxCalls \in Nat /\ MaxCalls + 2 < 65536
  BY ImagesAssumption DEF LinksFit
<1>3. ASSUME NEW n \in InUse(old)
      PROVE  NodeAt(old, n).links \in Nat /\ NodeAt(old, n).links + MaxCalls < 65536 + k
  <2>1. NodeAt(old, n) \in Inode
    BY <1>1, NodeType DEF WasMade
  <2> QED BY <2>1 DEF Inode, LinksWithin
<1>4. NodeAt(old, op.in.num).links + 1 < 65536
  <2>1. NodeAt(old, op.in.num).links \in Nat /\ NodeAt(old, op.in.num).links + MaxCalls < 65536 + k
    BY <1>1, <1>3
  <2> QED BY <1>2, <2>1
<1>5. ASSUME NEW n \in InUse(old) PROVE NodeAt(new, n).links + MaxCalls < 65536 + (k + 1)
  <2>1. NodeAt(new, n).links = IF MakesDir /\ n = op.in.num
                               THEN (NodeAt(old, n).links + 1) % 65536 ELSE NodeAt(old, n).links
    BY <1>1 DEF WasMade, MadeNodes
  <2>2. NodeAt(old, n).links \in Nat /\ NodeAt(old, n).links + MaxCalls < 65536 + k
    BY <1>3
  <2>3. CASE MakesDir /\ n = op.in.num
    <3>1. NodeAt(new, n).links = (NodeAt(old, n).links + 1) % 65536
      BY <2>1, <2>3
    <3>2. NodeAt(old, n).links + 1 < 65536
      BY <1>4, <2>3
    <3>3. NodeAt(new, n).links = NodeAt(old, n).links + 1
      BY <2>2, <3>1, <3>2
    <3> QED BY <1>2, <2>2, <3>3
  <2>4. CASE ~(MakesDir /\ n = op.in.num)
    <3>1. NodeAt(new, n).links = NodeAt(old, n).links
      BY <2>1, <2>4
    <3> QED BY <1>2, <2>2, <3>1
  <2> QED BY <2>3, <2>4
<1>6. NodeAt(new, loc.ino).links + MaxCalls < 65536 + (k + 1)
  <2>1. NodeAt(new, loc.ino).links = (IF MakesDir THEN 2 ELSE 1)
    BY DEF WasMade, MadeNodes
  <2> QED BY <1>2, <2>1
<1> QED BY <1>1, <1>4, <1>5, <1>6 DEF LinksWithin

\* A file made maps one block.
LEMMA MadeShort ==
    ASSUME NEW old, NEW new, WasMade(old, new), NoLongFiles(old) PROVE NoLongFiles(new)
<1>1. InUse(new) = InUse(old) \cup {loc.ino} /\ \A m \in InUse(old) : SameButLinks(NodeAt(new, m), NodeAt(old, m))
  BY MadeInUse
<1>2. NodeAt(new, loc.ino).owns = {NodeAt(new, loc.ino).blk}
  BY DEF WasMade, MadeNodes
<1> QED BY <1>1, <1>2 DEF NoLongFiles, SameButLinks

\* The new record has the whole of its name.
LEMMA MadeWhole ==
    ASSUME NEW old, NEW new, MadeClean(old, new) PROVE WholeNames(new)
<1>1. WasMade(old, new) /\ WholeNames(old)
  BY DEF MadeClean
<1>2. DirsOf(new) = DirsOf(old) \cup (IF MakesDir THEN {loc.ino} ELSE {})
  BY <1>1, MadeInUse
<1>3. ASSUME NEW d \in DirsOf(old), NEW f \in Children(new, d) PROVE f.nlen = NameLen[f.name]
  <2>1. f \in Entries(new, d) /\ f.name \notin {Dot, DotDot}
    BY DEF Children
  <2>2. CASE \E e \in Entries(old, d) : Alike(f, e)
    <3>1. PICK e \in Entries(old, d) : Alike(f, e)
      BY <2>2
    <3>2. e \in Children(old, d)
      BY <2>1, <3>1 DEF Children, Alike
    <3> QED BY <1>1, <3>1, <3>2 DEF WholeNames, Alike
  <2>3. CASE f.name = op.name /\ f.nlen = NameLen[op.name]
    BY <2>3
  <2> QED BY <2>1, <2>2, <2>3, MadeEntries
<1>4. ASSUME MakesDir, NEW f \in Children(new, loc.ino) PROVE FALSE
  <2>1. \A e \in Entries(new, loc.ino) : e.name \in {Dot, DotDot}
    BY <1>4, MadeNewEntries
  <2> QED BY <2>1 DEF Children
<1> QED BY <1>2, <1>3, <1>4 DEF WholeNames

\* What is made leaves an image as sane.
LEMMA MadeSane ==
    ASSUME NamesFit, LinksFit, NEW old, NEW new, WasMade(old, new), Good(old), Good(new),
           NEW k \in Nat, k < MaxCalls, Sane(old, k)
    PROVE  Sane(new, k + 1)
<1>1. MadeClean(old, new)
  BY DEF MadeClean, Sane
<1>2. LinksWithin(new, k + 1) /\ NodeAt(old, op.in.num).links + 1 < 65536
  BY MadeLinksWithin DEF Sane
<1>3. FsckClean(new)
  BY <1>1, <1>2, MadeIsClean
<1> QED BY <1>1, <1>2, <1>3, MadeShort, MadeWhole DEF Sane

\* So does what leaves the tree.
LEMMA SameTreeSane ==
    ASSUME NEW old, NEW new, SameTree(old, new), Good(old), Good(new), SizesMatch(new),
           NEW k, Sane(old, k)
    PROVE  Sane(new, k)
<1>1. FsckClean(new) /\ NoLongFiles(new) /\ WholeNames(new)
  BY SameTreeClean, SameTreeShort, SameTreeWhole DEF Sane
<1>2. InUse(new) = InUse(old) /\ InUse(old) \subseteq InodeNums
  BY SameTreeSeen
<1>3. \A n \in InUse(old) : NodeAt(new, n).links = NodeAt(old, n).links
  BY <1>2 DEF SameTree
<1>4. LinksWithin(new, k)
  BY <1>2, <1>3 DEF Sane, LinksWithin
<1> QED BY <1>1, <1>4 DEF Sane

\* The superblock is not the tree.
LEMMA SbTree ==
    ASSUME NEW old, NEW new, Good(old), Good(new), NEW s, new = [old EXCEPT !.sb = s],
           NEW k, Sane(old, k)
    PROVE  Sane(new, k)
<1>1. old \in Image /\ new \in Image
  BY DEF Good
<1>2. /\ new.csum = old.csum /\ new.gd = old.gd /\ new.ibm = old.ibm /\ new.bbm = old.bbm
      /\ new.itab = old.itab /\ new.blk = old.blk
  BY <1>1 DEF Image
<1>3. \A m : NodeAt(new, m) = NodeAt(old, m)
  BY <1>2 DEF NodeAt
<1>4. SameTree(old, new)
  BY <1>1, <1>2, <1>3 DEF SameTree
<1>5. InUse(new) = InUse(old)
  BY <1>3 DEF InUse
<1>6. SizesMatch(new)
  BY <1>3, <1>5 DEF Sane, FsckClean, SizesMatch
<1> QED BY <1>4, <1>6, SameTreeSane

-----------------------------------------------------------------------------
(* And what they leave.                                                    *)

\* A step within an operation, or a call, starts from the same image.
LEMMA SaneOn ==
    ASSUME PInv, PInv', SaneBefore, hist'.before = hist.before, Undisturbed' => Undisturbed,
           CallsBefore <= CallsBefore'
    PROVE  SaneBefore'
<1> SUFFICES ASSUME Undisturbed' PROVE Sane(hist.before, CallsBefore')
  BY DEF SaneBefore
<1>1. Sane(hist.before, CallsBefore)
  BY DEF SaneBefore
<1>2. hist.before \in Image /\ hist.calls \in Int
  BY ProgressTypes
<1>3. Good(hist.before)
  BY <1>1, <1>2, CleanResolves DEF Good, Sane
<1>4. (hist.calls)' \in Int
  BY DEF PInv, GInv, IInv, TypeOK, Histories
<1>5. CallsBefore \in Int /\ CallsBefore' \in Int
  BY <1>2, <1>4 DEF CallsBefore
<1> QED BY <1>1, <1>3, <1>5, SaneLater

\* The end of a session where nothing was written.
LEMMA SaneClose ==
    ASSUME PInv, PInv', SaneBefore, NEW status, NEW kills \in Nat, NEW strands \in Nat,
           CloseWith(status, kills, strands), kills = 0 /\ strands = 0 => image = hist.before
    PROVE  SaneBefore'
<1>1. /\ pc' = "closed" /\ hist'.before = image
      /\ hist'.kills = hist.kills + kills /\ hist'.strands = hist.strands + strands
  BY CloseLeaves DEF PInv, GInv
<1>2. hist.kills \in Nat /\ hist.strands \in Nat /\ hist.calls \in Nat
  BY DEF PInv, GInv, IInv, TypeOK, Histories
<1>3. hist'.calls = hist.calls
  BY CloseCalls, ProgressTypes
<1>4. ASSUME Undisturbed' PROVE Undisturbed /\ image = hist.before
  <2>1. hist.kills + kills = 0 /\ hist.strands + strands = 0
    BY <1>1, <1>4 DEF Undisturbed
  <2>2. kills = 0 /\ strands = 0 /\ hist.kills = 0 /\ hist.strands = 0
    BY <1>2, <2>1, NoneOfEither
  <2> QED BY <2>2 DEF Undisturbed
<1>5. CallsBefore <= CallsBefore'
  BY <1>1, <1>2, <1>3 DEF CallsBefore
<1>6. CASE Undisturbed'
  <2>1. hist'.before = hist.before
    BY <1>1, <1>4, <1>6
  <2> QED BY <1>4, <1>5, <2>1, SaneOn
<1>7. CASE ~Undisturbed'
  BY <1>7 DEF SaneBefore
<1> QED BY <1>6, <1>7

\* A refusal.
LEMMA SaneRefuse ==
    ASSUME PInv, PInv', SaneBefore, NEW status, Refuse(status) PROVE SaneBefore'
<1> DEFINE strands == IF image = hist.before THEN 0 ELSE 1
<1>1. strands \in Nat /\ 0 \in Nat /\ CloseWith(status, 0, strands)
  BY DEF Refuse
<1>2. strands = 0 => image = hist.before
  OBVIOUS
<1> HIDE DEF strands
<1> QED BY <1>1, <1>2, SaneClose

\* What a return leaves.
LEMMA ReturnLeaves ==
    ASSUME PInv, NEW in, Return(in)
    PROVE  /\ pc' = "idle" /\ hist'.before = image' /\ hist'.calls = hist.calls
           /\ hist'.kills = hist.kills /\ hist'.strands = hist.strands
<1>1. hist \in Histories
  BY ProgressTypes
<1> QED BY <1>1 DEF Return, Histories

\* A success.
LEMMA SaneReturn ==
    ASSUME NamesFit, LinksFit, PInv, PInv', SaneBefore, NEW in, Return(in), pc \in Making \cup Overwriting,
           WasMade(hist.before, image') \/ Overwrote(hist.before, image')
    PROVE  SaneBefore'
<1>1. /\ pc' = "idle" /\ hist'.before = image' /\ hist'.calls = hist.calls
      /\ hist'.kills = hist.kills /\ hist'.strands = hist.strands
  BY ReturnLeaves
<1> SUFFICES ASSUME Undisturbed' PROVE Sane(image', hist.calls)
  BY <1>1 DEF SaneBefore, CallsBefore
<1>2. Undisturbed
  BY <1>1 DEF Undisturbed
<1>3. /\ CallsBefore = hist.calls - 1 /\ hist.calls \in Nat /\ hist.calls > 0
      /\ hist.calls <= MaxCalls /\ hist.before \in Image /\ MaxCalls \in Nat
  BY ProgressTypes, ImagesAssumption
  DEF CallsBefore, Making, Overwriting, PInv, Progress, CallsHold
<1>4. Sane(hist.before, hist.calls - 1)
  BY <1>2, <1>3 DEF SaneBefore
<1>5. Good(hist.before)
  BY <1>3, <1>4, CleanResolves DEF Good, Sane
<1>6. Good(image')
  BY IInvLinks DEF PInv, GInv, IInv, TypeOK, Good, ReferencesResolve, LinksResolve
<1>7. CASE WasMade(hist.before, image')
  <2> DEFINE k == hist.calls - 1
  <2>1. k \in Nat /\ k < MaxCalls /\ k + 1 = hist.calls
    BY <1>3
  <2>2. Sane(hist.before, k)
    BY <1>4
  <2> HIDE DEF k
  <2>3. Sane(image', k + 1)
    BY <1>5, <1>6, <1>7, <2>1, <2>2, MadeSane
  <2> QED BY <2>1, <2>3
<1>8. CASE Overwrote(hist.before, image')
  <2>1. SameTree(hist.before, image') /\ SizesMatch(image')
    BY <1>4, <1>5, <1>8, OverwroteTree, OverwroteSized DEF Sane, FsckClean
  <2>2. Sane(image', hist.calls - 1)
    BY <1>4, <1>5, <1>6, <2>1, SameTreeSane
  <2> QED BY <1>3, <1>6, <2>2, SaneLater
<1> QED BY <1>7, <1>8
\* A step inside an operation.
LEMMA SaneInside ==
    ASSUME PInv, PInv', SaneBefore, hist' = hist,
           pc \in Making \cup Overwriting, pc' \in Making \cup Overwriting
    PROVE  SaneBefore'
<1>1. hist.calls \in Nat
  BY ProgressTypes
<1>2. CallsBefore <= CallsBefore' /\ (Undisturbed' => Undisturbed)
  BY <1>1 DEF CallsBefore, Making, Overwriting, Undisturbed
<1> QED BY <1>2, SaneOn

\* A call.
LEMMA SaneCall ==
    ASSUME PInv, PInv', SaneBefore, NEW in, NEW kind, NEW name, NEW data,
           NEW first \in {"lookup", "odata"}, Call(kind, in, name, data, first)
    PROVE  SaneBefore'
<1>1. hist.calls \in Nat /\ hist \in Histories /\ hist' = [hist EXCEPT !.calls = @ + 1]
      /\ pc = "idle" /\ pc' = first
  BY ProgressTypes DEF Call
<1>2. /\ hist'.calls = hist.calls + 1 /\ hist'.before = hist.before
      /\ hist'.kills = hist.kills /\ hist'.strands = hist.strands
  BY <1>1 DEF Histories
<1>3. CallsBefore <= CallsBefore' /\ (Undisturbed' => Undisturbed)
  BY <1>1, <1>2 DEF CallsBefore, Undisturbed
<1> QED BY <1>2, <1>3, SaneOn

\* What callers do.
LEMMA SaneCaller == ASSUME PInv, PInv', SaneBefore, Caller PROVE SaneBefore'
<1>1. CASE OpenFS
  <2>1. hist' = hist /\ pc = "closed" /\ pc' = "idle"
    BY <1>1 DEF OpenFS
  <2>2. hist.calls \in Nat
    BY ProgressTypes
  <2>3. CallsBefore <= CallsBefore' /\ (Undisturbed' => Undisturbed)
    BY <2>1, <2>2 DEF CallsBefore, Undisturbed
  <2> QED BY <2>1, <2>3, SaneOn
<1>2. CASE Sync
  <2>1. PICK s : image' = [image EXCEPT !.sb = s]
    BY <1>2 DEF Sync
  <2>2. /\ hist' = [hist EXCEPT !.before = image'] /\ pc = "idle" /\ pc' = "idle"
        /\ hist \in Histories
    BY <1>2, ProgressTypes DEF Sync
  <2>3. /\ hist'.before = image' /\ hist'.calls = hist.calls
        /\ hist'.kills = hist.kills /\ hist'.strands = hist.strands
    BY <2>2 DEF Histories
  <2>4. image = hist.before /\ Good(image)
    BY <2>2, IInvLinks DEF PInv, GInv, BeforeHolds, Good, IInv, TypeOK
  <2>5. Good(image')
    BY IInvLinks DEF PInv, GInv, IInv, TypeOK, Good, ReferencesResolve, LinksResolve
  <2>6. ASSUME Undisturbed' PROVE Sane(image', hist.calls)
    <3>1. Sane(image, hist.calls)
      BY <2>2, <2>3, <2>4, <2>6 DEF SaneBefore, CallsBefore, Undisturbed
    <3> QED BY <2>1, <2>4, <2>5, <3>1, SbTree
  <2> QED BY <2>2, <2>3, <2>6 DEF SaneBefore, CallsBefore
<1>3. CASE Close
  <2>1. 0 \in Nat /\ CloseWith("none", 0, 0) /\ pc = "idle"
    BY <1>3 DEF Close
  <2>2. image = hist.before
    BY <2>1 DEF PInv, GInv, BeforeHolds
  <2> QED BY <2>1, <2>2, SaneClose
<1>4. ASSUME NEW dir, NEW name, CallMkdir(dir, name) PROVE SaneBefore'
  BY <1>4, SaneCall DEF CallMkdir
<1>5. ASSUME NEW dir, NEW name, NEW data, CallCreateFile(dir, name, data) PROVE SaneBefore'
  BY <1>5, SaneCall DEF CallCreateFile
<1>6. ASSUME NEW in, NEW data, CallOverwrite(in, data) PROVE SaneBefore'
  BY <1>6, SaneCall DEF CallOverwrite
<1> QED BY <1>1, <1>2, <1>3, <1>4, <1>5, <1>6 DEF Caller

\* Steps inside an operation, ends apart.
LEMMA StepInside ==
    ASSUME Step
    PROVE  \/ \E status : Refuse(status)
           \/ hist' = hist /\ pc \in Making \cup Overwriting /\ pc' \in Making \cup Overwriting
           \/ \E in : Return(in) /\ AddDirent /\ ~DirentRefused(op.in, op.name) /\ ~MakesDir
           \/ \E in : Return(in) /\ WriteParent
           \/ \E in : Return(in) /\ OverwriteInode
<1> DEFINE Inside == hist' = hist /\ pc \in Making \cup Overwriting /\ pc' \in Making \cup Overwriting
<1>1. CASE LookupName
  BY <1>1 DEF LookupName, Making
<1>2. CASE PickGroup
  BY <1>2 DEF PickGroup, Making
<1>3. CASE AllocInode
  BY <1>3 DEF AllocInode, Making
<1>4. CASE AllocBlock
  BY <1>4 DEF AllocBlock, Making
<1>5. CASE WriteDesc \/ WriteBody \/ WriteInode
  BY <1>5 DEF WriteDesc, WriteBody, WriteInode, Making
<1>6. CASE AddDirent
  BY <1>6 DEF AddDirent, Making, MakesDir
<1>7. CASE WriteParent
  BY <1>7 DEF WriteParent
<1>8. CASE OverwriteData
  BY <1>8 DEF OverwriteData, Overwriting
<1>9. CASE OverwriteInode
  BY <1>9 DEF OverwriteInode
<1> QED BY <1>1, <1>2, <1>3, <1>4, <1>5, <1>6, <1>7, <1>8, <1>9 DEF Step

\* What an operation did.
LEMMA SaneStep ==
    ASSUME NamesFit, LinksFit, PInv, PInv', SaneBefore, Step PROVE SaneBefore'
<1>1. image' \in Image
  BY DEF PInv, GInv, IInv, TypeOK
<1>2. ASSUME NEW status, Refuse(status) PROVE SaneBefore'
  BY <1>2, SaneRefuse
<1>3. CASE hist' = hist /\ pc \in Making \cup Overwriting /\ pc' \in Making \cup Overwriting
  BY <1>3, SaneInside
<1>4. ASSUME NEW in, Return(in), AddDirent, ~DirentRefused(op.in, op.name), ~MakesDir
      PROVE  SaneBefore'
  <2>1. WasMade(hist.before, image') /\ pc \in Making
    BY <1>1, <1>4, CreateMade DEF AddDirent, Making
  <2> QED BY <1>4, <2>1, SaneReturn
<1>5. ASSUME NEW in, Return(in), WriteParent PROVE SaneBefore'
  <2>1. WasMade(hist.before, image') /\ pc \in Making
    BY <1>1, <1>5, MkdirMade DEF WriteParent, Making
  <2> QED BY <1>5, <2>1, SaneReturn
<1>6. ASSUME NEW in, Return(in), OverwriteInode PROVE SaneBefore'
  <2>1. Overwrote(hist.before, image') /\ pc \in Overwriting
    BY <1>1, <1>6, OverwriteMade DEF OverwriteInode, Overwriting
  <2> QED BY <1>6, <2>1, SaneReturn
<1> QED BY <1>2, <1>3, <1>4, <1>5, <1>6, StepInside

\* Every step.
LEMMA NextSane ==
    ASSUME GroupsFit, NamesFit, LinksFit, PInv, SaneBefore, [Next]_vars PROVE SaneBefore'
<1>1. PInv'
  BY NextPInv
<1>2. CASE Step
  BY <1>1, <1>2, SaneStep
<1>3. CASE Caller
  BY <1>1, <1>3, SaneCaller
<1>4. CASE Kill
  <2>1. 1 \in Nat /\ 0 \in Nat /\ CloseWith("killed", 1, 0)
    BY <1>4 DEF Kill
  <2> QED BY <1>1, <2>1, SaneClose
<1>5. CASE UNCHANGED vars
  BY <1>5 DEF vars, SaneBefore, Undisturbed, CallsBefore
<1> QED BY <1>2, <1>3, <1>4, <1>5 DEF Next

\* The initial image is sane.
LEMMA InitSane ==
    ASSUME StartsWithoutLongFiles, StartsWithWholeNames, LinksFit, Init PROVE SaneBefore
<1>1. image \in InitialImages /\ hist.before = image /\ hist.calls = 0 /\ pc = "closed"
  BY DEF Init
<1>2. FsckClean(image) /\ NoLongFiles(image) /\ WholeNames(image)
  BY <1>1, ImagesAssumption DEF StartsWithoutLongFiles, StartsWithWholeNames
<1>3. LinksWithin(image, 0)
  BY <1>1 DEF LinksFit, LinksWithin
<1> QED BY <1>1, <1>2, <1>3 DEF SaneBefore, Sane, CallsBefore

\* What an operation in progress has changed of the image it began with, and
\* that this one was clean unless something was interrupted or refused late.
THEOREM OperationsStartClean ==
    ASSUME GroupsFit, NamesFit, StartsWithoutLongFiles, StartsWithWholeNames, LinksFit
    PROVE  Spec => [](PInv /\ SaneBefore)
<1>1. Init => PInv /\ SaneBefore
  BY InitPInv, InitSane
<1>2. PInv /\ SaneBefore /\ [Next]_vars => (PInv /\ SaneBefore)'
  BY NextPInv, NextSane
<1> QED BY <1>1, <1>2, PTL DEF Spec

\* Where nothing is in progress the image is the one the next begins with.
LEMMA CleanBetween == PInv /\ SaneBefore => CleanBetweenOperations
BY DEF PInv, GInv, BeforeHolds, SaneBefore, Sane, CleanBetweenOperations

\* Between operations the filesystem is as e2fsck -fn wants it, whatever was
\* made and overwritten, unless an operation was interrupted or was refused
\* after it had begun to write.
THEOREM StaysClean ==
    ASSUME GroupsFit, NamesFit, StartsWithoutLongFiles, StartsWithWholeNames, LinksFit
    PROVE  Spec => []CleanBetweenOperations
BY CleanBetween, OperationsStartClean, PTL
-----------------------------------------------------------------------------
(* What is lost.  Nothing here needs a clean image.                        *)

\* From the old image to the new one the tree only grows, and no bit that
\* counts was set but those of the inodes N and the blocks C.
Takes(old, new, N, C) ==
    /\ \A n \in InUse(old) : /\ NodeAt(new, n).kind = NodeAt(old, n).kind
                             /\ NodeAt(new, n).owns = NodeAt(old, n).owns
    /\ \A d \in DirsOf(old) : \A b \in NodeAt(old, d).owns :
          RecordsKept(old.blk[b].ents, new.blk[b].ents)
    /\ \A g \in Group : /\ ~new.gd[g].iUninit => ~old.gd[g].iUninit
                        /\ ~new.gd[g].bUninit => ~old.gd[g].bUninit
    /\ \A g \in Group : \A i \in new.ibm[g] : i \in old.ibm[g] \/ InoNum(g, i) \in N
    /\ \A g \in Group : \A i \in new.bbm[g] : i \in old.bbm[g] \/ BlkNum(g, i) \in C

\* Only what was taken may be lost anew.
LEMMA TakesLoses ==
    ASSUME NEW old, NEW new, Good(old), Good(new), NEW N, NEW C, Takes(old, new, N, C)
    PROVE  /\ Reachable(old) \subseteq Reachable(new) /\ InUse(old) \subseteq InUse(new)
           /\ \A s \in StrandedInodes(new) : s \in StrandedInodes(old) \/ InoNum(s[1], s[2]) \in N
           /\ \A b \in StrandedBlocks(new) : b \in StrandedBlocks(old) \/ b \in C
<1>1. InUse(old) \subseteq InUse(new)
  BY DEF Takes, InUse
<1>2. Reachable(old) \subseteq Reachable(new)
  <2>1. \A d \in DirsOf(old) : NamesKeptIn(old, new, d)
    <3> SUFFICES ASSUME NEW d \in DirsOf(old) PROVE NamesKeptIn(old, new, d)
      OBVIOUS
    <3>1. d \in InUse(old)
      BY DEF DirsOf
    <3> QED BY <3>1, RecordsToNames DEF Takes
  <2> QED BY <2>1, ReachableGrows
<1>3. ASSUME NEW s \in StrandedInodes(new), InoNum(s[1], s[2]) \notin N
      PROVE  s \in StrandedInodes(old)
  <2>1. /\ s \in Slots /\ ~new.gd[s[1]].iUninit /\ s[2] \in new.ibm[s[1]]
        /\ InoNum(s[1], s[2]) >= FirstIno /\ InoNum(s[1], s[2]) \notin Reachable(new)
    BY DEF StrandedInodes
  <2>2. s[1] \in Group
    BY <2>1 DEF Slots
  <2>3. ~old.gd[s[1]].iUninit /\ s[2] \in old.ibm[s[1]]
    BY <1>3, <2>1, <2>2 DEF Takes
  <2> QED BY <1>2, <2>1, <2>3 DEF StrandedInodes
<1>4. ASSUME NEW b \in StrandedBlocks(new), b \notin C
      PROVE  b \in StrandedBlocks(old)
  <2>1. /\ b \in BlockNums \ MetaBlocks
        /\ b \notin OwnedBy(new, InUse(new) \cap Reachable(new))
    BY DEF StrandedBlocks
  <2>2. PICK g \in Group, i \in BlockIdx : b = BlkNum(g, i) /\ ~new.gd[g].bUninit /\ i \in new.bbm[g]
    BY DEF StrandedBlocks
  <2>3. ~old.gd[g].bUninit /\ i \in old.bbm[g]
    BY <1>4, <2>2 DEF Takes
  <2>4. b \notin OwnedBy(old, InUse(old) \cap Reachable(old))
    BY <1>1, <1>2, <2>1 DEF OwnedBy, Takes
  <2> QED BY <2>1, <2>2, <2>3, <2>4 DEF StrandedBlocks
<1> QED BY <1>1, <1>2, <1>3, <1>4

\* With the same tree nothing is taken.
LEMMA SameTreeTakes ==
    ASSUME NEW old, NEW new, SameTree(old, new) PROVE Takes(old, new, {}, {})
<1>1. InUse(old) \subseteq InodeNums
  BY SameTreeSeen
<1> QED BY <1>1, SameRecords DEF SameTree, Takes

\* A block taken from a group whose bitmap counts was nobody's.
LEMMA TakenFree ==
    ASSUME NEW old, NEW new, Good(old), loc.g \in Group, ~old.gd[loc.g].bUninit,
           BlockTaken(old, new)
    PROVE  loc.blk \in BlockNums /\ loc.blk \notin MetaBlocks \cup OwnedBy(old, InUse(old))
<1>1. PICK i \in BlockIdx \ old.bbm[loc.g] : loc.blk = BlkNum(loc.g, i)
  BY DEF BlockTaken
<1> QED BY <1>1, BlkNumLemma DEF Good, LinksResolve, BlocksMarked

\* The bits an operation takes.
LEMMA BitsTaken ==
    ASSUME NEW old \in Image, NEW new \in Image, loc.g \in Group
    PROVE  /\ InodeTaken(old, new) =>
                \A g \in Group : \A i \in new.ibm[g] : i \in old.ibm[g] \/ InoNum(g, i) \in {loc.ino}
           /\ BlockTaken(old, new) =>
                \A g \in Group : \A i \in new.bbm[g] : i \in old.bbm[g] \/ BlkNum(g, i) \in {loc.blk}
<1>1. ASSUME InodeTaken(old, new), NEW g \in Group, NEW i \in new.ibm[g]
      PROVE  i \in old.ibm[g] \/ InoNum(g, i) \in {loc.ino}
  <2>1. PICK k \in InodeIdx \ old.ibm[loc.g] :
            /\ loc.ino = InoNum(loc.g, k)
            /\ new.ibm = [old.ibm EXCEPT ![loc.g] = old.ibm[loc.g] \cup {k}]
    BY <1>1 DEF InodeTaken
  <2>2. new.ibm[g] = IF g = loc.g THEN old.ibm[g] \cup {k} ELSE old.ibm[g]
    BY <2>1 DEF Image
  <2> QED BY <1>1, <2>1, <2>2
<1>2. ASSUME BlockTaken(old, new), NEW g \in Group, NEW i \in new.bbm[g]
      PROVE  i \in old.bbm[g] \/ BlkNum(g, i) \in {loc.blk}
  <2>1. PICK k \in BlockIdx \ old.bbm[loc.g] :
            /\ loc.blk = BlkNum(loc.g, k)
            /\ new.bbm = [old.bbm EXCEPT ![loc.g] = old.bbm[loc.g] \cup {k}]
    BY <1>2 DEF BlockTaken
  <2>2. new.bbm[g] = IF g = loc.g THEN old.bbm[g] \cup {k} ELSE old.bbm[g]
    BY <2>1 DEF Image
  <2> QED BY <1>2, <2>1, <2>2
<1> QED BY <1>1, <1>2

\* The records the blocks of directories have after one was added.
LEMMA AddedRecordsKept ==
    ASSUME NEW old, NEW new, Good(old), loc.blk \notin OwnedBy(old, InUse(old)), NEW ftype,
           RecordAdded(old, new, ftype),
           NEW d \in DirsOf(old), NEW c \in NodeAt(old, d).owns
    PROVE  RecordsKept(old.blk[c].ents, new.blk[c].ents)
<1> DEFINE b == op.in.raw.blk
<1>1. d \in InUse(old) /\ c \in BlockNums
  <2>1. d \in InUse(old) /\ NodeAt(old, d) \in Inode
    BY NodeType DEF DirsOf, InUse, Good
  <2> QED BY <2>1 DEF Inode
<1>2. c # loc.blk
  BY <1>1 DEF OwnedBy
<1>3. CASE c = b
  <2>1. new.blk[c].ents = WithDirent(old.blk[c].ents, loc.ino, op.name, ftype) /\ Len(old.blk[c].ents) > 0
    BY <1>3 DEF RecordAdded, RoomFor
  <2>2. old.blk[c].ents \in Seq(Dirent)
    BY <1>1 DEF Good, Image, Block
  <2> QED BY <2>1, <2>2, WithDirentKeeps
<1>4. CASE c # b
  <2>1. new.blk[c] = old.blk[c]
    BY <1>1, <1>2, <1>4 DEF RecordAdded
  <2> QED BY <2>1, SameRecords
<1> QED BY <1>3, <1>4

\* A group with room is initialised, and stays so.
LEMMA DescStays ==
    ASSUME NEW old, NEW new, loc.g \in Group, HasRoom(old.gd[loc.g]),
           new.gd = old.gd \/ DescOnDisk(old, new)
    PROVE  \A g \in Group : /\ ~new.gd[g].iUninit => ~old.gd[g].iUninit
                            /\ ~new.gd[g].bUninit => ~old.gd[g].bUninit
BY DEF HasRoom, DescOnDisk

\* What was made took an inode and a block.
LEMMA MadeTakes ==
    ASSUME NEW old, NEW new, WasMade(old, new), Good(old)
    PROVE  Takes(old, new, {loc.ino}, {loc.blk})
<1>1. /\ old \in Image /\ new \in Image /\ loc.g \in Group /\ HasRoom(old.gd[loc.g])
      /\ InodeTaken(old, new) /\ BlockTaken(old, new) /\ DescOnDisk(old, new)
      /\ RecordAdded(old, new, MadeKind)
  BY DEF WasMade, MadeIn, MadeCounts, MadeBlocks
<1>2. loc.blk \notin OwnedBy(old, InUse(old))
  BY <1>1, TakenFree DEF HasRoom
<1>3. \A n \in InUse(old) : NodeAt(new, n).kind = NodeAt(old, n).kind /\ NodeAt(new, n).owns = NodeAt(old, n).owns
  BY MadeInUse DEF SameButLinks
<1>4. \A d \in DirsOf(old) : \A b \in NodeAt(old, d).owns : RecordsKept(old.blk[b].ents, new.blk[b].ents)
  BY <1>1, <1>2, AddedRecordsKept
<1> QED BY <1>1, <1>3, <1>4, BitsTaken, DescStays DEF Takes

\* The new inode has a path, and the new block is the inode's.
LEMMA MadeLosesNothing ==
    ASSUME NEW old, NEW new, WasMade(old, new), Good(old), Good(new)
    PROVE  /\ StrandedInodes(new) \subseteq StrandedInodes(old)
           /\ StrandedBlocks(new) \subseteq StrandedBlocks(old)
<1> DEFINE b == op.in.raw.blk
           p == op.in.num
<1>1. /\ Reachable(old) \subseteq Reachable(new)
      /\ \A s \in StrandedInodes(new) : s \in StrandedInodes(old) \/ InoNum(s[1], s[2]) \in {loc.ino}
      /\ \A c \in StrandedBlocks(new) : c \in StrandedBlocks(old) \/ c \in {loc.blk}
  BY MadeTakes, TakesLoses
<1>2. /\ p \in Reachable(old) /\ p \in DirsOf(old) /\ p \in InUse(old) /\ p \in DirsOf(new)
      /\ b = NodeAt(old, p).blk /\ NodeAt(old, p).single /\ op.name \notin {Dot, DotDot}
      /\ NodeAt(new, p).owns = NodeAt(old, p).owns
      /\ loc.ino \in InUse(new) /\ NodeAt(new, loc.ino).owns = {loc.blk}
  BY MadeInUse DEF WasMade, MadeIn, MadeNodes, PathNames, SameButLinks, DirsOf
<1>3. b \in NodeAt(new, p).owns
  BY <1>2 DEF Good, LinksResolve, ExtentsOwned
<1>4. \E f \in ToSet(new.blk[b].ents) : f.ino = loc.ino /\ f.name = op.name
  <2>1. /\ new.blk[b].ents = WithDirent(old.blk[b].ents, loc.ino, op.name, MadeKind)
        /\ Len(old.blk[b].ents) > 0
        /\ Last(old.blk[b].ents).rec - UsedLen(Last(old.blk[b].ents)) >= DirentLen(NameLen[op.name])
    BY DEF WasMade, MadeBlocks, RecordAdded, RoomFor
  <2>2. old.blk[b].ents \in Seq(Dirent)
    <3>1. NodeAt(old, p) \in Inode
      BY <1>2, NodeType DEF Good, InUse
    <3>2. b \in BlockNums
      BY <1>2, <1>3, <3>1 DEF Inode
    <3> QED BY <3>2 DEF Good, Image, Block
  <2> DEFINE ents == old.blk[b].ents
             after == new.blk[b].ents
  <2> HIDE DEF ents, after
  <2>3. /\ after = WithDirent(ents, loc.ino, op.name, MadeKind) /\ Len(ents) > 0
        /\ Last(ents).rec - UsedLen(Last(ents)) >= DirentLen(NameLen[op.name])
        /\ ents \in Seq(Dirent)
    BY <2>1, <2>2 DEF ents, after
  <2>4. PICK t \in Nat : t # 0 /\ DOMAIN after = 1 .. t /\ after[t].ino = loc.ino /\ after[t].name = op.name
    BY <2>3, WithDirentRecords
  <2>5. after[t] \in ToSet(after)
    BY <2>4 DEF ToSet
  <2> QED BY <2>4, <2>5 DEF after
<1>5. PICK f \in ToSet(new.blk[b].ents) : f.ino = loc.ino /\ f.name = op.name
  BY <1>4
<1>6. loc.ino # 0
  BY DEF WasMade, MadeIn, InodeNums
<1>7. f \in Children(new, p)
  BY <1>2, <1>3, <1>5, <1>6 DEF Children, Entries
<1>8. loc.ino \in Reachable(new)
  BY <1>1, <1>2, <1>5, <1>7, ReachableOn
<1>9. ASSUME NEW s \in StrandedInodes(new) PROVE s \in StrandedInodes(old)
  <2>1. InoNum(s[1], s[2]) \notin Reachable(new)
    BY DEF StrandedInodes
  <2> QED BY <1>1, <1>8, <2>1
<1>10. ASSUME NEW c \in StrandedBlocks(new) PROVE c \in StrandedBlocks(old)
  <2>1. c \notin OwnedBy(new, InUse(new) \cap Reachable(new))
    BY DEF StrandedBlocks
  <2>2. loc.blk \in OwnedBy(new, InUse(new) \cap Reachable(new))
    BY <1>2, <1>8 DEF OwnedBy
  <2> QED BY <1>1, <2>1, <2>2
<1> QED BY <1>9, <1>10
\* Where an operation in progress has written, it has taken an inode and a block
\* at most.
LEMMA NowTakes ==
    ASSUME PInv, Good(hist.before), image # hist.before
    PROVE  \/ pc \in Holding /\ Takes(hist.before, image, {loc.ino}, {loc.blk})
           \/ pc = "oinode" /\ Takes(hist.before, image, {}, {})
<1> DEFINE old == hist.before
<1>1. /\ TypeOK /\ BeforeHolds /\ image \in Image /\ old \in Image /\ loc.g \in Group
      /\ pc \in PCs /\ LinksResolve(old)
  BY ProgressTypes DEF TypeOK, Good
<1>2. BegunHolds /\ BitmapsHold /\ CountsHold /\ NodesHold /\ ContentsHold
  BY DEF PInv, Progress
<1>3. pc \in Holding \/ pc = "oinode"
  BY <1>1 DEF BeforeHolds, PCs, Holding
<1>4. CASE pc = "oinode"
  <2>1. /\ image.ibm = old.ibm /\ image.bbm = old.bbm /\ image.gd = old.gd /\ image.itab = old.itab
        /\ \A c \in BlockNums \ {op.in.raw.blk} : image.blk[c] = old.blk[c]
    BY <1>2, <1>4 DEF BitmapsHold, CountsHold, NodesHold, ContentsHold
  <2>2. \A n : NodeAt(image, n) = NodeAt(old, n)
    BY <2>1 DEF NodeAt
  <2>3. /\ op.in = ReadInode(old, op.in.num) /\ op.in.num \in InUse(old) /\ ~OverwriteRefused
        /\ op.in.raw.kind # "free"
    BY <1>2, <1>4 DEF BegunHolds, Overwriting, PInv, GInv, IInv, ArgumentsHold
  <2>4. /\ op.in.raw = NodeAt(old, op.in.num) /\ op.in.raw.kind # "dir" /\ op.in.raw.single
    BY <2>3 DEF ReadInode, OverwriteRefused
  <2>5. op.in.raw.blk \in NodeAt(old, op.in.num).owns
    BY <1>1, <2>3, <2>4 DEF LinksResolve, ExtentsOwned
  <2>6. ASSUME NEW d \in DirsOf(old), NEW b \in NodeAt(old, d).owns
        PROVE  RecordsKept(old.blk[b].ents, image.blk[b].ents)
    <3>1. d \in InUse(old) /\ d # op.in.num
      BY <2>4 DEF DirsOf
    <3>2. b # op.in.raw.blk
      BY <1>1, <2>3, <2>5, <3>1 DEF LinksResolve, BlocksOwnedOnce
    <3>3. b \in BlockNums
      <4>1. NodeAt(old, d) \in Inode
        BY <1>1, <3>1, NodeType DEF InUse
      <4> QED BY <4>1 DEF Inode
    <3>4. image.blk[b] = old.blk[b]
      BY <2>1, <3>2, <3>3
    <3> QED BY <3>4, SameRecords
  <2>7. Takes(old, image, {}, {})
    BY <2>1, <2>2, <2>6 DEF Takes
  <2> QED BY <1>4, <2>7
<1>5. CASE pc \in Holding
  <2>1. InodeTaken(old, image) /\ HasRoom(old.gd[loc.g])
    BY <1>2, <1>5 DEF BitmapsHold
  <2>2. image.bbm = old.bbm \/ BlockTaken(old, image)
    BY <1>2, <1>5 DEF BitmapsHold, Holding
  <2>3. pc = "balloc" \/ BlockTaken(old, image)
    BY <1>2, <1>5 DEF BitmapsHold, Holding
  <2>4. image.gd = old.gd \/ DescOnDisk(old, image)
    BY <1>2, <1>5 DEF CountsHold, Holding
  <2>5. /\ \A g \in Group : \A i \in image.ibm[g] : i \in old.ibm[g] \/ InoNum(g, i) \in {loc.ino}
        /\ \A g \in Group : \A i \in image.bbm[g] : i \in old.bbm[g] \/ BlkNum(g, i) \in {loc.blk}
    BY <1>1, <2>1, <2>2, BitsTaken
  <2>6. \A n \in InUse(old) : NodeAt(image, n) = NodeAt(old, n)
    <3>1. CASE pc \in {"balloc", "desc", "body", "inode"}
      BY <1>2, <3>1 DEF NodesHold, NodeAt
    <3>2. CASE pc \in {"dirent", "parent"}
      BY <1>2, <3>2 DEF NodesHold, InUse
    <3> QED BY <1>5, <3>1, <3>2 DEF Holding
  <2>7. pc # "balloc" => loc.blk \notin OwnedBy(old, InUse(old))
    BY <1>1, <2>1, <2>3, TakenFree DEF HasRoom, Good
  <2>8. ASSUME NEW d \in DirsOf(old), NEW b \in NodeAt(old, d).owns
        PROVE  RecordsKept(old.blk[b].ents, image.blk[b].ents)
    <3>1. CASE pc \in {"balloc", "desc", "body"}
      BY <1>2, <3>1, SameRecords DEF ContentsHold
    <3>2. CASE pc \in {"inode", "dirent"}
      <4>1. d \in InUse(old) /\ NodeAt(old, d) \in Inode
        BY <1>1, NodeType DEF DirsOf, InUse
      <4>2. b \in BlockNums /\ b # loc.blk
        BY <2>7, <3>2, <4>1 DEF Inode, OwnedBy
      <4>3. image.blk[b] = old.blk[b]
        BY <1>2, <3>2, <4>2 DEF ContentsHold
      <4> QED BY <4>3, SameRecords
    <3>3. CASE pc = "parent"
      <4>1. RecordAdded(old, image, "dir")
        BY <1>2, <3>3 DEF ContentsHold
      <4> QED BY <2>7, <3>3, <4>1, AddedRecordsKept
    <3> QED BY <1>5, <3>1, <3>2, <3>3 DEF Holding
  <2>9. \A g \in Group : /\ ~image.gd[g].iUninit => ~old.gd[g].iUninit
                         /\ ~image.gd[g].bUninit => ~old.gd[g].bUninit
    BY <1>1, <2>1, <2>4, DescStays
  <2>10. Takes(old, image, {loc.ino}, {loc.blk})
    BY <2>5, <2>6, <2>8, <2>9 DEF Takes
  <2> QED BY <1>5, <2>10
<1> QED BY <1>3, <1>4, <1>5

-----------------------------------------------------------------------------
(* How much of it there is.                                                *)

\* What is lost is finite.
LEMMA StrandedFinite ==
    ASSUME NEW img
    PROVE  IsFiniteSet(StrandedInodes(img)) /\ IsFiniteSet(StrandedBlocks(img))
<1>1. IsFiniteSet(Group) /\ IsFiniteSet(InodeIdx) /\ IsFiniteSet(BlockNums)
  <2>1. /\ NumGroups - 1 \in Int /\ InodesPerGroup - 1 \in Int /\ FirstDataBlock \in Int
        /\ FirstDataBlock + NumGroups * BlocksPerGroup - 1 \in Int /\ 0 \in Int
    BY GeometryAssumption, SMT
  <2> QED BY <2>1, FS_Interval DEF Group, InodeIdx, BlockNums
<1>2. IsFiniteSet(Slots)
  BY <1>1, FS_Product DEF Slots
<1>3. StrandedInodes(img) \subseteq Slots /\ StrandedBlocks(img) \subseteq BlockNums
  BY DEF StrandedInodes, StrandedBlocks
<1> QED BY <1>1, <1>2, <1>3, FS_Subset

\* A set within another has at most as many members, one more at most one more.
LEMMA OneMoreAtMost ==
    ASSUME NEW A, NEW B, IsFiniteSet(B), NEW x
    PROVE  /\ A \subseteq B => Cardinality(A) <= Cardinality(B)
           /\ A \subseteq B \cup {x} => Cardinality(A) <= Cardinality(B) + 1
           /\ Cardinality(B) \in Nat
<1>1. IsFiniteSet(B \cup {x}) /\ Cardinality(B) \in Nat
  BY FS_AddElement, FS_CardinalityType
<1>2. Cardinality(B \cup {x}) <= Cardinality(B) + 1
  <2>1. x \in B \/ Cardinality(B \cup {x}) = Cardinality(B) + 1
    BY FS_AddElement
  <2>2. x \in B => B \cup {x} = B
    OBVIOUS
  <2> QED BY <1>1, <2>1, <2>2
<1>3. Cardinality(B \cup {x}) \in Nat
  BY <1>1, FS_CardinalityType
<1>4. A \subseteq B => Cardinality(A) <= Cardinality(B)
  BY FS_Subset
<1>5. A \subseteq B \cup {x} => Cardinality(A) <= Cardinality(B) + 1
  <2> SUFFICES ASSUME A \subseteq B \cup {x} PROVE Cardinality(A) <= Cardinality(B) + 1
    OBVIOUS
  <2>1. Cardinality(A) <= Cardinality(B \cup {x}) /\ IsFiniteSet(A)
    BY <1>1, FS_Subset
  <2>2. Cardinality(A) \in Nat
    BY <2>1, FS_CardinalityType
  <2> QED BY <1>1, <1>2, <1>3, <2>1, <2>2
<1> QED BY <1>1, <1>4, <1>5

\* No more inodes, and no more blocks, are lost than k.
LostAtMost(img, k) ==
    Cardinality(StrandedInodes(img)) <= k /\ Cardinality(StrandedBlocks(img)) <= k

\* Where nothing is lost anew as much is lost as before.
LEMMA LostNoMore ==
    ASSUME NEW old, NEW new, NEW k \in Nat, NEW l \in Nat, k <= l, LostAtMost(old, k),
           StrandedInodes(new) \subseteq StrandedInodes(old),
           StrandedBlocks(new) \subseteq StrandedBlocks(old)
    PROVE  LostAtMost(new, l)
<1>1. /\ Cardinality(StrandedInodes(new)) <= Cardinality(StrandedInodes(old))
      /\ Cardinality(StrandedBlocks(new)) <= Cardinality(StrandedBlocks(old))
      /\ Cardinality(StrandedInodes(old)) \in Nat /\ Cardinality(StrandedBlocks(old)) \in Nat
      /\ Cardinality(StrandedInodes(new)) \in Nat /\ Cardinality(StrandedBlocks(new)) \in Nat
  BY StrandedFinite, OneMoreAtMost
<1> QED BY <1>1 DEF LostAtMost

\* What the start of the operation in progress, or of the next one, has lost.
LostBefore ==
    Good(hist.before) /\ LostAtMost(hist.before, hist.kills + hist.strands)

\* What an operation in progress has lost so far.
LEMMA LostNow ==
    ASSUME PInv, LostBefore
    PROVE  LostAtMost(image, hist.kills + hist.strands + (IF image = hist.before THEN 0 ELSE 1))
<1> DEFINE old == hist.before
           k == hist.kills + hist.strands
<1>1. k \in Nat
  BY DEF PInv, GInv, IInv, TypeOK, Histories
<1>2. CASE image = old
  BY <1>1, <1>2 DEF LostBefore
<1>3. CASE image # old
  <2>1. Good(old) /\ Good(image)
    BY IInvLinks DEF LostBefore, Good, PInv, GInv, IInv, TypeOK
  <2>2. Takes(old, image, {loc.ino}, {loc.blk}) \/ Takes(old, image, {}, {})
    BY <1>3, <2>1, NowTakes
  <2>3. StrandedInodes(image) \subseteq StrandedInodes(old) \cup {InodeSlot(loc.ino)}
    <3> SUFFICES ASSUME NEW s \in StrandedInodes(image), s \notin StrandedInodes(old)
                 PROVE  s = InodeSlot(loc.ino)
      OBVIOUS
    <3>1. InoNum(s[1], s[2]) = loc.ino
      BY <2>1, <2>2, TakesLoses
    <3>2. s \in Slots
      BY DEF StrandedInodes
    <3>3. s[1] \in Group /\ s[2] \in InodeIdx /\ s = <<s[1], s[2]>>
      BY <3>2 DEF Slots
    <3> QED BY <3>1, <3>3, InoNumLemma
  <2>4. StrandedBlocks(image) \subseteq StrandedBlocks(old) \cup {loc.blk}
    BY <2>1, <2>2, TakesLoses
  <2>5. /\ Cardinality(StrandedInodes(image)) <= Cardinality(StrandedInodes(old)) + 1
        /\ Cardinality(StrandedBlocks(image)) <= Cardinality(StrandedBlocks(old)) + 1
        /\ Cardinality(StrandedInodes(old)) \in Nat /\ Cardinality(StrandedBlocks(old)) \in Nat
        /\ Cardinality(StrandedInodes(image)) \in Nat /\ Cardinality(StrandedBlocks(image)) \in Nat
    BY <2>3, <2>4, StrandedFinite, OneMoreAtMost
  <2>6. LostAtMost(old, k)
    BY DEF LostBefore
  <2> HIDE DEF k, old
  <2>7. LostAtMost(image, k + 1)
    BY <1>1, <2>5, <2>6 DEF LostAtMost
  <2> QED BY <1>3, <2>7 DEF k, old
<1> QED BY <1>2, <1>3

\* What is lost is bounded in every state.
LEMMA LostBounds == ASSUME PInv, LostBefore PROVE LeaksBounded
<1> DEFINE k == hist.kills + hist.strands
           new == IF image = hist.before THEN 0 ELSE 1
<1>1. k \in Nat /\ (pc \in {"closed", "idle"} => image = hist.before)
  BY DEF PInv, GInv, BeforeHolds, IInv, TypeOK, Histories
<1>2. LostAtMost(image, k + new)
  BY LostNow
<1>3. k + new <= k + InProgress /\ new \in Nat /\ InProgress \in Nat
  BY <1>1 DEF InProgress
<1> HIDE DEF k, new
<1>4. k + new \in Nat /\ k + InProgress \in Nat
  BY <1>1, <1>3
<1>5. LostAtMost(image, k + InProgress)
  BY <1>2, <1>3, <1>4, LostNoMore
<1> QED BY <1>5 DEF LostAtMost, LeaksBounded, k
\* The superblock is not the tree.
LEMMA SbLoses ==
    ASSUME NEW old, NEW new, Good(old), Good(new), NEW s, new = [old EXCEPT !.sb = s]
    PROVE  /\ StrandedInodes(new) \subseteq StrandedInodes(old)
           /\ StrandedBlocks(new) \subseteq StrandedBlocks(old)
<1>1. /\ new.csum = old.csum /\ new.gd = old.gd /\ new.ibm = old.ibm /\ new.bbm = old.bbm
      /\ new.itab = old.itab /\ new.blk = old.blk
  BY DEF Good, Image
<1>2. SameTree(old, new)
  BY <1>1 DEF SameTree, NodeAt, Good
<1> QED BY <1>2, SameTreeTakes, TakesLoses

\* The image an operation begins with is sound where the one it ends with is.
LEMMA BeforeGood ==
    ASSUME PInv, PInv', Good(hist.before),
           hist'.before \in {hist.before, image, image'}
    PROVE  Good(hist.before)'
<1>1. Good(image) /\ Good(image')
  BY IInvLinks DEF PInv, GInv, IInv, TypeOK, Good, ReferencesResolve, LinksResolve
<1> QED BY <1>1 DEF Good, LinksResolve, InodesMarked, BlocksMarked, BlocksOwnedOnce, RecordsLead, ExtentsOwned

\* A step that begins or goes on with an operation.
LEMMA LostOn ==
    ASSUME PInv, PInv', LostBefore, hist'.before = hist.before,
           hist'.kills = hist.kills, hist'.strands = hist.strands
    PROVE  LostBefore'
<1>1. Good(hist.before)'
  BY BeforeGood DEF LostBefore
<1> QED BY <1>1 DEF LostBefore, LostAtMost, StrandedInodes, StrandedBlocks

\* An end of the session that counts what may be lost.
LEMMA LostClose ==
    ASSUME PInv, PInv', LostBefore, NEW status, NEW kills \in Nat, NEW strands \in Nat,
           CloseWith(status, kills, strands), image = hist.before \/ kills + strands >= 1
    PROVE  LostBefore'
<1> DEFINE k == hist.kills + hist.strands
           new == IF image = hist.before THEN 0 ELSE 1
<1>1. /\ hist'.before = image
      /\ hist'.kills = hist.kills + kills /\ hist'.strands = hist.strands + strands
  BY CloseLeaves DEF PInv, GInv
<1>2. hist.kills \in Nat /\ hist.strands \in Nat
  BY DEF PInv, GInv, IInv, TypeOK, Histories
<1>3. LostAtMost(image, k + new)
  BY LostNow
<1>4. new <= kills + strands /\ new \in Nat
  OBVIOUS
<1>5. (hist.kills + hist.strands)' = k + (kills + strands) /\ k \in Nat
  BY <1>1, <1>2
<1> HIDE DEF k, new
<1>6. k + new \in Nat /\ k + (kills + strands) \in Nat /\ k + new <= k + (kills + strands)
  BY <1>4, <1>5
<1>7. LostAtMost(image, k + (kills + strands))
  BY <1>3, <1>6, LostNoMore
<1>8. Good(hist.before)'
  BY <1>1, BeforeGood DEF LostBefore
<1> QED BY <1>1, <1>5, <1>7, <1>8 DEF LostBefore, LostAtMost, StrandedInodes, StrandedBlocks

\* A success, or a flush: the image it leaves has lost nothing anew.
LEMMA LostReturn ==
    ASSUME PInv, PInv', LostBefore, hist'.before = image',
           hist'.kills = hist.kills, hist'.strands = hist.strands,
           StrandedInodes(image') \subseteq StrandedInodes(hist.before),
           StrandedBlocks(image') \subseteq StrandedBlocks(hist.before)
    PROVE  LostBefore'
<1> DEFINE k == hist.kills + hist.strands
<1>1. k \in Nat /\ k <= k
  BY DEF PInv, GInv, IInv, TypeOK, Histories
<1>2. LostAtMost(hist.before, k)
  BY DEF LostBefore
<1>3. (hist.kills + hist.strands)' = k
  OBVIOUS
<1> HIDE DEF k
<1>4. LostAtMost(image', k)
  BY <1>1, <1>2, LostNoMore
<1>5. Good(hist.before)'
  BY BeforeGood DEF LostBefore
<1> QED BY <1>3, <1>4, <1>5 DEF LostBefore, LostAtMost, StrandedInodes, StrandedBlocks

\* What an operation did.
LEMMA LostStep == ASSUME PInv, PInv', LostBefore, Step PROVE LostBefore'
<1>1. image' \in Image /\ Good(hist.before) /\ Good(image')
  BY IInvLinks DEF PInv, GInv, IInv, TypeOK, LostBefore, Good, ReferencesResolve, LinksResolve
<1>2. ASSUME NEW status, Refuse(status) PROVE LostBefore'
  <2> DEFINE strands == IF image = hist.before THEN 0 ELSE 1
  <2>1. strands \in Nat /\ 0 \in Nat /\ CloseWith(status, 0, strands)
    BY <1>2 DEF Refuse
  <2>2. image = hist.before \/ 0 + strands >= 1
    OBVIOUS
  <2> HIDE DEF strands
  <2> QED BY <2>1, <2>2, LostClose
<1>3. CASE hist' = hist
  BY <1>3, LostOn
<1>4. ASSUME NEW in, Return(in), WasMade(hist.before, image') PROVE LostBefore'
  <2>1. /\ hist'.before = image' /\ hist'.kills = hist.kills /\ hist'.strands = hist.strands
    BY <1>4, ReturnLeaves
  <2> QED BY <1>1, <1>4, <2>1, MadeLosesNothing, LostReturn
<1>5. ASSUME NEW in, Return(in), Overwrote(hist.before, image') PROVE LostBefore'
  <2>1. /\ hist'.before = image' /\ hist'.kills = hist.kills /\ hist'.strands = hist.strands
    BY <1>5, ReturnLeaves
  <2>2. Takes(hist.before, image', {}, {})
    BY <1>1, <1>5, OverwroteTree, SameTreeTakes
  <2>3. /\ StrandedInodes(image') \subseteq StrandedInodes(hist.before)
        /\ StrandedBlocks(image') \subseteq StrandedBlocks(hist.before)
    BY <1>1, <2>2, TakesLoses
  <2> QED BY <2>1, <2>3, LostReturn
<1> QED BY <1>1, <1>2, <1>3, <1>4, <1>5, StepInside, CreateMade, MkdirMade, OverwriteMade

\* What callers do.
LEMMA LostCaller == ASSUME PInv, PInv', LostBefore, Caller PROVE LostBefore'
<1>0. hist \in Histories
  BY ProgressTypes
<1>1. CASE OpenFS
  BY <1>1, LostOn DEF OpenFS
<1>2. CASE Sync
  <2>1. PICK s : image' = [image EXCEPT !.sb = s]
    BY <1>2 DEF Sync
  <2>2. /\ hist' = [hist EXCEPT !.before = image'] /\ pc = "idle"
    BY <1>2 DEF Sync
  <2>3. hist'.before = image' /\ hist'.kills = hist.kills /\ hist'.strands = hist.strands
    BY <1>0, <2>2 DEF Histories
  <2>4. image = hist.before /\ Good(image) /\ Good(image')
    BY <2>2, IInvLinks
    DEF PInv, GInv, BeforeHolds, IInv, TypeOK, Good, ReferencesResolve, LinksResolve
  <2> QED BY <2>1, <2>3, <2>4, SbLoses, LostReturn
<1>3. CASE Close
  <2>1. 0 \in Nat /\ CloseWith("none", 0, 0) /\ pc = "idle"
    BY <1>3 DEF Close
  <2>2. image = hist.before
    BY <2>1 DEF PInv, GInv, BeforeHolds
  <2> QED BY <2>1, <2>2, LostClose
<1>4. ASSUME NEW kind, NEW in, NEW name, NEW data, NEW first, Call(kind, in, name, data, first)
      PROVE  LostBefore'
  <2>1. hist' = [hist EXCEPT !.calls = @ + 1]
    BY <1>4 DEF Call
  <2>2. /\ hist'.before = hist.before /\ hist'.kills = hist.kills
        /\ hist'.strands = hist.strands
    BY <1>0, <2>1 DEF Histories
  <2> QED BY <2>2, LostOn
<1>5. ASSUME NEW dir, NEW name, CallMkdir(dir, name) PROVE LostBefore'
  BY <1>4, <1>5 DEF CallMkdir
<1>6. ASSUME NEW dir, NEW name, NEW data, CallCreateFile(dir, name, data) PROVE LostBefore'
  BY <1>4, <1>6 DEF CallCreateFile
<1>7. ASSUME NEW in, NEW data, CallOverwrite(in, data) PROVE LostBefore'
  BY <1>4, <1>7 DEF CallOverwrite
<1> QED BY <1>1, <1>2, <1>3, <1>5, <1>6, <1>7 DEF Caller

\* Every step.
LEMMA NextLost == ASSUME GroupsFit, PInv, LostBefore, [Next]_vars PROVE LostBefore'
<1>1. PInv'
  BY NextPInv
<1>2. CASE Step
  BY <1>1, <1>2, LostStep
<1>3. CASE Caller
  BY <1>1, <1>3, LostCaller
<1>4. CASE Kill
  <2>1. 1 \in Nat /\ 0 \in Nat /\ 1 + 0 >= 1 /\ CloseWith("killed", 1, 0)
    BY <1>4 DEF Kill
  <2> QED BY <1>1, <2>1, LostClose
<1>5. CASE UNCHANGED vars
  BY <1>1, <1>5, LostOn DEF vars
<1> QED BY <1>2, <1>3, <1>4, <1>5 DEF Next

\* A clean image has lost nothing.
LEMMA InitLost == ASSUME Init PROVE LostBefore
<1>1. /\ image \in Image /\ FsckClean(image) /\ hist.before = image
      /\ hist.kills = 0 /\ hist.strands = 0
  BY ImagesAssumption DEF Init
<1>2. Good(image)
  BY <1>1, CleanResolves DEF Good
<1>3. BitmapsMatch(image) /\ InUse(image) \subseteq Reachable(image)
  BY <1>1 DEF FsckClean, EveryInodeAttached
<1>4. ASSUME NEW s \in StrandedInodes(image) PROVE FALSE
  <2>1. /\ s \in Slots /\ ~image.gd[s[1]].iUninit /\ s[2] \in image.ibm[s[1]]
        /\ InoNum(s[1], s[2]) >= FirstIno /\ InoNum(s[1], s[2]) \notin Reachable(image)
    BY DEF StrandedInodes
  <2>2. s[1] \in Group /\ s[2] \in InodeIdx
    BY <2>1 DEF Slots
  <2>3. s[2] \in UsedInodeBits(image, s[1])
    BY <1>3, <2>1, <2>2 DEF BitmapsMatch
  <2>4. InoNum(s[1], s[2]) \in Int /\ FirstIno \in Int
    BY <2>2, InoNumLemma, GeometryAssumption DEF InodeNums
  <2>5. InoNum(s[1], s[2]) \in InUse(image)
    BY <2>1, <2>3, <2>4 DEF UsedInodeBits
  <2> QED BY <1>3, <2>1, <2>5
<1>5. ASSUME NEW b \in StrandedBlocks(image) PROVE FALSE
  <2>1. b \notin MetaBlocks /\ b \notin OwnedBy(image, InUse(image) \cap Reachable(image))
    BY DEF StrandedBlocks
  <2>2. PICK g \in Group, i \in BlockIdx :
            b = BlkNum(g, i) /\ ~image.gd[g].bUninit /\ i \in image.bbm[g]
    BY DEF StrandedBlocks
  <2>3. i \in UsedBlockBits(image, g)
    BY <1>3, <2>2 DEF BitmapsMatch
  <2>4. InUse(image) \cap Reachable(image) = InUse(image)
    BY <1>3
  <2> QED BY <2>1, <2>2, <2>3, <2>4 DEF UsedBlockBits
<1>6. StrandedInodes(image) = {} /\ StrandedBlocks(image) = {}
  BY <1>4, <1>5
<1>7. LostAtMost(image, 0 + 0)
  BY <1>6, FS_EmptySet DEF LostAtMost
<1> QED BY <1>1, <1>2, <1>7 DEF LostBefore

\* What the image the operation in progress began with has lost.
THEOREM LostInvariance == ASSUME GroupsFit PROVE Spec => [](PInv /\ LostBefore)
<1>1. Init => PInv /\ LostBefore
  BY InitPInv, InitLost
<1>2. PInv /\ LostBefore /\ [Next]_vars => (PInv /\ LostBefore)'
  BY NextPInv, NextLost
<1> QED BY <1>1, <1>2, PTL DEF Spec

\* An interruption, or a refusal after the first write, costs one inode and one
\* block at most, however many there are and whatever they strike.
THEOREM LeaksStayBounded == ASSUME GroupsFit PROVE Spec => []LeaksBounded
<1>1. PInv /\ LostBefore => LeaksBounded
  BY LostBounds
<1> QED BY <1>1, LostInvariance, PTL

-----------------------------------------------------------------------------
(* Resolving a path.                                                       *)

\* A turn of the walk leads to inodes in use.
LEMMA TurnType ==
    ASSUME NEW img, Good(img), NEW X \in SUBSET InodeNums, NEW name
    PROVE  Turn(img, X, name) \subseteq InUse(img) /\ InUse(img) \subseteq InodeNums
<1> SUFFICES ASSUME NEW n \in X, ~Unwalkable(img, n), Lookup(img, ReadInode(img, n), name) # 0
             PROVE  Lookup(img, ReadInode(img, n), name) \in InUse(img)
  BY DEF Turn, InUse
<1> QED BY WalkableIs, LookupFinds

\* The walk, part by part.
LEMMA WalkUnfolds ==
    ASSUME NEW img, Good(img), NEW parts \in Seq(Names)
    PROVE  /\ Walk(img, parts) \in [0 .. Len(parts) -> SUBSET InodeNums]
           /\ Walk(img, parts)[0] = {RootIno}
           /\ \A k \in 1 .. Len(parts) :
                  Walk(img, parts)[k] = Turn(img, Walk(img, parts)[k - 1], parts[k])
<1> DEFINE N == Len(parts)
           V == SUBSET InodeNums
           next == [k \in 1 .. N |-> [X \in V |-> Turn(img, X, parts[k])]]
<1>1. N \in Nat
  BY LenProperties
<1>2. RootIno \in InodeNums
  <2>1. NumGroups >= 1 /\ InodesPerGroup >= 3 /\ NumGroups \in Nat /\ InodesPerGroup \in Nat
    BY GeometryAssumption DEF RootIno
  <2>2. NumGroups * InodesPerGroup >= InodesPerGroup
    BY <2>1, SMT
  <2> QED BY <2>1, <2>2 DEF InodeNums, RootIno
<1>3. next \in [1 .. N -> [V -> V]] /\ {RootIno} \in V
  BY <1>2, TurnType
<1>4. PICK f \in [0 .. N -> V] : Follows(f, N, {RootIno}, next)
  <2> HIDE DEF next, N, V
  <2> QED BY <1>1, <1>3, Recursion
<1>5. ASSUME NEW k \in 1 .. N PROVE f[k] = Turn(img, f[k - 1], parts[k])
  <2>1. k - 1 \in 0 .. N
    BY <1>1
  <2>2. f[k - 1] \in V
    BY <2>1
  <2>3. f[k] = next[k][f[k - 1]]
    BY <1>4 DEF Follows
  <2> QED BY <2>2, <2>3
<1> DEFINE w == Walk(img, parts)
<1>6. f = [k \in 0 .. N |-> IF k = 0 THEN {RootIno} ELSE Turn(img, f[k - 1], parts[k])]
  BY <1>1, <1>4, <1>5 DEF Follows
<1>7. w = [k \in 0 .. N |-> IF k = 0 THEN {RootIno} ELSE Turn(img, w[k - 1], parts[k])]
  BY <1>6 DEF Walk
<1> HIDE DEF w
<1> HIDE DEF N, V, next
<1>8. /\ w[0] = {RootIno}
      /\ \A k \in 1 .. N : w[k] = Turn(img, w[k - 1], parts[k])
  <2>1. 0 \in 0 .. N
    BY <1>1
  <2>2. \A k \in 1 .. N : k \in 0 .. N /\ k # 0
    BY <1>1
  <2> QED BY <1>7, <2>1, <2>2
<1>9. \A k \in 0 .. N : w[k] \in V
  <2> DEFINE T == {k \in 0 .. N : w[k] \in V}
  <2>1. 0 \in T
    BY <1>1, <1>3, <1>8
  <2>2. ASSUME NEW k \in 0 .. N - 1, k \in T PROVE k + 1 \in T
    <3>1. k + 1 \in 1 .. N /\ k + 1 \in 0 .. N /\ (k + 1) - 1 = k
      BY <1>1
    <3>2. w[k + 1] = Turn(img, w[k], parts[k + 1])
      BY <1>8, <3>1
    <3> QED BY <2>2, <3>1, <3>2, TurnType DEF V
  <2> HIDE DEF T
  <2>3. \A k \in 0 .. N : k \in T
    BY <1>1, <2>1, <2>2, UpTo
  <2> QED BY <2>3 DEF T
<1>10. w \in [0 .. N -> V]
  BY <1>7, <1>9
<1> QED BY <1>8, <1>10 DEF w, N, V

\* What the walk does on the way to a part does not depend on what follows.
LEMMA WalkPrefix ==
    ASSUME NEW img, Good(img), NEW parts \in Seq(Names), NEW n \in 0 .. Len(parts)
    PROVE  /\ SubSeq(parts, 1, n) \in Seq(Names) /\ Len(SubSeq(parts, 1, n)) = n
           /\ \A k \in 0 .. n : Walk(img, SubSeq(parts, 1, n))[k] = Walk(img, parts)[k]
<1> DEFINE q == SubSeq(parts, 1, n)
<1>1. Len(parts) \in Nat /\ n \in Nat /\ n <= Len(parts)
  BY LenProperties
<1>2. q \in Seq(Names) /\ Len(q) = n /\ \A k \in 1 .. n : q[k] = parts[k]
  <2>1. \A k \in 1 .. n : parts[k] \in Names
    BY <1>1, ElementOfSeq
  <2>2. /\ q \in Seq(Names)
        /\ Len(q) = IF 1 <= n THEN n - 1 + 1 ELSE 0
        /\ \A k \in 1 .. n - 1 + 1 : q[k] = parts[1 + k - 1]
    BY <1>1, <2>1, SubSeqProperties
  <2> HIDE DEF q
  <2> QED BY <1>1, <2>2
<1> HIDE DEF q
<1> DEFINE v == Walk(img, q)
           w == Walk(img, parts)
           T == {k \in 0 .. n : v[k] = w[k]}
<1>3. /\ v[0] = {RootIno} /\ w[0] = {RootIno}
      /\ \A k \in 1 .. n : v[k] = Turn(img, v[k - 1], q[k])
      /\ \A k \in 1 .. n : w[k] = Turn(img, w[k - 1], parts[k])
  <2>1. v[0] = {RootIno} /\ \A k \in 1 .. Len(q) : v[k] = Turn(img, v[k - 1], q[k])
    BY <1>2, WalkUnfolds
  <2>2. /\ w[0] = {RootIno}
        /\ \A k \in 1 .. Len(parts) : w[k] = Turn(img, w[k - 1], parts[k])
    BY WalkUnfolds
  <2>3. \A k \in 1 .. n : k \in 1 .. Len(parts)
    BY <1>1
  <2> HIDE DEF v, w
  <2> QED BY <1>2, <2>1, <2>2, <2>3
<1> HIDE DEF v, w
<1>4. 0 \in T
  <2>1. 0 \in 0 .. n
    BY <1>1
  <2> QED BY <1>3, <2>1
<1>5. ASSUME NEW k \in 0 .. n - 1, k \in T PROVE k + 1 \in T
  <2>1. k + 1 \in 1 .. n /\ k + 1 \in 0 .. n /\ (k + 1) - 1 = k
    BY <1>1
  <2>2. v[k + 1] = Turn(img, v[k], q[k + 1]) /\ w[k + 1] = Turn(img, w[k], parts[k + 1])
    BY <1>3, <2>1
  <2> QED BY <1>2, <1>5, <2>1, <2>2
<1> HIDE DEF T
<1>6. \A k \in 0 .. n : k \in T
  BY <1>1, <1>4, <1>5, UpTo
<1>7. \A k \in 0 .. n : v[k] = w[k]
  BY <1>6 DEF T
<1> QED BY <1>2, <1>7 DEF q, v, w

\* After the first part the walk is at inodes in use.
LEMMA WalkInUse ==
    ASSUME NEW img, Good(img), NEW parts \in Seq(Names), NEW k \in 1 .. Len(parts)
    PROVE  Walk(img, parts)[k] \subseteq InUse(img)
<1>1. k - 1 \in 0 .. Len(parts)
  BY LenProperties
<1>2. Walk(img, parts)[k - 1] \in SUBSET InodeNums
  BY <1>1, WalkUnfolds
<1> QED BY <1>2, WalkUnfolds, TurnType

-----------------------------------------------------------------------------
(* Where a walk is.                                                        *)

\* It leads to every place the walk is at.
LEMMA WalkReaches ==
    ASSUME NEW img, Good(img), NEW parts \in Seq(PathNames)
    PROVE  \A k \in 0 .. Len(parts) : Walk(img, parts)[k] \subseteq Reachable(img)
<1> DEFINE N == Len(parts)
           w == Walk(img, parts)
           T == {k \in 0 .. N : w[k] \subseteq Reachable(img)}
<1>1. N \in Nat /\ parts \in Seq(Names)
  <2>1. PathNames \subseteq Names
    BY DEF PathNames
  <2>2. parts \in [1 .. N -> PathNames] /\ N \in Nat
    BY LenProperties
  <2> HIDE DEF N
  <2>3. parts \in [1 .. N -> Names]
    BY <2>1, <2>2
  <2> QED BY <2>2, <2>3, SeqDef
<1>2. /\ w \in [0 .. N -> SUBSET InodeNums]
      /\ w[0] = {RootIno} /\ \A k \in 1 .. N : w[k] = Turn(img, w[k - 1], parts[k])
  BY <1>1, WalkUnfolds
<1> HIDE DEF w
<1>3. 0 \in T
  BY <1>1, <1>2, SearchEnds
<1>4. ASSUME NEW k \in 0 .. N - 1, k \in T PROVE k + 1 \in T
  <2>1. k + 1 \in 1 .. N /\ k + 1 \in 0 .. N /\ (k + 1) - 1 = k /\ k \in 0 .. N
    BY <1>1
  <2>2. w[k + 1] = Turn(img, w[k], parts[k + 1]) /\ w[k] \subseteq InodeNums
    BY <1>2, <2>1
  <2>3. parts[k + 1] \in PathNames
    BY <2>1, ElementOfSeq
  <2>4. ASSUME NEW n \in w[k], ~Unwalkable(img, n), NEW ino, ino # 0,
               ino = Lookup(img, ReadInode(img, n), parts[k + 1])
        PROVE  ino \in Reachable(img)
    <3>1. Walkable(img, n) /\ n \in InodeNums
      BY <2>2, <2>4, WalkableIs
    <3>2. PICK e \in Entries(img, n) : e.name = parts[k + 1] /\ e.ino = ino
      BY <2>4, <3>1, LookupFinds
    <3>3. e \in Children(img, n)
      BY <2>3, <3>2 DEF Children, PathNames
    <3>4. n \in Reachable(img) /\ n \in DirsOf(img)
      BY <1>4, <3>1, WalkableHas
    <3> QED BY <3>2, <3>3, <3>4, ReachableOn
  <2>5. w[k + 1] \subseteq Reachable(img)
    BY <2>2, <2>4 DEF Turn
  <2> QED BY <2>1, <2>5
<1> HIDE DEF T
<1>5. \A k \in 0 .. N : k \in T
  <2> HIDE DEF N
  <2> QED BY <1>1, <1>3, <1>4, UpTo
<1> QED BY <1>5 DEF T, w


-----------------------------------------------------------------------------
(* The tree grows.                                                         *)

\* The walk is at no more than one place.
LEMMA WalkSingle ==
    ASSUME NEW img, Good(img), NEW parts \in Seq(Names), NEW k \in 0 .. Len(parts)
    PROVE  \A m, n \in Walk(img, parts)[k] : m = n
<1> DEFINE N == Len(parts)
           w == Walk(img, parts)
           T == {j \in 0 .. N : \A m, n \in w[j] : m = n}
<1>1. N \in Nat
  BY LenProperties
<1>2. w[0] = {RootIno} /\ \A j \in 1 .. N : w[j] = Turn(img, w[j - 1], parts[j])
  BY WalkUnfolds
<1> HIDE DEF w, N
<1>3. 0 \in T
  BY <1>1, <1>2
<1>4. ASSUME NEW j \in 0 .. N - 1, j \in T PROVE j + 1 \in T
  <2>1. j + 1 \in 1 .. N /\ j + 1 \in 0 .. N /\ (j + 1) - 1 = j
    BY <1>1
  <2>2. w[j + 1] = Turn(img, w[j], parts[j + 1])
    BY <1>2, <2>1
  <2> QED BY <1>4, <2>1, <2>2 DEF Turn
<1> HIDE DEF T
<1>5. \A j \in 0 .. N : j \in T
  BY <1>1, <1>3, <1>4, UpTo
<1>6. k \in T
  BY <1>5 DEF N
<1> QED BY <1>6 DEF T, w

\* From one image to another, directories stay readable, names keep their
\* inodes and a name with none may get the inode c, which has no names below.
Grows(img, new, c) ==
    /\ \A n \in InodeNums : Walkable(img, n) =>
          /\ Walkable(new, n)
          /\ \A name \in PathNames :
                LET was == Found(Records(img, n), name)
                    is  == Found(Records(new, n), name)
                IN  is = was \/ (was = 0 /\ is = c)
    /\ c # 0 /\ Walkable(new, c) => \A name \in PathNames : Found(Records(new, c), name) = 0

\* One turn of a walk that is at one place at most.
LEMMA TurnIs ==
    ASSUME NEW img, NEW n, NEW name
    PROVE  /\ Turn(img, {}, name) = {}
           /\ Turn(img, {n}, name) =
                 IF Walkable(img, n) THEN {Found(Records(img, n), name)} \ {0} ELSE {}
<1>1. Turn(img, {}, name) = {}
  BY DEF Turn
<1>2. ~Unwalkable(img, n) <=> Walkable(img, n)
  BY WalkableIs
<1>3. Lookup(img, ReadInode(img, n), name) = Found(Records(img, n), name)
  BY LookupReads
<1>4. Turn(img, {n}, name) =
          IF ~Unwalkable(img, n) THEN {Lookup(img, ReadInode(img, n), name)} \ {0} ELSE {}
  BY DEF Turn
<1> QED BY <1>1, <1>2, <1>3, <1>4

\* A walk that could be made is made again where the tree grows, and goes on
\* to no more than the inode that is new.
LEMMA WalkGrows ==
    ASSUME NEW img, Good(img), NEW new, Good(new), NEW c, Grows(img, new, c),
           NEW parts \in Seq(PathNames), parts \in Seq(Names), ~ResolveFails(img, parts)
    PROVE  /\ \A k \in 0 .. Len(parts) :
                /\ Walk(img, parts)[k] # {} => Walk(new, parts)[k] = Walk(img, parts)[k]
                /\ Walk(img, parts)[k] = {} => Walk(new, parts)[k] \subseteq {c} \ {0}
           /\ \A k \in 1 .. Len(parts) :
                Walk(img, parts)[k - 1] = {} => Walk(new, parts)[k] = {}
<1> DEFINE N == Len(parts)
           w == Walk(img, parts)
           v == Walk(new, parts)
           Like(k) == /\ w[k] # {} => v[k] = w[k]
                      /\ w[k] = {} => v[k] \subseteq {c} \ {0}
           T == {k \in 0 .. N : Like(k)}
<1>1. N \in Nat
  BY LenProperties
<1>2. /\ w \in [0 .. N -> SUBSET InodeNums] /\ w[0] = {RootIno} /\ v[0] = {RootIno}
      /\ \A k \in 1 .. N : w[k] = Turn(img, w[k - 1], parts[k])
      /\ \A k \in 1 .. N : v[k] = Turn(new, v[k - 1], parts[k])
  BY WalkUnfolds
<1>3. \A k \in 0 .. N : \A m, n \in w[k] : m = n
  BY WalkSingle
<1>4. \A k \in 0 .. N - 1 : \A n \in w[k] : Walkable(img, n)
  BY WalkableIs DEF ResolveFails
<1>5. \A k \in 1 .. N : parts[k] \in PathNames
  BY <1>1, ElementOfSeq
<1> HIDE DEF w, v, N
<1>6. ASSUME NEW k \in 0 .. N - 1, Like(k)
      PROVE  Like(k + 1) /\ (w[k] = {} => v[k + 1] = {})
  <2> DEFINE p == parts[k + 1]
  <2>1. k + 1 \in 1 .. N /\ (k + 1) - 1 = k /\ k \in 0 .. N
    BY <1>1
  <2>2. w[k + 1] = Turn(img, w[k], p) /\ v[k + 1] = Turn(new, v[k], p) /\ p \in PathNames
    BY <1>2, <1>5, <2>1
  <2> HIDE DEF p
  <2>3. CASE w[k] # {}
    <3>1. PICK n \in w[k] : TRUE
      BY <2>3
    <3>2. w[k] = {n} /\ v[k] = {n} /\ Walkable(img, n) /\ n \in InodeNums
      BY <1>2, <1>3, <1>4, <1>6, <2>1, <3>1
    <3> DEFINE was == Found(Records(img, n), p)
               is  == Found(Records(new, n), p)
    <3>3. Walkable(new, n) /\ (is = was \/ (was = 0 /\ is = c))
      BY <2>2, <3>2 DEF Grows
    <3>4. w[k + 1] = {was} \ {0} /\ v[k + 1] = {is} \ {0}
      BY <2>2, <3>2, <3>3, TurnIs
    <3> HIDE DEF was, is
    <3> QED BY <2>3, <3>3, <3>4
  <2>4. CASE w[k] = {}
    <3>1. w[k + 1] = {}
      BY <2>2, <2>4, TurnIs
    <3>2. v[k] = {} \/ (c # 0 /\ v[k] = {c})
      BY <1>6, <2>4
    <3>3. c # 0 /\ Walkable(new, c) => Found(Records(new, c), p) = 0
      BY <2>2 DEF Grows
    <3>4. Turn(new, {}, p) = {}
      BY TurnIs
    <3>5. c # 0 => Turn(new, {c}, p) = {}
      <4>1. Turn(new, {c}, p) =
                IF Walkable(new, c) THEN {Found(Records(new, c), p)} \ {0} ELSE {}
        BY TurnIs
      <4> QED BY <3>3, <4>1
    <3>6. v[k + 1] = {}
      BY <2>2, <3>2, <3>4, <3>5
    <3> QED BY <3>1, <3>6
  <2> QED BY <2>3, <2>4
<1>7. 0 \in T
  <2>1. 0 \in 0 .. N /\ w[0] # {} /\ v[0] = w[0]
    BY <1>1, <1>2
  <2> QED BY <2>1
<1>8. ASSUME NEW k \in 0 .. N - 1, k \in T PROVE k + 1 \in T
  <2>1. k + 1 \in 0 .. N
    BY <1>1
  <2> QED BY <1>6, <1>8, <2>1
<1> HIDE DEF T, Like
<1>9. \A k \in 0 .. N : k \in T
  BY <1>1, <1>7, <1>8, UpTo
<1>10. \A k \in 0 .. N : Like(k)
  BY <1>9 DEF T
<1>11. ASSUME NEW k \in 1 .. N, w[k - 1] = {} PROVE v[k] = {}
  <2>1. k - 1 \in 0 .. N - 1 /\ k - 1 \in 0 .. N /\ (k - 1) + 1 = k
    BY <1>1
  <2> QED BY <1>6, <1>10, <1>11, <2>1
<1> QED BY <1>10, <1>11 DEF Like, w, v, N

\* It can be made again when the inode that is new can be read, or is where
\* the walk ends.
LEMMA WalkStays ==
    ASSUME NEW img, Good(img), NEW new, Good(new), NEW c, Grows(img, new, c),
           NEW parts \in Seq(PathNames), parts \in Seq(Names), ~ResolveFails(img, parts),
           c = 0 \/ Walkable(new, c)
    PROVE  ~ResolveFails(new, parts)
<1> SUFFICES ASSUME NEW k \in 0 .. Len(parts) - 1, NEW n \in Walk(new, parts)[k]
             PROVE  ~Unwalkable(new, n)
  BY DEF ResolveFails
<1>1. k \in 0 .. Len(parts)
  BY LenProperties
<1>2. CASE Walk(img, parts)[k] # {}
  <2>1. n \in Walk(img, parts)[k]
    BY <1>1, <1>2, WalkGrows
  <2>2. Walkable(img, n)
    BY <2>1, WalkableIs DEF ResolveFails
  <2>3. n \in InodeNums
    BY <1>1, <2>1, WalkUnfolds
  <2> QED BY <2>2, <2>3, WalkableIs DEF Grows
<1>3. CASE Walk(img, parts)[k] = {}
  <2>1. n \in {c} \ {0}
    BY <1>1, <1>3, WalkGrows
  <2> QED BY <2>1, WalkableIs
<1> QED BY <1>2, <1>3

-----------------------------------------------------------------------------
(* The steps of the writer make the tree grow.                             *)

\* Where the directories that can be read stay as they are, nothing is new.
LEMMA QuietGrows ==
    ASSUME NEW img, NEW new,
           \A n \in InodeNums : Walkable(img, n) =>
                /\ NodeAt(new, n).kind = NodeAt(img, n).kind
                /\ NodeAt(new, n).single = NodeAt(img, n).single
                /\ NodeAt(new, n).htree = NodeAt(img, n).htree
                /\ Records(new, n) = Records(img, n)
    PROVE  Grows(img, new, 0)
BY DEF Grows, Walkable

\* A directory that is kept has its records.
LEMMA KeptRecords ==
    ASSUME NEW img, Good(img), NEW new, NEW n \in InodeNums, Walkable(img, n), Kept(img, new, n)
    PROVE  NodeAt(new, n) = NodeAt(img, n) /\ Records(new, n) = Records(img, n)
BY WalkableHas DEF Kept, Records

\* Writing the new block or the new inode touches nothing in use.
LEMMA ContentsSpare ==
    ASSUME IInv, WriteBody \/ WriteInode, NEW n \in InUse(image) PROVE Kept(image, image', n)
<1>1. image \in Image /\ n \in InodeNums
  BY DEF IInv, TypeOK, InUse
<1>2. CASE WriteBody
  <2>1. loc.blk \notin NodeAt(image, n).owns
    BY <1>2 DEF WriteBody, IInv, BlockHolds, OwnedBy
  <2> QED BY <1>1, <1>2, <2>1, BlockWriteSpares DEF WriteBody
<1>3. CASE WriteInode
  <2>1. loc.ino \in InodeNums
    BY <1>3, MakingHolds DEF WriteInode
  <2>2. n # loc.ino
    BY <1>3 DEF WriteInode, IInv, InodeHolds, InUse
  <2>3. NewInode.num = loc.ino
    BY DEF NewInode
  <2> QED BY <1>1, <1>3, <2>1, <2>2, <2>3, InodeWriteSpares DEF WriteInode
<1> QED BY <1>2, <1>3

\* All steps but the one that adds the record leave the tree as it is.
LEMMA StepGrows ==
    ASSUME SInv, Step, AddDirent => DirentRefused(op.in, op.name)
    PROVE  Grows(image, image', 0)
<1>1. IInv /\ image \in Image /\ Good(image) /\ [Next]_vars
  BY IInvLinks DEF SInv, IInv, TypeOK, Good, Next
<1> SUFFICES ASSUME NEW n \in InodeNums, Walkable(image, n)
             PROVE  /\ NodeAt(image', n).kind = NodeAt(image, n).kind
                    /\ NodeAt(image', n).single = NodeAt(image, n).single
                    /\ NodeAt(image', n).htree = NodeAt(image, n).htree
                    /\ Records(image', n) = Records(image, n)
  BY QuietGrows
<1>2. n \in InUse(image)
  BY <1>1, WalkableHas
<1>3. CASE Kept(image, image', n)
  BY <1>1, <1>3, KeptRecords
<1>4. CASE n # op.in.num
  BY <1>1, <1>2, <1>3, <1>4, StepKeeps
<1>5. CASE n = op.in.num
  <2>1. CASE UNCHANGED image
    BY <1>3, <2>1, QuietKeeps
  <2>2. CASE LookupName \/ PickGroup \/ AddDirent
    BY <2>1, <2>2 DEF LookupName, PickGroup, AddDirent, Refuse
  <2>3. CASE AllocInode \/ AllocBlock \/ WriteDesc
    <3>1. image'.itab = image.itab /\ image'.blk = image.blk
      BY <1>1, <2>3 DEF AllocInode, AllocBlock, WriteDesc, Refuse, Image
    <3> QED BY <1>3, <3>1, QuietKeeps
  <2>4. CASE WriteBody \/ WriteInode
    BY <1>1, <1>2, <1>3, <2>4, ContentsSpare
  <2>5. CASE WriteParent
    BY <1>5, <2>5, MkdirReturns DEF Records
  <2>6. CASE OverwriteData \/ OverwriteInode
    <3>1. pc \in Overwriting
      BY <2>6 DEF OverwriteData, OverwriteInode, Overwriting
    <3>2. op.in.raw = NodeAt(image, n)
      BY <1>1, <1>5, <3>1 DEF IInv, ArgumentsHold, ReadInode
    <3>3. OverwriteRefused
      BY <3>2 DEF OverwriteRefused, Walkable
    <3>4. OverwriteData
      BY <1>1, <2>6, <3>3 DEF IInv, ArgumentsHold, OverwriteInode
    <3> QED BY <2>1, <3>3, <3>4 DEF OverwriteData, Refuse
  <2> QED BY <2>2, <2>3, <2>4, <2>5, <2>6 DEF Step
<1> QED BY <1>4, <1>5

\* No name of a path is found in a new directory.
LEMMA NewDirFinds ==
    ASSUME NEW img, NEW self, NEW parent, NEW name \in PathNames
    PROVE  Found(NewDirBlock(img, self, parent).ents, name) = 0
<1> DEFINE ents == NewDirBlock(img, self, parent).ents
<1>1. \A i \in DOMAIN ents : ents[i].name \in {Dot, DotDot}
  BY DEF NewDirBlock
<1>2. {i \in DOMAIN ents : Named(ents[i], name)} = {}
  BY <1>1 DEF Named, PathNames
<1> QED BY <1>2 DEF Found

\* addDirent adds the new inode to the tree, with nothing below it.
LEMMA AddDirentGrows ==
    ASSUME SInv, AddDirent, ~DirentRefused(op.in, op.name)
    PROVE  /\ Grows(image, image', loc.ino)
           /\ op.kind = "mkdir" => Walkable(image', loc.ino)
           /\ NamesFit => Found(Records(image', op.in.num), op.name) = loc.ino
<1> DEFINE d == op.in.num
           b == op.in.raw.blk
           ents == image.blk[b].ents
           after == WithDirent(ents, loc.ino, op.name, NewInode.raw.kind)
<1>1. /\ IInv /\ image \in Image /\ Good(image) /\ pc = "dirent"
      /\ op.name \in Names /\ op.name \in PathNames
  BY IInvLinks DEF SInv, IInv, TypeOK, Good, AddDirent, MadeHolds, Making, PathNames
<1>2. /\ d \in InodeNums /\ Walkable(image, d) /\ op.in.raw = NodeAt(image, d)
      /\ image'.itab = image.itab
      /\ ents \in Seq(Dirent) /\ Len(ents) > 0
      /\ image'.blk[b].ents = after
      /\ \A c \in BlockNums : c # b => image'.blk[c] = image.blk[c]
      /\ op.in = ReadInode(image, d)
  BY <1>1, DirentAdded
<1>3. \A n : NodeAt(image', n) = NodeAt(image, n)
  BY <1>2 DEF NodeAt
<1>4. loc.ino \in InodeNums /\ loc.blk \in BlockNums /\ b # loc.blk
      /\ NodeAt(image, loc.ino).blk = loc.blk
  BY <1>1, BlocksApart
<1>5. Records(image, d) = ents /\ Records(image', d) = after
  BY <1>2, <1>3 DEF Records
<1>6. ASSUME NEW name
      PROVE  LET was == Found(Records(image, d), name)
                 is  == Found(Records(image', d), name)
             IN  is = was \/ (was = 0 /\ is = loc.ino)
  <2>1. after = WithDirent(ents, loc.ino, op.name, NewInode.raw.kind)
    OBVIOUS
  <2> HIDE DEF after, ents
  <2>2. /\ Found(ents, name) # 0 => Found(after, name) = Found(ents, name)
        /\ Found(ents, name) = 0 => Found(after, name) \in {0, loc.ino}
    BY <1>1, <1>2, <1>4, <2>1, WithDirentFinds
  <2> QED BY <1>5, <2>2
<1>7. ASSUME NEW n \in InodeNums, Walkable(image, n), n # d
      PROVE  Records(image', n) = Records(image, n)
  <2>1. /\ n \in InUse(image) /\ NodeAt(image, n).blk \in NodeAt(image, n).owns
        /\ NodeAt(image, n).blk \in BlockNums
    BY <1>1, <1>7, WalkableHas
  <2>2. b \notin NodeAt(image, n).owns
    BY <1>1, <1>2, <1>7, <2>1, HandleBlockIsOurs DEF Walkable
  <2> QED BY <1>2, <1>3, <2>1, <2>2 DEF Records
<1>8. \A n : Walkable(image', n) <=> Walkable(image, n)
  BY <1>3 DEF Walkable
<1>9. Records(image', loc.ino) = image.blk[loc.blk].ents
  BY <1>2, <1>3, <1>4 DEF Records
<1>10. NodeAt(image, loc.ino) = Sealed(image, NewInode).raw
  BY <1>1 DEF SInv, MadeHolds
<1>11. NewInode \in Handle
  BY <1>1, BlocksApart
<1>12. /\ NodeAt(image, loc.ino).kind = NewInode.raw.kind
       /\ NodeAt(image, loc.ino).single = NewInode.raw.single
       /\ NodeAt(image, loc.ino).htree = NewInode.raw.htree
  BY <1>10, <1>11 DEF Sealed, Handle, Inode
<1>13. /\ NewInode.raw.kind = "dir" <=> op.kind = "mkdir"
       /\ NewInode.raw.single /\ ~NewInode.raw.htree
  BY DEF NewInode, InitInode
<1>14. op.kind = "mkdir" <=> Walkable(image', loc.ino)
  BY <1>8, <1>12, <1>13 DEF Walkable
<1>15. ASSUME NEW name \in PathNames, op.kind = "mkdir"
       PROVE  Found(Records(image', loc.ino), name) = 0
  <2>1. image.blk[loc.blk].ents = NewDirBlock(image, loc.ino, d).ents
    BY <1>1, <1>15 DEF SInv, MadeHolds
  <2> QED BY <1>9, <1>15, <2>1, NewDirFinds
<1>16. NamesFit => Found(Records(image', d), op.name) = loc.ino
  <2>1. NamesFit => Lookup(image', op.in, op.name) = loc.ino
    BY DirentLeads
  <2>2. Lookup(image', op.in, op.name) = Found(Records(image', d), op.name)
    BY <1>2, <1>3, LookupReads DEF ReadInode
  <2> QED BY <2>1, <2>2
<1>17. Grows(image, image', loc.ino)
  <2> HIDE DEF after, ents, b
  <2> SUFFICES ASSUME NEW n \in InodeNums, Walkable(image, n), NEW name \in PathNames
               PROVE  LET was == Found(Records(image, n), name)
                          is  == Found(Records(image', n), name)
                      IN  is = was \/ (was = 0 /\ is = loc.ino)
    BY <1>8, <1>14, <1>15 DEF Grows
  <2> QED BY <1>6, <1>7
<1> QED BY <1>14, <1>16, <1>17

-----------------------------------------------------------------------------
(* Where Inject is, what the writer is doing for it, and what it knows of  *)
(* the image then.                                                         *)

Phases ==
    /\ at \in {"out", "open"} => pc = "closed"
    /\ at \in {"resolve", "walk", "sync", "return"} => pc = "idle"
    /\ at = "making" => pc \in {"idle", "closed"} \/ (pc \in Making /\ op.kind = "mkdir")
    /\ at = "creating" => pc \in {"idle", "closed"} \/ (pc \in Making /\ op.kind = "create")
    /\ at = "overwriting" => opt.force /\ pc \in {"idle", "closed"} \cup Overwriting
    /\ outcome = "running" <=> at # "out"
    /\ at \notin {"out", "open", "resolve"} => ~opt.dry

\* After k parts of the target the walk is at n, if names fit, or nowhere.
LeadsTo(k, n) ==
    /\ Walk(image, Target)[k] \subseteq {n}
    /\ NamesFit => Walk(image, Target)[k] = {n}

\* A directory that Inject has a fresh handle of and a path leads to.
AtDir(in) ==
    /\ in = ReadInode(image, in.num)
    /\ in.num \in Reachable(image) /\ in.num \in DirsOf(image)

\* The walk is where the parts passed lead, and nothing is below it yet.
WalkHolds ==
    /\ at \in {"walk", "making"} => ~TargetFails /\ Existing = {}
    /\ at = "walk" => AtDir(cur) /\ LeadsTo(depth, cur.num)
    /\ at = "making" => depth < Len(dirParts)
    /\ at = "making" /\ pc \in Making =>
          /\ op.in.num \in Reachable(image) /\ op.name = Target[depth + 1]
          /\ pc # "parent" => LeadsTo(depth, op.in.num) /\ Walk(image, Target)[depth + 1] = {}
          /\ pc = "parent" => LeadsTo(depth + 1, loc.ino)
    /\ at = "making" /\ pc = "idle" => AtDir(ret.in) /\ LeadsTo(depth + 1, ret.in.num)

\* The config is asked for where the target is, and there when it is written.
StoreHolds ==
    /\ at = "creating" /\ pc \in Making =>
          /\ ~TargetFails /\ Existing = {}
          /\ op.name = base /\ op.data = opt.data
          /\ LeadsTo(Len(Target) - 1, op.in.num)
    /\ at = "overwriting" /\ pc \in Overwriting =>
          /\ ~TargetFails /\ Existing = {op.in.num}
          /\ op.data = opt.data
    /\ at \in {"sync", "return"} \/ (at \in {"creating", "overwriting"} /\ pc = "idle") =>
          (NamesFit /\ StartsWithoutHoles => ConfigAt(image) = Store!Whole(opt.data))

JInv == SInv /\ InjectTypeOK /\ Phases /\ WalkHolds /\ StoreHolds

-----------------------------------------------------------------------------
(* The parts of the target.                                                *)

\* The directories are the target but for its last part, the base name.
LEMMA PartsAre ==
    /\ Target \in Seq(PathNames) /\ Target \in Seq(Names)
    /\ Len(Target) \in Nat /\ Len(Target) > 0 /\ Len(dirParts) = Len(Target) - 1
    /\ dirParts \in Seq(Names)
    /\ dirParts = SubSeq(Target, 1, Len(Target) - 1)
    /\ \A k \in 1 .. Len(dirParts) : dirParts[k] = Target[k]
    /\ base = Target[Len(Target)]
    /\ \A k \in 1 .. Len(Target) : Target[k] \in PathNames
<1> DEFINE N == Len(Target)
           n == N - 1
           q == SubSeq(Target, 1, n)
<1>1. Target \in Seq(PathNames) /\ N \in Nat /\ N > 0
  BY TargetAssumption, LenProperties
<1>2. Target \in Seq(Names)
  <2>1. PathNames \subseteq Names
    BY DEF PathNames
  <2>2. Target \in [1 .. N -> PathNames]
    BY <1>1, LenProperties
  <2> HIDE DEF N
  <2>3. Target \in [1 .. N -> Names]
    BY <2>1, <2>2
  <2> QED BY <1>1, <2>3, SeqDef
<1>3. dirParts = q
  BY DEF dirParts, Front
<1>4. n \in Nat /\ n <= N
  BY <1>1
<1> HIDE DEF n
<1>5. /\ q \in Seq(Names)
      /\ Len(q) = IF 1 <= n THEN n - 1 + 1 ELSE 0
      /\ \A k \in 1 .. n - 1 + 1 : q[k] = Target[1 + k - 1]
  <2>1. \A k \in 1 .. n : Target[k] \in Names
    BY <1>1, <1>2, <1>4, ElementOfSeq
  <2> QED BY <1>4, <2>1, SubSeqProperties
<1> HIDE DEF q
<1>6. Len(q) = n /\ \A k \in 1 .. n : q[k] = Target[k]
  BY <1>4, <1>5
<1>7. \A k \in 1 .. N : Target[k] \in PathNames
  BY <1>1, ElementOfSeq
<1>8. base = Target[N]
  BY DEF base, Last
<1> QED BY <1>1, <1>2, <1>3, <1>5, <1>6, <1>7, <1>8 DEF n, q

\* Resolving the next directory is going one part further.
LEMMA NextPartsLead ==
    ASSUME Good(image), depth \in 0 .. Len(dirParts), depth < Len(dirParts)
    PROVE  /\ Resolve(image, NextParts) = Walk(image, Target)[depth + 1]
           /\ depth \in 0 .. Len(Target) /\ depth + 1 \in 1 .. Len(Target)
           /\ depth + 1 \in 0 .. Len(Target) - 1
<1> DEFINE D == dirParts
           k == depth + 1
<1>1. /\ Target \in Seq(Names) /\ Len(Target) \in Nat /\ Len(D) = Len(Target) - 1
      /\ D = SubSeq(Target, 1, Len(Target) - 1) /\ D \in Seq(Names)
  BY PartsAre
<1>2. Len(D) \in 0 .. Len(Target) /\ k \in 0 .. Len(D) /\ k \in 1 .. Len(Target)
  BY <1>1
<1>3. Walk(image, D)[k] = Walk(image, Target)[k]
  <2>1. D = SubSeq(Target, 1, Len(D))
    BY <1>1
  <2> HIDE DEF D, k
  <2> QED BY <1>1, <1>2, <2>1, WalkPrefix
<1>4. NextParts = SubSeq(D, 1, k)
  BY DEF NextParts
<1> HIDE DEF D, k
<1>5. Len(SubSeq(D, 1, k)) = k /\ Walk(image, SubSeq(D, 1, k))[k] = Walk(image, D)[k]
  <2>1. k \in 0 .. k
    BY <1>2
  <2> QED BY <1>1, <1>2, <2>1, WalkPrefix
<1> QED BY <1>1, <1>2, <1>3, <1>4, <1>5 DEF Resolve, D, k

\* Where a walk that does not fail has not ended, it is in a directory that a
\* path leads to; where it ends, at an inode in use.
LEMMA WalkIn ==
    ASSUME NEW img, Good(img), NEW k \in 0 .. Len(Target), NEW n \in Walk(img, Target)[k]
    PROVE  /\ n \in Reachable(img) /\ n \in InodeNums
           /\ k > 0 => n \in InUse(img)
           /\ k < Len(Target) /\ ~ResolveFails(img, Target) =>
                 Walkable(img, n) /\ n \in DirsOf(img)
           /\ Walk(img, Target)[k] = {n}
<1>1. Target \in Seq(Names) /\ Target \in Seq(PathNames) /\ Len(Target) \in Nat
  BY PartsAre
<1>2. n \in InodeNums
  BY <1>1, WalkUnfolds
<1>3. n \in Reachable(img)
  BY <1>1, WalkReaches
<1>4. k > 0 => n \in InUse(img)
  <2>1. k > 0 => k \in 1 .. Len(Target)
    BY <1>1
  <2> QED BY <1>1, <2>1, WalkInUse
<1>5. ASSUME k < Len(Target), ~ResolveFails(img, Target)
      PROVE  Walkable(img, n) /\ n \in DirsOf(img)
  <2>1. k \in 0 .. Len(Target) - 1
    BY <1>1, <1>5
  <2>2. Walkable(img, n)
    BY <1>5, <2>1, WalkableIs DEF ResolveFails
  <2> QED BY <1>2, <2>2, WalkableHas
<1>6. Walk(img, Target)[k] = {n}
  BY <1>1, WalkSingle
<1> QED BY <1>2, <1>3, <1>4, <1>5, <1>6

\* Once a walk is nowhere it stays nowhere.
LEMMA WalkEnds ==
    ASSUME NEW img, Good(img), NEW parts \in Seq(Names), NEW j \in 0 .. Len(parts),
           Walk(img, parts)[j] = {}
    PROVE  \A k \in j .. Len(parts) : Walk(img, parts)[k] = {}
<1> DEFINE N == Len(parts)
           m == N - j
           w == Walk(img, parts)
           T == {i \in 0 .. m : w[j + i] = {}}
<1>1. N \in Nat
  BY LenProperties
<1>2. \A i \in 1 .. N : w[i] = Turn(img, w[i - 1], parts[i])
  BY WalkUnfolds
<1> HIDE DEF w
<1>3. w[j] = {}
  BY DEF w
<1> HIDE DEF N
<1>4. j \in Nat /\ j <= N /\ m \in Nat
  BY <1>1 DEF N
<1>5. 0 \in T
  BY <1>3, <1>4
<1>6. ASSUME NEW i \in 0 .. m - 1, i \in T PROVE i + 1 \in T
  <2>1. i + 1 \in 0 .. m /\ j + (i + 1) \in 1 .. N /\ (j + (i + 1)) - 1 = j + i
    BY <1>1, <1>4
  <2>2. w[j + (i + 1)] = Turn(img, w[j + i], parts[j + (i + 1)])
    BY <1>2, <2>1
  <2>3. w[j + i] = {}
    BY <1>6
  <2> QED BY <2>1, <2>2, <2>3, TurnIs
<1> HIDE DEF T
<1>7. \A i \in 0 .. m : i \in T
  <2> HIDE DEF m
  <2> QED BY <1>4, <1>5, <1>6, UpTo
<1>8. ASSUME NEW k \in j .. N PROVE w[k] = {}
  <2>1. k - j \in 0 .. m /\ j + (k - j) = k
    BY <1>1, <1>4
  <2> QED BY <1>7, <2>1 DEF T
<1> QED BY <1>8 DEF w, N

\* What is not an inode or a block is not read.
LEMMA WalkSame ==
    ASSUME NEW img, Good(img), NEW new, Good(new), new.itab = img.itab, new.blk = img.blk
    PROVE  ConfigAt(new) = ConfigAt(img)
<1> DEFINE N == Len(Target)
           w == Walk(img, Target)
           v == Walk(new, Target)
           T == {k \in 0 .. N : v[k] = w[k]}
<1>1. Target \in Seq(Names) /\ N \in Nat
  BY PartsAre
<1>2. /\ w[0] = {RootIno} /\ \A k \in 1 .. N : w[k] = Turn(img, w[k - 1], Target[k])
      /\ v[0] = {RootIno} /\ \A k \in 1 .. N : v[k] = Turn(new, v[k - 1], Target[k])
  BY <1>1, WalkUnfolds
<1> HIDE DEF w, v, N
<1>3. \A X, name : Turn(new, X, name) = Turn(img, X, name)
  BY DEF Turn, Unwalkable, LookupRefused, Lookup, ReadInode, NodeAt
<1>4. 0 \in T
  <2>1. 0 \in 0 .. N
    BY <1>1
  <2> QED BY <1>2, <2>1
<1>5. ASSUME NEW k \in 0 .. N - 1, k \in T PROVE k + 1 \in T
  <2>1. k + 1 \in 1 .. N /\ k + 1 \in 0 .. N /\ (k + 1) - 1 = k
    BY <1>1
  <2>2. w[k + 1] = Turn(img, w[k], Target[k + 1]) /\ v[k + 1] = Turn(new, v[k], Target[k + 1])
    BY <1>2, <2>1
  <2>3. w[k] = v[k]
    BY <1>5
  <2> QED BY <1>3, <2>1, <2>2, <2>3
<1> HIDE DEF T
<1>6. \A k \in 0 .. N : k \in T
  BY <1>1, <1>4, <1>5, UpTo
<1>7. v[N] = w[N]
  <2>1. N \in 0 .. N
    BY <1>1
  <2> QED BY <1>6, <2>1 DEF T
<1>8. Resolve(new, Target) = Resolve(img, Target)
  BY <1>7 DEF Resolve, v, w, N
<1>9. \A n : FileContent(new, n) = FileContent(img, n)
  BY DEF FileContent, NodeAt
<1> QED BY <1>8, <1>9 DEF ConfigAt

-----------------------------------------------------------------------------
(* JInv is inductive: first the actions of Inject itself, which leave the  *)
(* image to the writer.                                                    *)

\* What SInv says of the image.
LEMMA SInvGood ==
    ASSUME SInv PROVE IInv /\ TypeOK /\ image \in Image /\ Good(image)
BY IInvLinks DEF SInv, IInv, TypeOK, Good

\* What it says of the image after a step.
LEMMA GoodAfter == ASSUME SInv' PROVE Good(image')
BY DEF SInv, IInv, TypeOK, ReferencesResolve, LinksResolve, Good

\* A handle read from the image, and the one there is none for, are handles.
LEMMA HandlesAre ==
    ASSUME NEW img \in Image
    PROVE  NoHandle \in Handle /\ \A n \in InodeNums : ReadInode(img, n) \in Handle
BY NothingTypes, NodeType DEF ReadInode, Handle

\* Nothing is asked for at first.
LEMMA InitJInv == InjectInit => JInv
<1> SUFFICES ASSUME InjectInit PROVE JInv
  OBVIOUS
<1>1. SInv /\ pc = "closed" /\ at = "out" /\ outcome = "none"
  BY InitSInv DEF InjectInit, Init
<1>2. opt \in Options
  <2>1. PICK d \in Data : TRUE
    BY TargetAssumption
  <2>2. [data |-> d, force |-> FALSE, dry |-> FALSE] \in {o \in Options : ~o.force /\ ~o.dry}
    BY DEF Options
  <2>3. \E o \in Options : ~o.force /\ ~o.dry
    BY <2>2
  <2> QED BY <2>3 DEF InjectInit
<1>3. InjectTypeOK
  <2>1. NoHandle \in Handle
    BY <1>1, SInvGood, HandlesAre
  <2>2. 0 \in 0 .. Len(dirParts) /\ 0 \in 0 .. MaxRuns
    BY PartsAre, TargetAssumption
  <2> QED BY <1>1, <1>2, <2>1, <2>2 DEF InjectInit, InjectTypeOK, Places
<1> QED BY <1>1, <1>3 DEF JInv, Phases, WalkHolds, StoreHolds

\* Inject calls the writer as the writer asks to be called.
LEMMA InjectCallsWriter == JInv /\ [InjectNext]_allVars => [Next]_vars
<1> SUFFICES ASSUME JInv, [InjectNext]_allVars PROVE [Next]_vars
  OBVIOUS
<1>1. SInv /\ Good(image) /\ opt.data \in Data
  BY SInvGood DEF JInv, InjectTypeOK, Options
<1>2. CASE \/ Start \/ OpenFails \/ StartWalk \/ Descend \/ Made \/ Written \/ CallFailed
           \/ UNCHANGED allVars
  BY <1>2 DEF Start, OpenFails, StartWalk, Descend, Made, Written, CallFailed, allVars
<1>3. CASE OpenImage \/ SyncImage \/ Write
  BY <1>3 DEF OpenImage, SyncImage, Write, Next, Caller
<1>4. CASE DryRun \/ ResolveFailed \/ RefuseExisting \/ ReturnOk \/ Killed
  BY <1>4 DEF DryRun, ResolveFailed, RefuseExisting, ReturnOk, Killed, Fail, Next, Caller
<1>5. CASE ReplaceExisting
  <2>1. PICK n \in Existing : CallOverwrite(ReadInode(image, n), opt.data)
    BY <1>5 DEF ReplaceExisting
  <2>2. Len(Target) \in 0 .. Len(Target) /\ Len(Target) > 0 /\ n \in Walk(image, Target)[Len(Target)]
    BY <2>1, PartsAre DEF Existing, Resolve
  <2>3. n \in Reachable(image) /\ n \in InUse(image)
    BY <1>1, <2>2, WalkIn
  <2>4. ReadInode(image, n) \in Handles
    BY <2>3 DEF Handles
  <2> QED BY <1>1, <2>1, <2>4 DEF Next, Caller
<1>6. CASE MakeDir \/ Create
  <2>1. cur \in DirHandles
    BY <1>6 DEF MakeDir, Create, JInv, WalkHolds, AtDir, DirHandles
  <2>2. MakeDir => dirParts[depth + 1] \in PathNames
    <3> SUFFICES ASSUME MakeDir PROVE dirParts[depth + 1] \in PathNames
      OBVIOUS
    <3>1. depth + 1 \in 1 .. Len(dirParts) /\ depth + 1 \in 1 .. Len(Target)
      BY PartsAre DEF MakeDir, JInv, InjectTypeOK
    <3> QED BY <3>1, PartsAre
  <2>3. base \in PathNames
    <3>1. Len(Target) \in 1 .. Len(Target)
      BY PartsAre
    <3> QED BY <3>1, PartsAre
  <2> QED BY <1>1, <1>6, <2>1, <2>2, <2>3 DEF MakeDir, Create, Next, Caller
<1> QED BY <1>2, <1>3, <1>4, <1>5, <1>6 DEF InjectNext, Run

\* When Inject has returned nothing is claimed of the walk.
LEMMA FinishJInv ==
    ASSUME JInv, SInv', NEW result \in {"ok", "error", "killed"}, Finish(result), pc' = "closed"
    PROVE  JInv'
<1>1. NoHandle \in Handle /\ 0 \in 0 .. Len(dirParts)
  BY SInvGood, HandlesAre, PartsAre DEF JInv
<1>2. InjectTypeOK'
  BY <1>1 DEF Finish, JInv, InjectTypeOK, Places
<1> QED BY <1>2 DEF Finish, JInv, Phases, WalkHolds, StoreHolds

\* Before it calls anything.
LEMMA OpeningJInv == ASSUME JInv, SInv', Start \/ OpenImage PROVE JInv'
<1>1. CASE Start
  <2>1. runs + 1 \in 0 .. MaxRuns
    BY <1>1, TargetAssumption DEF Start, JInv, InjectTypeOK
  <2>2. InjectTypeOK'
    BY <1>1, <2>1 DEF Start, JInv, InjectTypeOK, Places
  <2> QED BY <1>1, <2>2 DEF Start, vars, JInv, Phases, WalkHolds, StoreHolds
<1>2. CASE OpenImage
  <2>1. InjectTypeOK'
    BY <1>2 DEF OpenImage, JInv, InjectTypeOK, Places
  <2> QED BY <1>2, <2>1 DEF OpenImage, OpenFS, JInv, Phases, WalkHolds, StoreHolds
<1> QED BY <1>1, <1>2

\* What is replaced is what the target leads to.
LEMMA ReplaceJInv == ASSUME JInv, SInv', ReplaceExisting PROVE JInv'
<1>1. PICK n \in Existing : CallOverwrite(ReadInode(image, n), opt.data)
  BY DEF ReplaceExisting
<1>2. /\ image' = image /\ pc' = "odata" /\ op'.in.num = n /\ op'.data = opt.data
      /\ at' = "overwriting" /\ UNCHANGED <<opt, depth, cur, outcome, runs>>
      /\ ~TargetFails /\ opt.force /\ ~opt.dry /\ at = "resolve"
  BY <1>1 DEF CallOverwrite, Call, ReadInode, ReplaceExisting, MayReplace, MayWrite
<1>3. Existing = {n}
  <2>1. Len(Target) \in 0 .. Len(Target) /\ n \in Walk(image, Target)[Len(Target)]
    BY <1>1, PartsAre DEF Existing, Resolve
  <2> QED BY <2>1, SInvGood, WalkIn DEF JInv, Existing, Resolve
<1>4. InjectTypeOK'
  BY <1>2 DEF JInv, InjectTypeOK, Places
<1>5. StoreHolds'
  BY <1>2, <1>3 DEF StoreHolds, Existing, TargetFails, Making
<1> QED BY <1>2, <1>4, <1>5 DEF JInv, Phases, WalkHolds, Overwriting

\* The walk starts at the root, and the next part leads on.
LEMMA DescendJInv == ASSUME JInv, SInv', StartWalk \/ Descend PROVE JInv'
<1>1. SInv /\ image \in Image /\ Good(image) /\ UNCHANGED vars
  BY SInvGood DEF JInv, StartWalk, Descend
<1>2. /\ ~TargetFails /\ Existing = {} /\ at' = "walk" /\ UNCHANGED <<opt, outcome, runs>>
      /\ pc = "idle" /\ outcome = "running" /\ ~opt.dry
  BY DEF JInv, Phases, WalkHolds, StartWalk, Descend, MayWrite
<1>3. depth' \in 0 .. Len(Target) - 1 /\ depth' \in 0 .. Len(dirParts) /\ depth' \in 0 .. Len(Target)
  <2>1. CASE StartWalk
    BY <2>1, PartsAre DEF StartWalk
  <2>2. CASE Descend
    BY <2>2, PartsAre DEF Descend, Passed, JInv, InjectTypeOK
  <2> QED BY <2>1, <2>2
<1>4. PICK n \in Walk(image, Target)[depth'] : cur' = ReadInode(image, n)
  <2>1. CASE StartWalk
    BY <1>1, <2>1, PartsAre, WalkUnfolds DEF StartWalk
  <2>2. CASE Descend
    <3>1. depth \in 0 .. Len(dirParts) /\ depth < Len(dirParts) /\ depth' = depth + 1
      BY <2>2 DEF Descend, Passed, JInv, InjectTypeOK
    <3> QED BY <1>1, <2>2, <3>1, NextPartsLead DEF Descend
  <2> QED BY <2>1, <2>2
<1>5. /\ n \in Reachable(image) /\ n \in InodeNums /\ n \in DirsOf(image)
      /\ Walk(image, Target)[depth'] = {n}
  <2>1. depth' < Len(Target)
    BY <1>3, PartsAre
  <2> QED BY <1>1, <1>2, <1>3, <1>4, <2>1, WalkIn DEF TargetFails
<1>6. cur' \in Handle /\ cur'.num = n
  BY <1>1, <1>4, <1>5, HandlesAre DEF ReadInode
<1>7. InjectTypeOK'
  BY <1>2, <1>3, <1>6 DEF JInv, InjectTypeOK, Places
<1>8. AtDir(cur)' /\ LeadsTo(depth, cur.num)'
  BY <1>1, <1>4, <1>5, <1>6 DEF vars, AtDir, LeadsTo
<1>9. WalkHolds'
  BY <1>1, <1>2, <1>8 DEF vars, WalkHolds, TargetFails, Existing
<1>10. StoreHolds'
  BY <1>2 DEF StoreHolds
<1> QED BY <1>1, <1>2, <1>7, <1>9, <1>10 DEF vars, JInv, Phases

\* A directory is made, or the file created, where the walk is.
LEMMA CallingJInv == ASSUME JInv, SInv', MakeDir \/ Create PROVE JInv'
<1>1. /\ SInv /\ Good(image) /\ at = "walk" /\ pc' = "lookup" /\ op'.in = cur /\ image' = image
      /\ UNCHANGED <<opt, depth, cur, outcome, runs>>
  BY SInvGood DEF JInv, MakeDir, Create, CallMkdir, CallCreateFile, Call
<1>2. /\ ~TargetFails /\ Existing = {} /\ AtDir(cur) /\ LeadsTo(depth, cur.num)
      /\ outcome = "running" /\ ~opt.dry /\ depth \in 0 .. Len(dirParts)
  BY <1>1 DEF JInv, InjectTypeOK, Phases, WalkHolds
<1>3. at' \in {"making", "creating"}
  BY DEF MakeDir, Create
<1>4. InjectTypeOK'
  BY <1>1, <1>3 DEF JInv, InjectTypeOK, Places
<1>5. Phases'
  BY <1>1, <1>2 DEF MakeDir, Create, CallMkdir, CallCreateFile, Call, Phases, Making
<1>6. CASE MakeDir
  <2>1. /\ at' = "making" /\ op'.name = dirParts[depth + 1] /\ depth < Len(dirParts)
        /\ Resolve(image, NextParts) = {}
    BY <1>6 DEF MakeDir, CallMkdir, Call
  <2>2. depth + 1 \in 1 .. Len(dirParts)
    BY <1>2, <2>1, PartsAre
  <2>3. op'.name = Target[depth + 1] /\ Walk(image, Target)[depth + 1] = {}
    BY <1>1, <1>2, <2>1, <2>2, PartsAre, NextPartsLead
  <2>4. WalkHolds'
    BY <1>1, <1>2, <2>1, <2>3 DEF WalkHolds, TargetFails, Existing, AtDir, LeadsTo
  <2>5. StoreHolds'
    BY <2>1 DEF StoreHolds
  <2> QED BY <1>4, <1>5, <2>4, <2>5 DEF JInv
<1>7. CASE Create
  <2>1. /\ at' = "creating" /\ op'.name = base /\ op'.data = opt.data /\ depth = Len(Target) - 1
    BY <1>7, PartsAre DEF Create, CallCreateFile, Call
  <2>2. WalkHolds'
    BY <2>1 DEF WalkHolds
  <2>3. StoreHolds'
    BY <1>1, <1>2, <2>1 DEF StoreHolds, TargetFails, Existing, LeadsTo
  <2> QED BY <1>4, <1>5, <2>2, <2>3 DEF JInv
<1> QED BY <1>6, <1>7

\* The walk goes on in the directory that was made.
LEMMA MadeJInv == ASSUME JInv, SInv', Made PROVE JInv'
<1>1. /\ SInv /\ UNCHANGED vars /\ at = "making" /\ pc = "idle" /\ cur' = ret.in
      /\ depth' = depth + 1 /\ at' = "walk" /\ UNCHANGED <<opt, outcome, runs>>
  BY DEF JInv, Made, MadeHandle, Passed
<1>2. /\ ~TargetFails /\ Existing = {} /\ AtDir(ret.in) /\ LeadsTo(depth + 1, ret.in.num)
      /\ depth < Len(dirParts) /\ depth \in 0 .. Len(dirParts)
      /\ outcome = "running" /\ ~opt.dry
  BY <1>1 DEF JInv, InjectTypeOK, Phases, WalkHolds
<1>3. ret.in \in Handle
  BY <1>1, SInvGood DEF TypeOK, Results
<1>4. depth' \in 0 .. Len(dirParts)
  BY <1>1, <1>2, PartsAre
<1>5. InjectTypeOK'
  BY <1>1, <1>3, <1>4 DEF JInv, InjectTypeOK, Places
<1>6. WalkHolds'
  BY <1>1, <1>2 DEF vars, WalkHolds, TargetFails, Existing, AtDir, LeadsTo
<1> QED BY <1>1, <1>2, <1>5, <1>6 DEF vars, JInv, Phases, StoreHolds

\* Sync writes the superblock, and the config stays where it is.
LEMMA EndingJInv == ASSUME JInv, SInv', Written \/ SyncImage PROVE JInv'
<1>1. /\ SInv /\ Good(image) /\ Good(image') /\ image \in Image /\ pc = "idle" /\ pc' = "idle"
      /\ outcome = "running" /\ ~opt.dry
      /\ at' \in {"sync", "return"} /\ UNCHANGED <<opt, depth, cur, outcome, runs>>
  <2>1. Good(image')
    BY GoodAfter
  <2> QED BY <2>1, SInvGood DEF JInv, Phases, Written, AfterWrite, SyncImage, Sync, vars
<1>2. NamesFit /\ StartsWithoutHoles => ConfigAt(image) = Store!Whole(opt.data)
  BY <1>1 DEF JInv, StoreHolds, Written, SyncImage
<1>3. image'.itab = image.itab /\ image'.blk = image.blk
  BY <1>1 DEF Written, SyncImage, Sync, vars, Image
<1>4. ConfigAt(image') = ConfigAt(image)
  BY <1>1, <1>3, WalkSame
<1>5. InjectTypeOK'
  BY <1>1 DEF JInv, InjectTypeOK, Places
<1>6. StoreHolds'
  BY <1>1, <1>2, <1>4 DEF StoreHolds
<1> QED BY <1>1, <1>5, <1>6 DEF JInv, Phases, WalkHolds

-----------------------------------------------------------------------------
(* Then the steps of the writer, under Inject.                             *)

\* What a step does to the operation it is a step of: it refuses, goes on, or
\* returns.
LEMMA StepGoes ==
    ASSUME SInv, Step
    PROVE  \/ pc' = "closed" /\ image' = image
           \/ /\ pc \in Making \ {"dirent", "parent"} /\ pc' \in Making \ {"lookup", "parent"}
              /\ op' = op /\ ~AddDirent
           \/ /\ AddDirent /\ ~DirentRefused(op.in, op.name) /\ pc = "dirent"
              /\ \/ op.kind = "mkdir" /\ pc' = "parent" /\ op' = op /\ loc' = loc
                 \/ op.kind = "create" /\ pc' = "idle" /\ ret'.status = "ok"
           \/ WriteParent /\ pc = "parent" /\ op.kind = "mkdir" /\ pc' = "idle" /\ ~AddDirent
           \/ /\ OverwriteData /\ ~OverwriteRefused /\ pc = "odata" /\ pc' = "oinode"
              /\ op' = op /\ ~AddDirent
           \/ OverwriteInode /\ pc = "oinode" /\ pc' = "idle" /\ ~AddDirent
<1>1. ASSUME NEW status, Refuse(status) PROVE pc' = "closed" /\ image' = image
  BY <1>1 DEF Refuse, CloseWith
<1>2. CASE \E status : Refuse(status)
  BY <1>1, <1>2
<1>3. CASE ~\E status : Refuse(status)
  <2>1. CASE \/ LookupName \/ PickGroup \/ AllocInode \/ AllocBlock \/ WriteDesc
             \/ WriteBody \/ WriteInode
    <3>1. /\ pc \in Making \ {"dirent", "parent"} /\ pc' \in Making \ {"lookup", "parent"}
          /\ op' = op
      BY <1>3, <2>1 DEF LookupName, PickGroup, AllocInode, AllocBlock, WriteDesc, WriteBody,
                        WriteInode, Making
    <3> QED BY <3>1 DEF AddDirent
  <2>2. CASE AddDirent
    <3>1. ~DirentRefused(op.in, op.name) /\ pc = "dirent"
      BY <1>3, <2>2 DEF AddDirent
    <3>2. op.kind = "mkdir" \/ op.kind = "create"
      BY <3>1 DEF SInv, IInv, ArgumentsHold, Making
    <3>3. /\ op.kind = "mkdir" => pc' = "parent" /\ UNCHANGED <<op, loc, ret, hist>>
          /\ op.kind # "mkdir" => Return(Sealed(image, NewInode))
      BY <2>2, <3>1, DirentAdded DEF SInv
    <3> QED BY <2>2, <3>1, <3>2, <3>3 DEF Return
  <2>3. CASE WriteParent
    BY <2>3 DEF WriteParent, Return, AddDirent, SInv, MadeHolds
  <2>4. CASE OverwriteData
    BY <1>3, <2>4 DEF OverwriteData, AddDirent
  <2>5. CASE OverwriteInode
    BY <2>5 DEF OverwriteInode, Return, AddDirent
  <2> QED BY <2>1, <2>2, <2>3, <2>4, <2>5 DEF Step
<1> QED BY <1>2, <1>3

\* What a path leads to, a step leaves a path to.
LEMMA ReachableStays ==
    ASSUME SInv, SInv', [Next]_vars
    PROVE  Reachable(image) \subseteq Reachable(image') /\ DirsOf(image) \subseteq DirsOf(image')
<1>1. IInv /\ Good(image) /\ Good(image')
  BY SInvGood, GoodAfter
<1>2. \A d \in DirsOf(image) : NamesKeptIn(image, image', d)
  BY <1>1, StepKeepsNames
<1>3. DirsOf(image) \subseteq DirsOf(image')
  BY <1>2 DEF NamesKeptIn
<1> QED BY <1>1, <1>2, <1>3, ReachableGrows

\* Where nothing is new the target leads where it led.
LEMMA TargetStays ==
    ASSUME SInv, SInv', ~TargetFails, Grows(image, image', 0)
    PROVE  /\ ~ResolveFails(image', Target)
           /\ \A k \in 0 .. Len(Target) : Walk(image', Target)[k] = Walk(image, Target)[k]
           /\ Resolve(image', Target) = Existing
<1>1. /\ Good(image) /\ Good(image') /\ Target \in Seq(PathNames) /\ Target \in Seq(Names)
      /\ Len(Target) \in Nat
  BY SInvGood, GoodAfter, PartsAre
<1>2. ~ResolveFails(image', Target)
  BY <1>1, WalkStays DEF TargetFails
<1>3. ASSUME NEW k \in 0 .. Len(Target)
      PROVE  Walk(image', Target)[k] = Walk(image, Target)[k]
  <2>1. /\ Walk(image, Target)[k] # {} => Walk(image', Target)[k] = Walk(image, Target)[k]
        /\ Walk(image, Target)[k] = {} => Walk(image', Target)[k] \subseteq {0} \ {0}
    BY <1>1, WalkGrows DEF TargetFails
  <2> QED BY <2>1
<1>4. Len(Target) \in 0 .. Len(Target)
  BY <1>1
<1> QED BY <1>2, <1>3, <1>4 DEF Resolve, Existing

\* A step is a step of an operation.
LEMMA StepRuns == ASSUME Step PROVE pc \in Making \cup Overwriting
<1>1. CASE LookupName \/ PickGroup \/ AllocInode \/ AllocBlock
  BY <1>1 DEF LookupName, PickGroup, AllocInode, AllocBlock, Making
<1>2. CASE WriteDesc \/ WriteBody \/ WriteInode \/ AddDirent \/ WriteParent
  BY <1>2 DEF WriteDesc, WriteBody, WriteInode, AddDirent, WriteParent, Making
<1>3. CASE OverwriteData \/ OverwriteInode
  BY <1>3 DEF OverwriteData, OverwriteInode, Overwriting
<1> QED BY <1>1, <1>2, <1>3 DEF Step

\* What Inject knows of its place is not the writer's to change.
LEMMA WriteQuiet ==
    ASSUME JInv, SInv', Write
    PROVE  /\ SInv /\ Step /\ [Next]_vars /\ UNCHANGED injectVars /\ InjectTypeOK'
           /\ Phases' <=> /\ at = "making" => pc' \in {"idle", "closed"}
                                              \/ (pc' \in Making /\ op'.kind = "mkdir")
                          /\ at = "creating" => pc' \in {"idle", "closed"}
                                              \/ (pc' \in Making /\ op'.kind = "create")
                          /\ at = "overwriting" => pc' \in {"idle", "closed"} \cup Overwriting
           /\ \/ at = "making" /\ pc \in Making /\ op.kind = "mkdir"
              \/ at = "creating" /\ pc \in Making /\ op.kind = "create"
              \/ at = "overwriting" /\ pc \in Overwriting
<1>1. SInv /\ Step /\ UNCHANGED injectVars /\ InjectTypeOK /\ Phases
  BY DEF JInv, Write
<1>2. InjectTypeOK'
  BY <1>1 DEF InjectTypeOK, injectVars
<1>3. pc \in Making \cup Overwriting /\ pc \notin {"idle", "closed"} /\ at \in Places
  <2>1. pc \in Making \cup Overwriting
    BY <1>1, StepRuns
  <2> QED BY <1>1, <2>1 DEF InjectTypeOK, Making, Overwriting
<1>4. \/ at = "making" /\ pc \in Making /\ op.kind = "mkdir"
      \/ at = "creating" /\ pc \in Making /\ op.kind = "create"
      \/ at = "overwriting" /\ pc \in Overwriting
  <2>1. at \notin {"out", "open", "resolve", "walk", "sync", "return"}
    BY <1>1, <1>3 DEF Phases
  <2>2. at \in {"making", "creating", "overwriting"}
    BY <1>3, <2>1 DEF Places
  <2> QED BY <1>1, <1>3, <2>2 DEF Phases
<1>5. Phases' <=> /\ at = "making" => pc' \in {"idle", "closed"}
                                      \/ (pc' \in Making /\ op'.kind = "mkdir")
                  /\ at = "creating" => pc' \in {"idle", "closed"}
                                      \/ (pc' \in Making /\ op'.kind = "create")
                  /\ at = "overwriting" => pc' \in {"idle", "closed"} \cup Overwriting
  BY <1>1, <1>4 DEF Phases, injectVars
<1> QED BY <1>1, <1>2, <1>4, <1>5 DEF Next

\* The walk while a directory is made below it.
LEMMA MakingJInv == ASSUME JInv, SInv', Write, at = "making" PROVE JInv'
<1> DEFINE d == op.in.num
           W == Walk(image, Target)
           V == Walk(image', Target)
<1>1. /\ SInv /\ Step /\ [Next]_vars /\ UNCHANGED injectVars /\ InjectTypeOK'
      /\ pc \in Making /\ op.kind = "mkdir" /\ pc \notin Overwriting
      /\ (pc' \in {"idle", "closed"} \/ (pc' \in Making /\ op'.kind = "mkdir")) => Phases'
  BY WriteQuiet DEF Making, Overwriting
<1>2. /\ ~TargetFails /\ Existing = {} /\ depth < Len(dirParts) /\ depth \in 0 .. Len(dirParts)
      /\ d \in Reachable(image) /\ op.name = Target[depth + 1]
      /\ pc # "parent" => LeadsTo(depth, d) /\ W[depth + 1] = {}
      /\ pc = "parent" => LeadsTo(depth + 1, loc.ino)
  BY <1>1 DEF JInv, InjectTypeOK, WalkHolds
<1>3. /\ Good(image) /\ Good(image') /\ Target \in Seq(Names) /\ Target \in Seq(PathNames)
      /\ Len(Target) \in Nat /\ depth \in 0 .. Len(Target) /\ depth + 1 \in 1 .. Len(Target)
      /\ depth + 1 \in 0 .. Len(Target) /\ depth + 1 <= Len(Target) - 1
  BY <1>1, <1>2, SInvGood, GoodAfter, PartsAre
<1>4. /\ at' = "making" /\ depth' = depth /\ StoreHolds'
      /\ d \in Reachable(image')
  BY <1>1, <1>2, ReachableStays DEF injectVars, StoreHolds
<1>5. CASE pc' = "closed" /\ image' = image
  BY <1>1, <1>2, <1>4, <1>5 DEF JInv, WalkHolds, TargetFails, Existing, Making
<1>6. CASE Grows(image, image', 0) /\ pc' \in Making \ {"parent"} /\ pc # "parent" /\ op' = op
  <2>1. /\ ~ResolveFails(image', Target) /\ Resolve(image', Target) = {}
        /\ V[depth] = W[depth] /\ V[depth + 1] = W[depth + 1]
    BY <1>1, <1>2, <1>3, <1>6, TargetStays
  <2> HIDE DEF V, W
  <2>2. LeadsTo(depth, op.in.num)'
    BY <1>2, <1>4, <1>6, <2>1 DEF LeadsTo, V, W
  <2>3. WalkHolds'
    BY <1>2, <1>4, <1>6, <2>1, <2>2 DEF WalkHolds, TargetFails, Existing, Making, V
  <2> QED BY <1>1, <1>4, <1>6, <2>3 DEF JInv
<1>7. CASE /\ AddDirent /\ ~DirentRefused(op.in, op.name) /\ pc = "dirent"
           /\ pc' = "parent" /\ op' = op /\ loc' = loc
  <2>1. /\ Grows(image, image', loc.ino) /\ Walkable(image', loc.ino)
        /\ NamesFit => Found(Records(image', d), op.name) = loc.ino
    BY <1>1, <1>7, AddDirentGrows
  <2>2. loc.ino \in InodeNums /\ loc.ino # 0 /\ d \in InodeNums /\ Walkable(image, d)
    <3>1. loc.ino \in InodeNums
      BY <1>1, <1>7, BlocksApart
    <3>2. d \in InodeNums /\ Walkable(image, d)
      BY <1>1, <1>7, DirentAdded DEF SInv
    <3> QED BY <3>1, <3>2 DEF InodeNums
  <2>3. W[depth + 1] = {}
    BY <1>2, <1>7
  <2>4. ~ResolveFails(image', Target)
    BY <1>2, <1>3, <2>1, WalkStays DEF TargetFails
  <2>5. /\ \A k \in 0 .. Len(Target) : W[k] # {} => V[k] = W[k]
        /\ \A k \in 0 .. Len(Target) : W[k] = {} => V[k] \subseteq {loc.ino} \ {0}
        /\ \A k \in 1 .. Len(Target) : W[k - 1] = {} => V[k] = {}
    <3>1. /\ \A k \in 0 .. Len(Target) :
                /\ W[k] # {} => V[k] = W[k]
                /\ W[k] = {} => V[k] \subseteq {loc.ino} \ {0}
          /\ \A k \in 1 .. Len(Target) : W[k - 1] = {} => V[k] = {}
      BY <1>2, <1>3, <2>1, WalkGrows DEF TargetFails
    <3> HIDE DEF V, W
    <3> QED BY <3>1
  <2>6. W[Len(Target) - 1] = {}
    <3>1. Len(Target) - 1 \in (depth + 1) .. Len(Target)
      BY <1>3
    <3> QED BY <1>3, <2>3, <3>1, WalkEnds
  <2>7. V \in [0 .. Len(Target) -> SUBSET InodeNums]
        /\ \A k \in 1 .. Len(Target) : V[k] = Turn(image', V[k - 1], Target[k])
    BY <1>3, WalkUnfolds
  <2>8. NamesFit => W[depth] = {d}
    BY <1>2, <1>7 DEF LeadsTo
  <2> HIDE DEF V, W, d
  <2>9. V[Len(Target)] = {}
    <3>1. Len(Target) \in 1 .. Len(Target)
      BY <1>3
    <3> QED BY <2>5, <2>6, <3>1
  <2>10. NamesFit => V[depth] = {d}
    BY <1>3, <2>5, <2>8
  <2>11. V[depth + 1] \subseteq {loc.ino}
    BY <1>3, <2>3, <2>5
  <2>12. NamesFit => V[depth + 1] = {loc.ino}
    <3> SUFFICES ASSUME NamesFit PROVE V[depth + 1] = {loc.ino}
      OBVIOUS
    <3>1. V[depth + 1] = Turn(image', {d}, op.name)
      <4>1. (depth + 1) - 1 = depth
        BY <1>3
      <4> QED BY <1>2, <1>3, <2>7, <2>10, <4>1
    <3>2. Walkable(image', d)
      BY <2>1, <2>2 DEF Grows
    <3> QED BY <2>1, <2>2, <3>1, <3>2, TurnIs
  <2>13. LeadsTo(depth + 1, loc.ino)'
    BY <1>4, <1>7, <2>11, <2>12 DEF LeadsTo, V
  <2>14. WalkHolds'
    BY <1>2, <1>4, <1>7, <2>4, <2>9, <2>13 DEF WalkHolds, TargetFails, Existing, Resolve, V, d
  <2> QED BY <1>1, <1>4, <1>7, <2>14 DEF JInv, Making
<1>8. CASE WriteParent /\ pc = "parent" /\ pc' = "idle" /\ Grows(image, image', 0)
  <2>1. /\ ~ResolveFails(image', Target) /\ Resolve(image', Target) = {}
        /\ V[depth + 1] = W[depth + 1]
    BY <1>1, <1>2, <1>3, <1>8, TargetStays
  <2>2. ret'.in.num = loc.ino /\ ret'.in = ReadInode(image', loc.ino)
    BY <1>1, <1>8, MkdirReturns
  <2>3. LeadsTo(depth + 1, ret.in.num)'
    BY <1>2, <1>4, <1>8, <2>1, <2>2 DEF LeadsTo
  <2>4. d \in DirsOf(image) /\ loc.ino \in DirsOf(image)
    <3>1. d \in DirsOf(image)
      BY <1>1, MakingHolds DEF SInv
    <3>2. loc.ino \in InUse(image) /\ NodeAt(image, loc.ino).kind = NewInode.raw.kind
      BY <1>1, <1>8 DEF SInv, IInv, InodeHolds
    <3>3. NewInode.raw.kind = "dir"
      BY <1>1 DEF NewInode, InitInode
    <3> QED BY <3>1, <3>2, <3>3 DEF DirsOf
  <2>5. loc.ino \in Reachable(image)
    <3>1. PICK e \in Children(image, d) : e.ino = loc.ino
      BY <1>1, <1>8 DEF SInv, MadeHolds
    <3> QED BY <1>2, <1>3, <2>4, <3>1, ReachableOn
  <2>6. AtDir(ret.in)'
    BY <1>1, <2>2, <2>4, <2>5, ReachableStays DEF AtDir
  <2>7. WalkHolds'
    BY <1>2, <1>4, <1>8, <2>1, <2>3, <2>6 DEF WalkHolds, TargetFails, Existing, Making
  <2> QED BY <1>1, <1>4, <1>8, <2>7 DEF JInv
<1>9. ~AddDirent => Grows(image, image', 0)
  BY <1>1, StepGrows
<1> QED BY <1>1, <1>5, <1>6, <1>7, <1>8, <1>9, StepGoes DEF Making, Overwriting

\* The config is created where the walk has come to.
LEMMA CreatingJInv == ASSUME JInv, SInv', Write, at = "creating" PROVE JInv'
<1> DEFINE d == op.in.num
           N == Len(Target)
           W == Walk(image, Target)
           V == Walk(image', Target)
<1>1. /\ SInv /\ Step /\ [Next]_vars /\ UNCHANGED injectVars /\ InjectTypeOK'
      /\ pc \in Making /\ op.kind = "create"
      /\ (pc' \in {"idle", "closed"} \/ (pc' \in Making /\ op'.kind = "create")) => Phases'
  BY WriteQuiet DEF Making, Overwriting
<1>2. /\ ~TargetFails /\ Existing = {} /\ op.name = base /\ op.data = opt.data
      /\ LeadsTo(N - 1, d)
  BY <1>1 DEF JInv, StoreHolds
<1>3. /\ Good(image) /\ Good(image') /\ Target \in Seq(Names) /\ Target \in Seq(PathNames)
      /\ N \in Nat /\ N - 1 \in 0 .. N /\ N \in 1 .. N /\ base = Target[N]
  BY <1>1, SInvGood, GoodAfter, PartsAre
<1>4. at' = "creating" /\ opt' = opt /\ WalkHolds'
  BY <1>1 DEF injectVars, WalkHolds
<1>5. CASE pc' = "closed" /\ image' = image
  BY <1>1, <1>4, <1>5 DEF JInv, StoreHolds, Making
<1>6. CASE Grows(image, image', 0) /\ pc' \in Making /\ op' = op
  <2>1. /\ ~ResolveFails(image', Target) /\ Resolve(image', Target) = {} /\ V[N - 1] = W[N - 1]
    BY <1>1, <1>2, <1>3, <1>6, TargetStays
  <2> HIDE DEF V, W
  <2>2. LeadsTo(N - 1, op.in.num)'
    BY <1>2, <1>6, <2>1 DEF LeadsTo, V, W
  <2>3. StoreHolds'
    BY <1>2, <1>4, <1>6, <2>1, <2>2 DEF StoreHolds, TargetFails, Existing, Making
  <2> QED BY <1>1, <1>4, <1>6, <2>3 DEF JInv
<1>7. CASE /\ AddDirent /\ ~DirentRefused(op.in, op.name) /\ pc = "dirent"
           /\ pc' = "idle" /\ ret'.status = "ok"
  <2>1. /\ Grows(image, image', loc.ino)
        /\ NamesFit => Found(Records(image', d), op.name) = loc.ino
    BY <1>1, <1>7, AddDirentGrows
  <2>2. loc.ino \in InodeNums /\ loc.ino # 0 /\ d \in InodeNums /\ Walkable(image, d)
    <3>1. loc.ino \in InodeNums
      BY <1>1, <1>7, BlocksApart
    <3>2. d \in InodeNums /\ Walkable(image, d)
      BY <1>1, <1>7, DirentAdded DEF SInv
    <3> QED BY <3>1, <3>2 DEF InodeNums
  <2>3. ASSUME NamesFit PROVE ConfigAt(image') = Store!Whole(opt.data)
    <3>1. \A k \in 0 .. N : W[k] # {} => V[k] = W[k]
      BY <1>2, <1>3, <2>1, WalkGrows DEF TargetFails
    <3>2. W[N - 1] = {d}
      BY <1>2, <2>3 DEF LeadsTo
    <3>3. V[N] = Turn(image', V[N - 1], Target[N])
      BY <1>3, WalkUnfolds
    <3> HIDE DEF V, W, d, N
    <3>4. V[N] = Turn(image', {d}, op.name)
      BY <1>2, <1>3, <3>1, <3>2, <3>3
    <3>5. Walkable(image', d)
      BY <2>1, <2>2 DEF Grows
    <3>6. V[N] = {loc.ino}
      BY <2>1, <2>2, <2>3, <3>4, <3>5, TurnIs
    <3>7. Promise(op)
      BY <1>1, <1>7, <2>3, CreatePromise
    <3>8. /\ Lookup(image', ReadInode(image', d), op.name) = ret'.in.num
          /\ FileContent(image', ret'.in.num) = [data |-> op.data, size |-> DataLen[op.data]]
      BY <1>1, <3>7 DEF Promise, d
    <3>9. ret'.in.num = loc.ino
      BY <2>1, <2>3, <3>8, LookupReads
    <3>10. ConfigAt(image') = FileContent(image', loc.ino)
      BY <3>6 DEF ConfigAt, Resolve, V, N
    <3> QED BY <1>2, <3>8, <3>9, <3>10 DEF Store!Whole
  <2>4. StoreHolds'
    BY <1>4, <1>7, <2>3 DEF StoreHolds, Making, Overwriting
  <2> QED BY <1>1, <1>4, <1>7, <2>4 DEF JInv
<1>8. ~AddDirent => Grows(image, image', 0)
  BY <1>1, StepGrows
<1> QED BY <1>1, <1>5, <1>6, <1>7, <1>8, StepGoes DEF Making, Overwriting

\* The config is replaced where the target leads.
LEMMA OverwritingJInv == ASSUME JInv, SInv', Write, at = "overwriting" PROVE JInv'
<1> DEFINE n == op.in.num
<1>1. /\ SInv /\ Step /\ [Next]_vars /\ UNCHANGED injectVars /\ InjectTypeOK'
      /\ pc \in Overwriting
      /\ pc' \in {"idle", "closed"} \cup Overwriting => Phases'
  BY WriteQuiet
<1>2. ~TargetFails /\ Existing = {n} /\ op.data = opt.data
  BY <1>1 DEF JInv, StoreHolds
<1>3. at' = "overwriting" /\ opt' = opt /\ WalkHolds'
  BY <1>1 DEF injectVars, WalkHolds
<1>4. CASE pc' = "closed" /\ image' = image
  BY <1>1, <1>3, <1>4 DEF JInv, StoreHolds, Overwriting
<1>5. CASE Grows(image, image', 0) /\ pc' = "oinode" /\ op' = op
  <2>1. ~ResolveFails(image', Target) /\ Resolve(image', Target) = {n}
    BY <1>1, <1>2, <1>5, TargetStays
  <2>2. StoreHolds'
    BY <1>2, <1>3, <1>5, <2>1 DEF StoreHolds, TargetFails, Existing, Overwriting
  <2> QED BY <1>1, <1>3, <1>5, <2>2 DEF JInv, Overwriting
<1>6. CASE Grows(image, image', 0) /\ OverwriteInode /\ pc' = "idle"
  <2>1. Resolve(image', Target) = {n}
    BY <1>1, <1>2, <1>6, TargetStays
  <2>2. ASSUME StartsWithoutHoles PROVE ConfigAt(image') = Store!Whole(opt.data)
    <3>1. Promise(op)
      BY <1>1, <1>6, <2>2, OverwritePromise
    <3>2. op.kind = "overwrite"
      BY <1>1 DEF SInv, ResultHolds
    <3>3. FileContent(image', ret'.in.num) = [data |-> op.data, size |-> DataLen[op.data]]
      BY <3>1, <3>2 DEF Promise
    <3>4. ret'.in.num = n
      <4> DEFINE in == [op.in EXCEPT !.raw.size = DataLen[op.data]]
      <4>1. in \in Handle /\ in.num = n /\ image \in Image /\ ret'.in = Sealed(image, in)
        BY <1>1, <1>6, OverwriteInodeIs
      <4> HIDE DEF in
      <4> QED BY <4>1, SealedType
    <3>5. ConfigAt(image') = FileContent(image', n)
      BY <2>1 DEF ConfigAt
    <3> QED BY <1>2, <3>3, <3>4, <3>5 DEF Store!Whole
  <2>3. StoreHolds'
    BY <1>3, <1>6, <2>2 DEF StoreHolds, Making, Overwriting
  <2> QED BY <1>1, <1>3, <1>6, <2>3 DEF JInv
<1>7. ~AddDirent => Grows(image, image', 0)
  BY <1>1, StepGrows
<1> QED BY <1>1, <1>4, <1>5, <1>6, <1>7, StepGoes DEF Making, Overwriting

\* JInv is inductive.
LEMMA NextJInv == JInv /\ [InjectNext]_allVars => JInv'
<1> SUFFICES ASSUME JInv, [InjectNext]_allVars PROVE JInv'
  OBVIOUS
<1>1. SInv'
  BY InjectCallsWriter, NextSInv DEF JInv
<1>2. CASE Start \/ OpenImage
  BY <1>1, <1>2, OpeningJInv
<1>3. ASSUME NEW result \in {"ok", "error", "killed"}, Finish(result), pc' = "closed" PROVE JInv'
  BY <1>1, <1>3, FinishJInv
<1>4. CASE OpenFails \/ CallFailed
  <2>1. Finish("error") /\ pc' = "closed"
    BY <1>4 DEF OpenFails, CallFailed, JInv, Phases, vars
  <2> QED BY <1>3, <2>1
<1>5. CASE DryRun \/ ResolveFailed \/ RefuseExisting \/ ReturnOk
  <2>1. pc' = "closed" /\ (Finish("ok") \/ Finish("error"))
    BY <1>5 DEF DryRun, ResolveFailed, RefuseExisting, ReturnOk, Fail, Close, CloseWith
  <2> QED BY <1>3, <2>1
<1>6. CASE Killed
  <2>1. pc' = "closed" /\ Finish("killed")
    BY <1>6 DEF Killed, Kill, Close, CloseWith, JInv, Phases, vars
  <2> QED BY <1>3, <2>1
<1>7. CASE ReplaceExisting \/ StartWalk \/ Descend \/ MakeDir \/ Create \/ Made
  BY <1>1, <1>7, ReplaceJInv, DescendJInv, CallingJInv, MadeJInv
<1>8. CASE Written \/ SyncImage
  BY <1>1, <1>8, EndingJInv
<1>9. CASE Write
  <2>1. at \in {"making", "creating", "overwriting"}
    BY <1>1, <1>9, WriteQuiet
  <2> QED BY <1>1, <1>9, <2>1, MakingJInv, CreatingJInv, OverwritingJInv
<1>10. CASE UNCHANGED allVars
  <2>1. /\ SInv' /\ UNCHANGED vars /\ UNCHANGED injectVars
    BY <1>1, <1>10 DEF allVars
  <2> QED BY <2>1 DEF vars, injectVars, JInv, InjectTypeOK, Phases, WalkHolds, StoreHolds,
                      TargetFails, Existing, AtDir, LeadsTo
<1> QED BY <1>2, <1>4, <1>5, <1>6, <1>7, <1>8, <1>9, <1>10 DEF InjectNext, Run

-----------------------------------------------------------------------------
(* The theorems.                                                           *)

\* Wherever Inject is, and however many runs were interrupted before, JInv
\* holds.
THEOREM InjectInvariance == InjectSpec => []JInv
BY InitJInv, NextJInv, PTL DEF InjectSpec

\* Inject keeps its place in the path, its handle and its result in range.
THEOREM InjectTypeCorrect == InjectSpec => []InjectTypeOK
<1>1. JInv => InjectTypeOK
  BY DEF JInv
<1> QED BY <1>1, InjectInvariance, PTL

\* Inject uses the writer as the writer asks to be used: it hands it a handle
\* as the image has it, of a directory a path leads to, and does not go on
\* after an error.
THEOREM InjectUsesWriter == InjectSpec => WriterSpec
<1>1. InjectInit => Init
  BY DEF InjectInit
<1> QED BY <1>1, InjectCallsWriter, InjectInvariance, PTL DEF InjectSpec, WriterSpec

\* So what holds of the writer holds under Inject: what the tree refers to is
\* there, after any interruptions and reruns.
THEOREM InjectReferencesResolve == InjectSpec => []ReferencesResolve
<1>1. JInv => ReferencesResolve
  BY DEF JInv, SInv, IInv
<1> QED BY <1>1, InjectInvariance, PTL

\* A dry run writes nothing, whatever it finds.
THEOREM DryRunsSafe == InjectSpec => DryRunsReadOnly
<1>1. ASSUME JInv, [InjectNext]_allVars, outcome = "running", opt.dry PROVE UNCHANGED image
  <2>1. at \in {"open", "resolve"} /\ at # "out"
    BY <1>1 DEF JInv, Phases
  <2>2. CASE Killed
    BY <2>2 DEF Killed, Kill, Close, vars
  <2>3. CASE UNCHANGED allVars
    BY <2>3 DEF allVars, vars
  <2>4. CASE OpenImage \/ OpenFails \/ DryRun \/ ResolveFailed
    BY <2>4 DEF OpenImage, OpenFS, OpenFails, DryRun, ResolveFailed, Fail, Close, vars
  <2>5. CASE RefuseExisting \/ ReplaceExisting \/ StartWalk
    BY <1>1, <2>5 DEF RefuseExisting, ReplaceExisting, StartWalk, MayWrite
  <2>6. CASE Descend \/ MakeDir \/ Create \/ Made \/ Written \/ CallFailed \/ SyncImage \/ ReturnOk
    BY <2>1, <2>6 DEF Descend, MakeDir, Create, Made, Written, CallFailed, Calling, SyncImage,
                      ReturnOk
  <2>7. CASE Write
    <3>1. at \notin {"open", "resolve"}
      BY <1>1, <2>7, StepRuns DEF Write, Phases, JInv, Making, Overwriting
    <3> QED BY <2>1, <3>1
  <2>8. ~Start
    BY <2>1 DEF Start
  <2> QED BY <1>1, <2>2, <2>3, <2>4, <2>5, <2>6, <2>7, <2>8 DEF InjectNext, Run
<1>2. JInv /\ [InjectNext]_allVars =>
          [outcome = "running" /\ opt.dry => UNCHANGED image]_allVars
  BY <1>1
<1> QED BY <1>2, InjectInvariance, PTL DEF InjectSpec, DryRunsReadOnly

-----------------------------------------------------------------------------
(* Inject implements the store.  Only two steps change what a reader finds *)
(* at the target: the record that names the new file, and the two writes   *)
(* of an overwrite.                                                        *)

\* No file is as long as none.
LEMMA ContentIsSome ==
    ASSUME NEW img, Good(img), NEW n \in InodeNums PROVE FileContent(img, n) # NoConfig
<1>1. NodeAt(img, n).size \in Nat
  BY NodeType DEF Good, Inode
<1>2. NoConfig.size = -1 /\ FileContent(img, n).size = NodeAt(img, n).size
  BY DEF NoConfig, FileContent
<1>3. NodeAt(img, n).size # -1
  BY <1>1
<1> QED BY <1>2, <1>3

\* The first write of an overwrite replaces the contents.
LEMMA OverwriteDataReplaces ==
    ASSUME JInv, JInv', StartsWithoutHoles, Write, at = "overwriting",
           OverwriteData, ~OverwriteRefused
    PROVE  Store!Replace
<1> DEFINE n == op.in.num
           b == op.in.raw.blk
<1>1. /\ SInv /\ image \in Image /\ Good(image) /\ pc = "odata" /\ pc' = "oinode" /\ op' = op
      /\ image' = [image EXCEPT !.blk[b] = NewFileBlock(op.data)]
      /\ UNCHANGED injectVars
  BY SInvGood DEF JInv, OverwriteData, Refuse, Write
<1>2. /\ outcome = "running" /\ opt.force /\ ~opt.dry
      /\ ~TargetFails /\ Existing = {n} /\ op.data = opt.data
      /\ Resolve(image', Target) = {n}
  <2>1. outcome = "running" /\ opt.force /\ ~opt.dry
    BY DEF JInv, Phases
  <2>2. Existing = {n} /\ op.data = opt.data /\ ~TargetFails
    BY <1>1 DEF JInv, StoreHolds, Overwriting
  <2>3. Resolve(image', Target) = {n}
    BY <1>1 DEF JInv, StoreHolds, Overwriting, Existing, injectVars
  <2> QED BY <2>1, <2>2, <2>3
<1>3. n \in InodeNums /\ n \in InUse(image) /\ op.in.raw = NodeAt(image, n) /\ op.in.raw.kind = "file"
      /\ op.in.raw.single /\ b \in BlockNums
  <2>1. op.in = ReadInode(image, n) /\ op.in.raw.kind # "free" /\ n \in InodeNums
    BY <1>1 DEF SInv, IInv, TypeOK, Operations, Handle, ArgumentsHold, Overwriting
  <2>2. op.in.raw = NodeAt(image, n) /\ n \in InUse(image) /\ op.in.raw \in Inode
    BY <1>1, <2>1, NodeType DEF ReadInode, InUse
  <2>3. op.in.raw.kind = "file" /\ op.in.raw.single
    BY <2>1, <2>2 DEF OverwriteRefused, Inode
  <2>4. b \in NodeAt(image, n).owns
    BY <1>1, <2>2, <2>3 DEF SInv, IInv, ExtentsOwned
  <2> QED BY <2>1, <2>2, <2>3, <2>4 DEF Inode
<1>4. ~NodeAt(image, n).hole
  BY <1>1, <1>3 DEF SInv, NoHoles
<1>5. image'.itab = image.itab /\ image'.blk[b].data = op.data
  BY <1>1, <1>3 DEF Image, NewFileBlock
<1>6. /\ ConfigAt(image) = FileContent(image, n) /\ ConfigAt(image') = FileContent(image', n)
  BY <1>2 DEF ConfigAt, Existing
<1>7. FileContent(image', n) = [data |-> op.data, size |-> NodeAt(image, n).size]
  BY <1>3, <1>4, <1>5 DEF FileContent, NodeAt
<1>8. FileContent(image', n) = [FileContent(image, n) EXCEPT !.data = op.data]
  BY <1>7 DEF FileContent
<1>9. ConfigAt(image) # NoConfig
  BY <1>1, <1>3, <1>6, ContentIsSome
<1> QED BY <1>1, <1>2, <1>6, <1>8, <1>9 DEF Store!Replace, injectVars

\* The second write gives them their length.
LEMMA OverwriteInodeReplaces ==
    ASSUME JInv, JInv', NamesFit, StartsWithoutHoles, Write, at = "overwriting", OverwriteInode
    PROVE  Store!Replace
<1> DEFINE n == op.in.num
<1>1. /\ SInv /\ Good(image) /\ pc = "oinode" /\ pc' = "idle" /\ UNCHANGED injectVars
  BY SInvGood DEF JInv, OverwriteInode, Return, Write
<1>2. /\ outcome = "running" /\ opt.force /\ ~opt.dry /\ Existing = {n} /\ op.data = opt.data
  BY <1>1 DEF JInv, Phases, StoreHolds, Overwriting
<1>3. /\ op.in.raw = NodeAt(image, n) /\ n \in InUse(image) /\ n \in InodeNums
      /\ op.in.raw.kind = "file" /\ op.in.raw.single
  BY <1>1, OverwriteInodeIs
<1>4. ~NodeAt(image, n).hole /\ image.blk[op.in.raw.blk].data = op.data
  BY <1>1, <1>3 DEF SInv, NoHoles, ResultHolds
<1>5. ConfigAt(image) = FileContent(image, n)
  BY <1>2 DEF ConfigAt, Existing
<1>6. ConfigAt(image) # NoConfig /\ ConfigAt(image).data = opt.data
  <2>1. FileContent(image, n).data = op.data
    BY <1>3, <1>4 DEF FileContent
  <2> QED BY <1>1, <1>2, <1>3, <1>5, <2>1, ContentIsSome
<1>7. ConfigAt(image') = Store!Whole(opt.data)
  BY <1>1 DEF JInv, StoreHolds, injectVars
<1> QED BY <1>1, <1>2, <1>6, <1>7 DEF Store!Replace, injectVars

\* A step of the writer under Inject changes the config as the store does.
LEMMA WriteStores ==
    ASSUME JInv, JInv', NamesFit, StartsWithoutHoles, Write
    PROVE  Store!Put \/ Store!Replace \/ UNCHANGED Store!storeVars
<1>1. /\ SInv /\ SInv' /\ Step /\ UNCHANGED injectVars
      /\ \/ at = "making" /\ pc \in Making /\ op.kind = "mkdir"
         \/ at = "creating" /\ pc \in Making /\ op.kind = "create"
         \/ at = "overwriting" /\ pc \in Overwriting
  BY WriteQuiet DEF JInv
<1>2. ASSUME ConfigAt(image') = ConfigAt(image) PROVE UNCHANGED Store!storeVars
  BY <1>1, <1>2 DEF Store!storeVars, injectVars
<1>3. CASE pc' = "closed" /\ image' = image
  BY <1>2, <1>3
<1>4. CASE at = "making"
  <2>1. Existing = {} /\ Resolve(image', Target) = {}
    BY <1>1, <1>4 DEF JInv, WalkHolds, Existing, injectVars
  <2> QED BY <1>2, <2>1 DEF ConfigAt, Existing
<1>5. CASE at = "creating" /\ pc' \in Making
  <2>1. Existing = {} /\ Resolve(image', Target) = {}
    BY <1>1, <1>5 DEF JInv, StoreHolds, Existing, injectVars, Making, Overwriting
  <2> QED BY <1>2, <2>1 DEF ConfigAt, Existing
<1>6. CASE at = "creating" /\ pc' = "idle"
  <2>1. Existing = {} /\ outcome = "running" /\ ~opt.dry
    BY <1>1, <1>6 DEF JInv, Phases, StoreHolds, Making, Overwriting
  <2>2. ConfigAt(image') = Store!Whole(opt.data)
    BY <1>1, <1>6 DEF JInv, StoreHolds, injectVars
  <2>3. ConfigAt(image) = NoConfig
    BY <2>1 DEF ConfigAt, Existing
  <2> QED BY <1>1, <2>1, <2>2, <2>3 DEF Store!Put, injectVars
<1>7. CASE at = "overwriting" /\ OverwriteData /\ ~OverwriteRefused
  BY <1>7, OverwriteDataReplaces
<1>8. CASE at = "overwriting" /\ OverwriteInode
  BY <1>8, OverwriteInodeReplaces
<1> QED BY <1>1, <1>3, <1>4, <1>5, <1>6, <1>7, <1>8, StepGoes DEF Making, Overwriting

\* When names fit in eight bits and no file at first is an unwritten extent,
\* the config appears whole or not at all, is replaced only with --force, never
\* on a dry run, and "ok" means that it is there as asked.
THEOREM StoreImplemented ==
    NamesFit /\ StartsWithoutHoles => (InjectSpec => ImplementsStore)
<1> SUFFICES ASSUME NamesFit, StartsWithoutHoles PROVE InjectSpec => ImplementsStore
  OBVIOUS
<1>1. ASSUME JInv, JInv', [InjectNext]_allVars
      PROVE  Store!StoreNext \/ UNCHANGED Store!storeVars
  <2>1. ASSUME UNCHANGED <<image, opt, outcome>> PROVE UNCHANGED Store!storeVars
    BY <2>1 DEF Store!storeVars
  <2>2. ASSUME NEW result \in {"ok", "error", "killed"}, Finish(result), image' = image,
               at # "out",
               result = "ok" => opt.dry \/ ConfigAt(image) = Store!Whole(opt.data)
        PROVE  Store!Answer
    <3>1. outcome = "running" /\ outcome' = result /\ opt' = opt
      BY <1>1, <2>2 DEF JInv, InjectTypeOK, Places, Phases, Finish
    <3> QED BY <2>2, <3>1 DEF Store!Answer
  <2>3. CASE Start
    <3>1. outcome # "running" /\ outcome' = "running" /\ opt' \in Options /\ image' = image
      BY <1>1, <2>3 DEF JInv, Phases, Start, vars
    <3> QED BY <3>1 DEF Store!Ask, Store!StoreNext, Options
  <2>4. CASE OpenFails \/ CallFailed \/ ResolveFailed \/ RefuseExisting
    <3>1. Finish("error") /\ image' = image /\ at # "out"
      BY <2>4 DEF OpenFails, CallFailed, Calling, ResolveFailed, RefuseExisting, Fail, Close, vars
    <3> QED BY <2>2, <3>1 DEF Store!StoreNext
  <2>5. CASE DryRun
    <3>1. Finish("ok") /\ image' = image /\ at # "out" /\ opt.dry
      BY <2>5 DEF DryRun, Close
    <3> QED BY <2>2, <3>1 DEF Store!StoreNext
  <2>6. CASE ReturnOk
    <3>1. Finish("ok") /\ image' = image /\ at = "return"
      BY <2>6 DEF ReturnOk, Close
    <3>2. ConfigAt(image) = Store!Whole(opt.data)
      BY <1>1, <3>1 DEF JInv, StoreHolds
    <3> QED BY <2>2, <3>1, <3>2 DEF Store!StoreNext
  <2>7. CASE Killed
    <3>1. Finish("killed") /\ image' = image
      BY <2>7 DEF Killed, Kill, Close, vars
    <3>2. at # "out"
      BY <1>1, <2>7 DEF Killed, Kill, JInv, Phases
    <3> QED BY <2>2, <3>1, <3>2 DEF Store!StoreNext
  <2>8. CASE OpenImage \/ StartWalk \/ Descend \/ Made \/ Written
    <3>1. UNCHANGED <<image, opt, outcome>>
      BY <2>8 DEF OpenImage, OpenFS, StartWalk, Descend, Made, Written, vars
    <3> QED BY <2>1, <3>1
  <2>9. CASE ReplaceExisting \/ MakeDir \/ Create
    <3>1. UNCHANGED <<image, opt, outcome>>
      BY <2>9 DEF ReplaceExisting, MakeDir, Create, CallOverwrite, CallMkdir, CallCreateFile, Call
    <3> QED BY <2>1, <3>1
  <2>10. CASE Write
    BY <1>1, <2>10, WriteStores DEF Store!StoreNext
  <2>11. CASE SyncImage
    <3>1. Good(image) /\ image \in Image /\ Good(image')
      BY <1>1, SInvGood, GoodAfter DEF JInv
    <3>2. image'.itab = image.itab /\ image'.blk = image.blk /\ UNCHANGED <<opt, outcome>>
      BY <2>11, <3>1 DEF SyncImage, Sync, Image
    <3>3. ConfigAt(image') = ConfigAt(image)
      BY <3>1, <3>2, WalkSame
    <3> QED BY <3>2, <3>3 DEF Store!storeVars
  <2>12. CASE UNCHANGED allVars
    BY <2>1, <2>12 DEF allVars, vars, injectVars
  <2> QED BY <1>1, <2>3, <2>4, <2>5, <2>6, <2>7, <2>8, <2>9, <2>10, <2>11, <2>12
          DEF InjectNext, Run
<1>2. JInv /\ JInv' /\ [InjectNext]_allVars => [Store!StoreNext]_(Store!storeVars)
  BY <1>1
<1> QED BY <1>2, InjectInvariance, PTL DEF InjectSpec, ImplementsStore

-----------------------------------------------------------------------------
(* What a run that succeeds leaves.                                        *)

\* Where a run may succeed, the disk has the totals that are in memory.
Flushed ==
    at \in {"resolve", "return"} => sb.freeI = image.sb.freeI /\ sb.freeB = image.sb.freeB

\* OpenFS reads them and Sync writes them.
LEMMA NextFlushed == JInv /\ Flushed /\ [InjectNext]_allVars => Flushed'
<1> SUFFICES ASSUME JInv, Flushed, [InjectNext]_allVars, at' \in {"resolve", "return"}
             PROVE  sb'.freeI = image'.sb.freeI /\ sb'.freeB = image'.sb.freeB
  BY DEF Flushed
<1>1. at' # "out"
  OBVIOUS
<1>2. ~Start /\ ~OpenFails /\ ~Killed /\ ~CallFailed
  BY <1>1 DEF Start, OpenFails, Killed, CallFailed, Finish
<1>3. ~DryRun /\ ~ResolveFailed /\ ~RefuseExisting /\ ~ReturnOk
  BY <1>1 DEF DryRun, ResolveFailed, RefuseExisting, ReturnOk, Fail, Finish
<1>4. ~ReplaceExisting /\ ~StartWalk /\ ~Descend /\ ~MakeDir /\ ~Create /\ ~Made /\ ~Written
  BY DEF ReplaceExisting, StartWalk, Descend, MakeDir, Create, Made, Written, AfterWrite
<1>5. CASE OpenImage
  BY <1>5 DEF OpenImage, OpenFS
<1>6. CASE SyncImage
  <2>1. image \in Image
    BY SInvGood DEF JInv
  <2>2. image'.sb = sb'
    BY <1>6, <2>1 DEF SyncImage, Sync, Image
  <2> QED BY <2>2
<1>7. CASE Write
  <2>1. at' = at /\ pc \in Making \cup Overwriting
    BY <1>7, StepRuns DEF Write, injectVars
  <2> QED BY <2>1 DEF JInv, Phases, Making, Overwriting
<1>8. CASE UNCHANGED allVars
  BY <1>8 DEF allVars, vars, injectVars, Flushed
<1> QED BY <1>2, <1>3, <1>4, <1>5, <1>6, <1>7, <1>8 DEF InjectNext, Run

\* A run succeeds where nothing of the writer is in progress, and writes no more.
LEMMA SuccessEnds ==
    ASSUME [InjectNext]_allVars, outcome = "running", outcome' = "ok"
    PROVE  /\ at \in {"resolve", "return"} /\ pc = "idle"
           /\ image' = image
<1>1. outcome' # outcome /\ outcome' # "running"
  OBVIOUS
<1>2. ~Start /\ ~OpenFails /\ ~Killed /\ ~CallFailed
  BY DEF Start, OpenFails, Killed, CallFailed, Finish
<1>3. ~ResolveFailed /\ ~RefuseExisting
  BY DEF ResolveFailed, RefuseExisting, Fail, Finish
<1>4. /\ ~OpenImage /\ ~ReplaceExisting /\ ~StartWalk /\ ~Descend /\ ~MakeDir /\ ~Create
      /\ ~Made /\ ~Written /\ ~Write /\ ~SyncImage /\ ~UNCHANGED allVars
  BY <1>1 DEF OpenImage, ReplaceExisting, StartWalk, Descend, MakeDir, Create, Made, Written,
              Write, SyncImage, allVars, injectVars
<1>5. DryRun \/ ReturnOk
  BY <1>2, <1>3, <1>4 DEF InjectNext, Run
<1> QED BY <1>5 DEF DryRun, ReturnOk, Close

\* What Inject knows of an image when it returns, from images that are right.
LEMMA InjectRight ==
    ASSUME CountersFit, TotalsAgree, StartsSealed, NamesFit, StartsWithoutLongFiles,
           StartsWithWholeNames, LinksFit
    PROVE  InjectSpec => [](JInv /\ Flushed /\ PInv /\ SaneBefore /\ CInv /\ NInv)
<1>1. GroupsFit
  BY FitFits
<1>2. InjectInit => JInv /\ Flushed /\ PInv /\ SaneBefore /\ CInv /\ NInv
  BY InitJInv, InitPInv, InitSane, InitCInv, InitNInv DEF InjectInit, Flushed
<1>3. JInv /\ Flushed /\ PInv /\ SaneBefore /\ CInv /\ NInv /\ [InjectNext]_allVars =>
          (JInv /\ Flushed /\ PInv /\ SaneBefore /\ CInv /\ NInv)'
  BY <1>1, InjectCallsWriter, NextJInv, NextFlushed, NextPInv, NextSane, NextCInv, NextNInv
<1> QED BY <1>2, <1>3, PTL DEF InjectSpec

\* A run that succeeds leaves a filesystem e2fsck -fn finds clean, with every
\* checksum right, and with totals that agree with the groups unless an earlier
\* run ended before its Sync.
THEOREM SuccessesAreClean ==
    ASSUME CountersFit, TotalsAgree, StartsSealed, NamesFit, StartsWithoutLongFiles,
           StartsWithWholeNames, LinksFit
    PROVE  InjectSpec => SuccessIsClean
<1>1. ASSUME JInv, Flushed, PInv, SaneBefore, CInv, NInv, [InjectNext]_allVars,
             outcome = "running", outcome' = "ok", Undisturbed
      PROVE  /\ FsckClean(image') /\ ChecksumsValid(image')
             /\ ~hist.unsynced => SuperblockAgrees(image')
  <2>1. at \in {"resolve", "return"} /\ pc = "idle" /\ image' = image
    BY <1>1, SuccessEnds
  <2>2. FsckClean(image) /\ ChecksumsValid(image)
    BY <1>1, <2>1, CleanBetween, SealedBetween
        DEF CleanBetweenOperations, ChecksumsBetweenOperations
  <2>3. ~hist.unsynced => SuperblockAgrees(image)
    BY <1>1, <2>1, TotalsBetween DEF TotalsFollowGroups, Flushed, SuperblockAgrees
  <2> QED BY <2>1, <2>2, <2>3
<1>2. JInv /\ Flushed /\ PInv /\ SaneBefore /\ CInv /\ NInv /\ [InjectNext]_allVars =>
          [outcome = "running" /\ outcome' = "ok" /\ Undisturbed =>
              /\ FsckClean(image') /\ ChecksumsValid(image')
              /\ ~hist.unsynced => SuperblockAgrees(image')]_allVars
  BY <1>1
<1> QED BY <1>2, InjectRight, PTL DEF InjectSpec, SuccessIsClean

-----------------------------------------------------------------------------
(* Why a run fails.                                                        *)

\* What FailsForAReason asks for, once the image is open.
Reason ==
    \/ TargetFails
    \/ \E n \in Existing : CannotReplace(NodeAt(image, n))
    \/ Existing = {} /\ CannotAdd

\* A call that returned an error had a reason to.
FailedHolds == Calling /\ pc = "closed" => Reason

\* It is one of the image on disk and of what was asked.
LEMMA ReasonStays == ASSUME Reason, image' = image, opt' = opt PROVE Reason'
BY DEF Reason, TargetFails, Existing, CannotReplace, CannotAdd, Roomy, Depth, PartFound,
       NoRoomIn, EmptyPromise, FreeInodeBits, FreeBlockBits

\* The parts found end where the walk is nowhere.
LEMMA DepthIs ==
    ASSUME Good(image), NEW k \in 0 .. Len(Target) - 1, NEW n, Walk(image, Target)[k] = {n},
           Walk(image, Target)[k + 1] = {}
    PROVE  Depth = k /\ Resolve(image, SubSeq(Target, 1, Depth)) = {n}
<1> DEFINE N == Len(Target)
           W == Walk(image, Target)
           K == {0} \cup {j \in 1 .. N : PartFound(j)}
<1>1. Target \in Seq(Names) /\ N \in Nat /\ k \in 0 .. N /\ k + 1 \in 0 .. N
  BY PartsAre
<1>2. ASSUME NEW j \in 0 .. N PROVE Resolve(image, SubSeq(Target, 1, j)) = W[j]
  <2>1. /\ Len(SubSeq(Target, 1, j)) = j /\ j \in 0 .. j
        /\ \A i \in 0 .. j : Walk(image, SubSeq(Target, 1, j))[i] = W[i]
    BY <1>1, WalkPrefix
  <2> QED BY <2>1 DEF Resolve
<1>3. \A j \in (k + 1) .. N : W[j] = {}
  BY <1>1, WalkEnds
<1>4. ASSUME NEW j \in K PROVE j <= k /\ j \in Nat
  <2>1. CASE j = 0
    BY <1>1, <2>1
  <2>2. CASE j \in 1 .. N /\ PartFound(j)
    <3>1. j \in 0 .. N /\ j \in Nat
      BY <1>1, <2>2
    <3>2. W[j] # {}
      BY <1>2, <2>2, <3>1 DEF PartFound
    <3> HIDE DEF W, N
    <3> QED BY <1>1, <1>3, <3>1, <3>2
  <2> QED BY <2>1, <2>2
<1>5. k \in K
  <2>1. CASE k = 0
    BY <2>1
  <2>2. CASE k # 0
    <3>1. k \in 1 .. N
      BY <1>1, <2>2
    <3>2. PartFound(k)
      BY <1>1, <1>2 DEF PartFound
    <3> QED BY <3>1, <3>2
  <2> QED BY <2>1, <2>2
<1> HIDE DEF K, W, N
<1>6. Max(K) = k
  <2>1. \E x \in K : \A y \in K : x >= y
    BY <1>1, <1>4, <1>5
  <2>2. Max(K) \in K /\ \A y \in K : Max(K) >= y
    BY <2>1 DEF Max
  <2> DEFINE x == Max(K)
  <2> HIDE DEF x
  <2>3. x \in Nat /\ x <= k /\ x >= k /\ k \in Nat
    BY <1>4, <1>5, <2>2 DEF x
  <2>4. x = k
    BY <2>3
  <2> QED BY <2>4 DEF x
<1>7. Depth = k
  BY <1>6 DEF Depth, K, N
<1> QED BY <1>1, <1>2, <1>7 DEF W

\* Where the walk has come to a directory without the name, the writer's
\* refusals are reasons: lookup can read the directory and finds nothing.
LEMMA MakingFails ==
    ASSUME RInv, ~TargetFails, Existing = {}, Step, pc' = "closed", pc \in Making,
           op.kind = "create" => op.data = opt.data,
           NEW k \in 0 .. Len(Target) - 1, Walk(image, Target)[k] = {op.in.num},
           Walk(image, Target)[k + 1] = {}, op.name = Target[k + 1]
    PROVE  Reason
<1> DEFINE d == op.in.num
<1>1. IInv /\ image \in Image /\ Good(image)
  BY IInvLinks DEF RInv, GInv, IInv, TypeOK, Good
<1>2. d \in DirsOf(image) /\ op.in = ReadInode(image, d)
  BY <1>1, MakingHolds DEF IInv, ArgumentsHold
<1>3. Walkable(image, d)
  <2>1. ~Unwalkable(image, d)
    BY DEF TargetFails, ResolveFails
  <2> QED BY <2>1, WalkableIs
<1>4. SUFFICES CannotAdd
  BY DEF Reason
<1>5. CASE LookupName
  <2>1. ~LookupRefused(op.in)
    BY <1>2, <1>3 DEF LookupRefused, Walkable, ReadInode
  <2>2. Lookup(image, op.in, op.name) = 0
    <3>1. /\ Target \in Seq(Names) /\ k + 1 \in 1 .. Len(Target) /\ (k + 1) - 1 = k
      BY PartsAre
    <3>2. Walk(image, Target)[k + 1] = Turn(image, {d}, op.name)
      BY <1>1, <3>1, WalkUnfolds
    <3>3. Turn(image, {d}, op.name) = {Found(Records(image, d), op.name)} \ {0}
      BY <1>3, TurnIs
    <3>4. Found(Records(image, d), op.name) = 0
      BY <3>2, <3>3
    <3> QED BY <1>2, <3>4, LookupReads
  <2>3. NotLookedUp
    BY <1>5, <2>2 DEF LookupName
  <2> QED BY <2>1, <2>3 DEF NotLookedUp, CannotAdd
<1>6. CASE PickGroup
  <2>1. Roomy = {}
    BY <1>6 DEF PickGroup
  <2> QED BY <2>1 DEF CannotAdd
<1>7. CASE AllocInode \/ AllocBlock
  <2>1. /\ pc \in {"ialloc", "balloc"}
        /\ FreeInodeBits(loc.g) = {} \/ FreeBlockBits(loc.g) = {}
    BY <1>7 DEF AllocInode, AllocBlock
  <2>2. HasRoom(image.gd[loc.g])
    BY <2>1 DEF RInv, GInv, DescHolds, IInv, GroupHolds, HasRoom
  <2>3. loc.g \in Group
    BY <1>1 DEF IInv, TypeOK, Locals
  <2> QED BY <2>1, <2>2, <2>3 DEF CannotAdd, EmptyPromise
<1>8. CASE AddDirent
  <2>1. pc = "dirent" /\ DirentRefused(op.in, op.name)
    BY <1>8 DEF AddDirent, Return
  <2>2. NoRoomIn(op.in, op.name)
    BY <2>1, DirentRefusal
  <2>3. Depth = k /\ Resolve(image, SubSeq(Target, 1, Depth)) = {d}
    BY <1>1, DepthIs
  <2> QED BY <1>2, <2>2, <2>3 DEF CannotAdd
<1>9. ~(WriteDesc \/ WriteBody \/ WriteInode \/ WriteParent)
  BY DEF WriteDesc, WriteBody, WriteInode, WriteParent, Return
<1>10. ~(OverwriteData \/ OverwriteInode)
  BY DEF OverwriteData, OverwriteInode, Making
<1> QED BY <1>5, <1>6, <1>7, <1>8, <1>9, <1>10 DEF Step

\* A call that returns an error has a reason to.
LEMMA WriteFails ==
    ASSUME NamesFit, JInv, RInv, JInv', Write, pc' = "closed" PROVE Reason
<1>1. /\ Step /\ IInv
      /\ \/ at = "making" /\ pc \in Making /\ op.kind = "mkdir"
         \/ at = "creating" /\ pc \in Making /\ op.kind = "create"
         \/ at = "overwriting" /\ pc \in Overwriting
  BY WriteQuiet DEF JInv, SInv
<1>2. CASE at = "making"
  <2>1. pc \in Making /\ op.kind = "mkdir"
    BY <1>1, <1>2
  <2>2. pc # "parent"
    BY <1>1, <2>1 DEF Step, LookupName, PickGroup, AllocInode, AllocBlock, WriteDesc, WriteBody,
       WriteInode, AddDirent, WriteParent, OverwriteData, OverwriteInode, Return
  <2>3. /\ ~TargetFails /\ Existing = {} /\ depth \in 0 .. Len(Target) - 1
        /\ op.name = Target[depth + 1] /\ LeadsTo(depth, op.in.num)
        /\ Walk(image, Target)[depth + 1] = {}
    BY <1>2, <2>1, <2>2, PartsAre DEF JInv, InjectTypeOK, WalkHolds
  <2> QED BY <1>1, <2>1, <2>3, MakingFails DEF LeadsTo
<1>3. CASE at = "creating"
  <2>1. pc \in Making /\ op.kind = "create"
    BY <1>1, <1>3
  <2>2. /\ ~TargetFails /\ Existing = {} /\ op.name = base /\ op.data = opt.data
        /\ LeadsTo(Len(Target) - 1, op.in.num)
    BY <1>3, <2>1 DEF JInv, StoreHolds
  <2>3. /\ Len(Target) - 1 \in 0 .. Len(Target) - 1 /\ (Len(Target) - 1) + 1 = Len(Target)
        /\ base = Target[Len(Target)]
    BY PartsAre
  <2>4. Walk(image, Target)[Len(Target)] = {}
    BY <2>2 DEF Existing, Resolve
  <2> QED BY <1>1, <2>1, <2>2, <2>3, <2>4, MakingFails DEF LeadsTo
<1>4. CASE at = "overwriting"
  <2>1. pc \in Overwriting /\ Existing = {op.in.num} /\ op.data = opt.data
    BY <1>1, <1>4 DEF JInv, StoreHolds
  <2>2. OverwriteRefused
    BY <1>1, <2>1 DEF Step, LookupName, PickGroup, AllocInode, AllocBlock, WriteDesc, WriteBody,
       WriteInode, AddDirent, WriteParent, OverwriteData, OverwriteInode, Return, Overwriting
  <2>3. op.in.raw = NodeAt(image, op.in.num)
    BY <1>1, <2>1 DEF IInv, ArgumentsHold, ReadInode
  <2> QED BY <2>1, <2>2, <2>3 DEF Reason, CannotReplace, OverwriteRefused
<1> QED BY <1>1, <1>2, <1>3, <1>4

\* Every step keeps it.
LEMMA NextFailed ==
    ASSUME NamesFit, JInv, RInv, FailedHolds, [InjectNext]_allVars, JInv' PROVE FailedHolds'
<1> SUFFICES ASSUME Calling', pc' = "closed" PROVE Reason'
  BY DEF FailedHolds
<1>1. at' \in {"overwriting", "making", "creating"}
  BY DEF Calling
<1>2. ~Start /\ ~OpenImage /\ ~OpenFails /\ ~Killed /\ ~CallFailed
  BY <1>1 DEF Start, OpenImage, OpenFails, Killed, CallFailed, Finish
<1>3. ~DryRun /\ ~ResolveFailed /\ ~RefuseExisting /\ ~ReturnOk
  BY <1>1 DEF DryRun, ResolveFailed, RefuseExisting, ReturnOk, Fail, Finish
<1>4. ~StartWalk /\ ~Made /\ ~Written /\ ~SyncImage
  BY <1>1 DEF StartWalk, Made, Written, AfterWrite, SyncImage
<1>5. ~ReplaceExisting /\ ~MakeDir /\ ~Create
  BY DEF ReplaceExisting, MakeDir, Create, CallOverwrite, CallMkdir, CallCreateFile, Call
<1>6. ~Descend
  <2>1. Descend => at' = "walk"
    BY DEF Descend
  <2> QED BY <1>1, <2>1
<1>7. CASE Write
  <2>1. Reason
    BY <1>7, WriteFails
  <2>2. image' = image /\ opt' = opt
    <3>1. SInv /\ Step /\ opt' = opt
      BY <1>7 DEF JInv, Write, injectVars
    <3> QED BY <3>1, StepGoes DEF Making, Overwriting
  <2> QED BY <2>1, <2>2, ReasonStays
<1>8. CASE UNCHANGED allVars
  <2>1. Calling /\ pc = "closed" /\ image' = image /\ opt' = opt
    BY <1>8 DEF allVars, vars, injectVars, Calling
  <2> QED BY <2>1, ReasonStays DEF FailedHolds
<1> QED BY <1>2, <1>3, <1>4, <1>5, <1>6, <1>7, <1>8 DEF InjectNext, Run

\* Where the walk goes it does not fail to resolve: the whole target resolved.
LEMMA PartsResolve ==
    ASSUME Good(image), ~TargetFails, depth \in 0 .. Len(dirParts), depth < Len(dirParts)
    PROVE  ~ResolveFails(image, NextParts)
<1> DEFINE m == depth + 1
<1>1. /\ Target \in Seq(Names) /\ dirParts \in Seq(Names) /\ Len(Target) \in Nat
      /\ Len(dirParts) = Len(Target) - 1 /\ dirParts = SubSeq(Target, 1, Len(dirParts))
  BY PartsAre
<1>2. m \in 0 .. Len(dirParts) /\ Len(dirParts) \in 0 .. Len(Target)
  BY <1>1
<1> HIDE DEF m
<1>3. ASSUME NEW j \in 0 .. m PROVE Walk(image, SubSeq(dirParts, 1, m))[j] = Walk(image, Target)[j]
  <2>1. Walk(image, SubSeq(dirParts, 1, m))[j] = Walk(image, dirParts)[j]
    BY <1>1, <1>2, WalkPrefix
  <2>2. j \in 0 .. Len(dirParts)
    BY <1>1, <1>2
  <2>3. Walk(image, SubSeq(Target, 1, Len(dirParts)))[j] = Walk(image, Target)[j]
    BY <1>1, <1>2, <2>2, WalkPrefix
  <2> QED BY <1>1, <2>1, <2>3
<1>4. Len(SubSeq(dirParts, 1, m)) = m
  BY <1>1, <1>2, WalkPrefix
<1>5. ASSUME NEW j \in 0 .. m - 1 PROVE j \in 0 .. m /\ j \in 0 .. Len(Target) - 1
  BY <1>1, <1>2
<1>6. ~ResolveFails(image, SubSeq(dirParts, 1, m))
  BY <1>3, <1>4, <1>5 DEF ResolveFails, TargetFails
<1> QED BY <1>6 DEF NextParts, m

\* A run that fails has a reason to.
LEMMA FailureHasReason ==
    ASSUME JInv, FailedHolds, [InjectNext]_allVars, outcome = "running", outcome' = "error"
    PROVE  at = "open" \/ Reason
<1>1. outcome' # outcome
  OBVIOUS
<1>2. ~Start /\ ~Killed /\ ~DryRun /\ ~ReturnOk
  BY DEF Start, Killed, DryRun, ReturnOk, Finish
<1>3. /\ ~OpenImage /\ ~ReplaceExisting /\ ~StartWalk /\ ~Descend /\ ~MakeDir /\ ~Create
      /\ ~Made /\ ~Written /\ ~Write /\ ~SyncImage /\ ~UNCHANGED allVars
  BY <1>1 DEF OpenImage, ReplaceExisting, StartWalk, Descend, MakeDir, Create, Made, Written,
              Write, SyncImage, allVars, injectVars
<1>4. CASE OpenFails
  BY <1>4 DEF OpenFails
<1>5. CASE CallFailed
  BY <1>5 DEF CallFailed, FailedHolds
<1>6. CASE RefuseExisting
  BY <1>6 DEF RefuseExisting, MayReplace, Reason, CannotReplace
<1>7. CASE ResolveFailed
  <2>1. CASE at = "resolve"
    BY <1>7, <2>1 DEF ResolveFailed, Reason, TargetFails
  <2>2. CASE at = "walk"
    <3>1. ~TargetFails /\ depth \in 0 .. Len(dirParts) /\ Good(image)
      BY <2>2, SInvGood DEF JInv, WalkHolds, InjectTypeOK
    <3>2. depth < Len(dirParts) /\ ResolveFails(image, NextParts)
      BY <1>7, <2>2 DEF ResolveFailed
    <3> QED BY <3>1, <3>2, PartsResolve
  <2> QED BY <1>7, <2>1, <2>2 DEF ResolveFailed
<1> QED BY <1>2, <1>3, <1>4, <1>5, <1>6, <1>7 DEF InjectNext, Run

\* A run fails only for a reason the image or the request gives: an image that
\* does not open, a path it cannot read, a config it may not or cannot replace,
\* data over one block, no group with room, no room in the directory, or a group
\* an interruption left promising what its bitmaps do not have.
THEOREM FailuresHaveReasons == ASSUME GroupsFit, NamesFit PROVE InjectSpec => FailsForAReason
<1>1. InjectInit => JInv /\ RInv /\ FailedHolds
  BY InitJInv, InitRInv DEF InjectInit, FailedHolds, Calling
<1>2. JInv /\ RInv /\ FailedHolds /\ [InjectNext]_allVars => (JInv /\ RInv /\ FailedHolds)'
  BY InjectCallsWriter, NextJInv, NextRInv, NextFailed
<1>3. JInv /\ RInv /\ FailedHolds /\ [InjectNext]_allVars =>
        [outcome = "running" /\ outcome' = "error" =>
          \/ at = "open"
          \/ TargetFails
          \/ \E n \in Existing : CannotReplace(NodeAt(image, n))
          \/ Existing = {} /\ CannotAdd]_allVars
  BY FailureHasReason DEF Reason
<1> QED BY <1>1, <1>2, <1>3, PTL DEF InjectSpec, FailsForAReason
=============================================================================
