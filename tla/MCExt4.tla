------------------------------ MODULE MCExt4 ------------------------------
(***************************************************************************)
(* Ext4Writer on small images for TLC.                                     *)
(*                                                                         *)
(* Two groups of six inodes and six blocks.  Inodes 1..3 are reserved (2   *)
(* is the root); each group starts with metadata blocks; the root          *)
(* directory is the first block after those of group 0.  Every name is as  *)
(* long as "flex_config", and a directory block of 80 bytes holds two of   *)
(* them besides "." and "..".  The images are what mkfs and the kernel     *)
(* leave: every redundant field is computed from the inodes.               *)
(***************************************************************************)
EXTENDS Ext4Writer

MCNames == {".", "..", "u", "f", "c"}
MCNameLen == [n \in MCNames |-> CASE n = "." -> 1 [] n = ".." -> 2 [] OTHER -> 11]
MCData == {"a", "b", "big"}
MCDataLen == [d \in MCData |-> CASE d = "a" -> 40 [] d = "b" -> 80 [] d = "big" -> 81]
MCMetaBlocks == {FirstDataBlock, FirstDataBlock + 1, FirstDataBlock + BlocksPerGroup}

\* Data block k of group 0: its metadata blocks are 0 and 1, the root's is 2.
B(k) == FirstDataBlock + k

-----------------------------------------------------------------------------
(* Building an image from its inodes tab and the blocks cont they map.     *)

\* An old directory block, freed: allocation must not take it for content.
Leftover == [ents |-> <<[ino |-> 5, name |-> "u", nlen |-> 11, rec |-> 80, ftype |-> "dir"]>>,
             data |-> Zeros, tail |-> NoTail]

EmptyGroup(g, iU, bU) ==
    [freeI |-> 0, freeB |-> 0, dirs |-> 0, unused |-> 0,
     iUninit |-> g \in iU, bUninit |-> g \in bU,
     ibSum |-> NoBitmapSum, bbSum |-> NoBitmapSum, seal |-> "stale"]

\* Inodes and blocks only: what the counters are computed from.
Skeleton(csum, tab, cont, iU, bU) ==
    [csum |-> csum,
     ibm |-> [g \in Group |-> {}], bbm |-> [g \in Group |-> {}],
     gd |-> [g \in Group |-> EmptyGroup(g, iU, bU)],
     sb |-> NoCounters,
     itab |-> [s \in Slots |->
                LET n == InoNum(s[1], s[2]) IN
                IF n \in DOMAIN tab THEN [tab[n] EXCEPT !.seal = csum] ELSE FreeInode],
     blk |-> [b \in BlockNums |-> IF b \in DOMAIN cont THEN cont[b] ELSE Leftover]]

HighestUsed(img, g) == Max({0} \cup {i + 1 : i \in UsedInodeBits(img, g)})

Completed(s) ==
    LET ibm == [g \in Group |-> IF s.gd[g].iUninit THEN {} ELSE UsedInodeBits(s, g)]
        bbm == [g \in Group |-> IF s.gd[g].bUninit THEN {} ELSE UsedBlockBits(s, g)]
        gd  == [g \in Group |-> [s.gd[g] EXCEPT
                    !.freeI = InodesPerGroup - Cardinality(UsedInodeBits(s, g)),
                    !.freeB = BlocksPerGroup - Cardinality(UsedBlockBits(s, g)),
                    !.dirs = Cardinality({i \in InodeIdx : InoNum(g, i) \in DirsOf(s)}),
                    !.unused = InodesPerGroup - HighestUsed(s, g),
                    !.ibSum = [seal |-> s.csum, of |-> ibm[g]],
                    !.bbSum = [seal |-> s.csum, of |-> bbm[g]],
                    !.seal = s.csum]]
        img == [s EXCEPT !.ibm = ibm, !.bbm = bbm, !.gd = gd]
    IN  [img EXCEPT !.sb = [freeI |-> GroupSum(img, "freeI"),
                            freeB |-> GroupSum(img, "freeB"), seal |-> s.csum]]

MkImage(csum, tab, cont, iU, bU) == Completed(Skeleton(csum, tab, cont, iU, bU))

\* A directory inode and its block.
Dir(b, links) == InitInode("dir", links, BlockSize, b)
File(b, data) == InitInode("file", 1, MCDataLen[data], b)

Rec(ino, name, rec, ftype) ==
    [ino |-> ino, name |-> name, nlen |-> MCNameLen[name], rec |-> rec, ftype |-> ftype]

\* Records rs after "." and "..", the last one taking what is left.
DirBlock(csum, self, parent, rs) ==
    LET limit == IF csum \in {"uuid", "explicit"} THEN BlockSize - DirentTail ELSE BlockSize
        ents  == <<Rec(self, Dot, 12, "dir"), Rec(parent, DotDot, 12, "dir")>> \o rs
        spare == limit - TotalRec(ents)
    IN  [ents |-> Front(ents) \o <<[Last(ents) EXCEPT !.rec = @ + spare]>>,
         data |-> Zeros, tail |-> [seal |-> csum, ino |-> self]]

FileBlock(data) == [ents |-> <<>>, data |-> data, tail |-> NoTail]

-----------------------------------------------------------------------------
(* The images.                                                             *)

\* The directory "u" exists, as /unencrypted does on a Flex image; group 1 is
\* as mkfs leaves the groups it did not initialise.
WithU(csum) ==
    MkImage(csum,
        2 :> Dir(B(2), 3) @@ 4 :> Dir(B(3), 2),
        B(2) :> DirBlock(csum, 2, 2, <<Rec(4, "u", 20, "dir")>>) @@
        B(3) :> DirBlock(csum, 4, 2, <<>>),
        {1}, {1})

\* A file "c" in the root and a record left unused by a deletion.
WithFile(csum) ==
    MkImage(csum,
        2 :> Dir(B(2), 2) @@ 5 :> File(B(4), "a"),
        B(2) :> DirBlock(csum, 2, 2, <<Rec(5, "c", 20, "file"), Rec(0, "f", 20, "file")>>) @@
        B(4) :> FileBlock("a"),
        {}, {})

\* A fragmented file leaves group 0 no block: allocation goes to group 1.
Crowded(csum) ==
    MkImage(csum,
        2 :> Dir(B(2), 2) @@
        4 :> [File(B(3), "b") EXCEPT !.single = FALSE, !.owns = {B(3), B(4), B(5)},
                                     !.size = 3 * BlockSize],
        B(2) :> DirBlock(csum, 2, 2, <<Rec(4, "c", 20, "file")>>) @@
        B(3) :> FileBlock("b") @@ B(4) :> FileBlock("b") @@ B(5) :> FileBlock("b"),
        {}, {})

\* The root is a hashed directory of two blocks.
Hashed(csum) ==
    MkImage(csum,
        2 :> [Dir(B(2), 2) EXCEPT !.htree = TRUE, !.size = 2 * BlockSize,
                                  !.owns = {B(2), B(3)}],
        B(2) :> DirBlock(csum, 2, 2, <<>>) @@
        B(3) :> [DirBlock(csum, 2, 2, <<>>) EXCEPT !.ents =
                    <<Rec(0, "f", IF csum = "none" THEN BlockSize
                                  ELSE BlockSize - DirentTail, "file")>>],
        {}, {})

\* The root is full; "u" in it is empty.
Full(csum) ==
    MkImage(csum,
        2 :> Dir(B(2), 3) @@ 4 :> Dir(B(3), 2) @@ 5 :> File(B(4), "a"),
        B(2) :> DirBlock(csum, 2, 2, <<Rec(4, "u", 20, "dir"), Rec(5, "c", 20, "file")>>) @@
        B(3) :> DirBlock(csum, 4, 2, <<>>) @@
        B(4) :> FileBlock("a"),
        {}, {})

\* The root spans two blocks in one extent, with "f" and "c" in the second.
TwoBlocks(csum) ==
    MkImage(csum,
        2 :> [Dir(B(2), 2) EXCEPT !.size = 2 * BlockSize, !.owns = {B(2), B(3)}] @@
        5 :> File(B(4), "a"),
        B(2) :> DirBlock(csum, 2, 2, <<>>) @@
        B(3) :> [ents |-> <<Rec(5, "c", IF csum = "none" THEN BlockSize
                                        ELSE BlockSize - DirentTail, "file")>>,
                 data |-> Zeros, tail |-> [seal |-> csum, ino |-> 2]] @@
        B(4) :> FileBlock("a"),
        {}, {})

\* "c" maps two blocks in one extent, as a file grown past one block does.
LongFile(csum) ==
    MkImage(csum,
        2 :> Dir(B(2), 2) @@
        5 :> [File(B(4), "b") EXCEPT !.owns = {B(4), B(5)}, !.size = BlockSize + 1],
        B(2) :> DirBlock(csum, 2, 2, <<Rec(5, "c", 20, "file")>>) @@
        B(4) :> FileBlock("b") @@ B(5) :> FileBlock("b"),
        {}, {})

-----------------------------------------------------------------------------
(* What each run starts from.                                              *)

UsualImages == {WithU("none"), WithFile("uuid")}
LimitImages == {Crowded("uuid"), Hashed("uuid"), Full("uuid"), TwoBlocks("none")}
SeededImages == {WithFile("explicit")}
LongFileImages == {LongFile("uuid")}

\* The images are real: e2fsck finds nothing to say about them.
ASSUME ImagesAreClean ==
    \A img \in UNION {UsualImages, LimitImages, SeededImages, LongFileImages} :
        FsckClean(img) /\ SuperblockAgrees(img) /\ ChecksumsValid(img)

\* They are what the theorems suppose, but for those with an explicit seed and
\* those with a long file.
ASSUME ImagesAreUsual ==
    /\ NamesFit /\ StartsWithoutHoles /\ CountersFit /\ TotalsAgree
    /\ StartsWithWholeNames /\ LinksFit
    /\ StartsWithoutLongFiles \/ InitialImages = LongFileImages
    /\ StartsSealed \/ InitialImages = SeededImages
=============================================================================
