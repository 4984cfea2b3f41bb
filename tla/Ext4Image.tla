----------------------------- MODULE Ext4Image -----------------------------
(***************************************************************************)
(* The on-disk side of the ext4 writer of ext4.go: what a filesystem image *)
(* holds, how its numbers are laid out, what the reading code sees in it,  *)
(* and what e2fsck calls clean.  Nothing here changes an image: the writer *)
(* is Ext4Writer.                                                          *)
(*                                                                         *)
(* Kept: bitmaps, group descriptors, both copies of the free counters,     *)
(* inodes, directory records with their lengths, block ownership, and      *)
(* which checksums agree with what they cover.  Abstracted: bytes, times,  *)
(* modes other than directory/file, the places of the metadata blocks.     *)
(***************************************************************************)
EXTENDS Integers, FiniteSets, Sequences, SequencesExt, FiniteSetsExt

CONSTANTS
    NumGroups,       \* fs.groups
    InodesPerGroup,  \* s_inodes_per_group
    BlocksPerGroup,  \* s_blocks_per_group
    FirstDataBlock,  \* s_first_data_block
    FirstIno,        \* s_first_ino: inodes below it are reserved
    BlockSize,       \* bytes in a block
    MetaBlocks,      \* blocks of superblocks, descriptors, bitmaps, inode tables
    CounterMod,      \* free counters are unsigned: arithmetic modulo this
    Names,           \* names of directory entries
    NameLen,         \* their lengths in bytes
    Data,            \* file contents
    DataLen          \* their lengths in bytes

RootIno == 2
DirentTail == 12     \* direntTailLen: the checksum tail of a directory block
Dot == "."
DotDot == ".."

Group     == 0 .. NumGroups - 1
InodeIdx  == 0 .. InodesPerGroup - 1
BlockIdx  == 0 .. BlocksPerGroup - 1
InodeNums == 1 .. NumGroups * InodesPerGroup
BlockNums == FirstDataBlock .. FirstDataBlock + NumGroups * BlocksPerGroup - 1

ASSUME GeometryAssumption ==
    /\ NumGroups \in Nat \ {0}
    /\ InodesPerGroup \in Nat \ {0}
    /\ BlocksPerGroup \in Nat \ {0}
    /\ FirstDataBlock \in Nat
    /\ FirstIno \in Nat /\ FirstIno > RootIno /\ FirstIno <= InodesPerGroup
    /\ BlockSize \in Nat /\ BlockSize > DirentTail + 24
    /\ MetaBlocks \subseteq BlockNums
    /\ CounterMod \in Nat \ {0}

ASSUME NamesAssumption ==
    /\ {Dot, DotDot} \subseteq Names
    /\ NameLen \in [Names -> Nat \ {0}]
    /\ DataLen \in [Data -> Nat]

-----------------------------------------------------------------------------
(* Numbers.  Inode and block numbers are absolute; bitmaps are per group.  *)

InoNum(g, i) == g * InodesPerGroup + i + 1
BlkNum(g, i) == FirstDataBlock + g * BlocksPerGroup + i

\* The place of inode num in the inode tables.
InodeSlot(num) == <<(num - 1) \div InodesPerGroup, (num - 1) % InodesPerGroup>>

Slots == Group \X InodeIdx

-----------------------------------------------------------------------------
(* Values an image is made of.                                             *)

\* What a checksum field holds: the algorithm and seed it was made with and
\* what it was made from.  "stale" stands for any value that matches nothing.
CsumKinds == {"none", "crc16", "uuid", "explicit"}
Seals     == CsumKinds \cup {"stale"}

\* The extent of an inode that has one is taken to map its block 0: the code never
\* looks at the logical number in it (firstExtentBlock).
Inode ==
    [kind  : {"free", "dir", "file"},
     htree : BOOLEAN,               \* hashed directory
     single: BOOLEAN,               \* depth-0 extent tree of one extent
     hole  : BOOLEAN,               \* its extents are unwritten: reads as zeros
     blk   : BlockNums \cup {0},    \* its first physical block
     owns  : SUBSET BlockNums,      \* every block the inode maps
     links : Nat,
     size  : Nat,
     seal  : Seals]

FreeInode == [kind |-> "free", htree |-> FALSE, single |-> FALSE,
              hole |-> FALSE, blk |-> 0, owns |-> {}, links |-> 0,
              size |-> 0, seal |-> "stale"]

\* A directory record.  nlen is one byte on disk; ino 0 is an unused record.
Dirent == [ino  : InodeNums \cup {0},
           name : Names,
           nlen : 0 .. 255,
           rec  : Nat,
           ftype: {"dir", "file"}]

Zeros == "zeros"

\* A data block, read as a directory (ents, tail) or as file contents (data).
\* tail is the directory checksum: the seal, and the inode it was made for.
Block == [ents: Seq(Dirent),
          data: Data \cup {Zeros},
          tail: [seal: Seals, ino: InodeNums \cup {0}]]

NoTail == [seal |-> "stale", ino |-> 0]

BitmapSum(Idx) == [seal: Seals, of: SUBSET Idx]

GroupDesc ==
    [freeI  : Nat,                  \* bg_free_inodes_count
     freeB  : Nat,                  \* bg_free_blocks_count
     dirs   : Nat,                  \* bg_used_dirs_count
     unused : Nat,                  \* bg_itable_unused
     iUninit: BOOLEAN,              \* INODE_UNINIT
     bUninit: BOOLEAN,              \* BLOCK_UNINIT
     ibSum  : BitmapSum(InodeIdx),
     bbSum  : BitmapSum(BlockIdx),
     seal   : Seals]                \* bg_checksum

Counters == [freeI: Nat, freeB: Nat, seal: Seals]

Image ==
    [csum: CsumKinds,               \* what the feature flags ask for
     ibm : [Group -> SUBSET InodeIdx],
     bbm : [Group -> SUBSET BlockIdx],
     gd  : [Group -> GroupDesc],
     sb  : Counters,
     itab: [Slots -> Inode],
     blk : [BlockNums -> Block]]

-----------------------------------------------------------------------------
(* What the reading code sees.                                             *)

\* The metadata_csum feature; GDT_CSUM ("crc16") covers descriptors only.
MetadataCsum(img) == img.csum \in {"uuid", "explicit"}

\* Bytes of a directory block that hold records.
Limit(img) == IF MetadataCsum(img) THEN BlockSize - DirentTail ELSE BlockSize

DirentLen(nlen) == ((nlen + 11) \div 4) * 4

NodeAt(img, num) == img.itab[InodeSlot(num)]

\* A handle: the inode number and the copy of the inode the code works on.
Handle == [num: InodeNums, raw: Inode]
ReadInode(img, num) == [num |-> num, raw |-> NodeAt(img, num)]

Named(e, name) == e.ino # 0 /\ e.name = name /\ e.nlen = NameLen[name]

TotalRec(ents) == FoldLeft(LAMBDA acc, e : acc + e.rec, 0, ents)

\* The record lengths chain exactly to the end of the usable part.
WellFormed(img, ents) ==
    /\ Len(ents) > 0
    /\ \A i \in DOMAIN ents : ents[i].rec >= 8
    /\ TotalRec(ents) = Limit(img)

\* lookup refuses what it cannot read and otherwise scans the FIRST block of
\* the directory, whatever its size.
LookupRefusedFlat(dir) == ~dir.raw.single
LookupRefused(dir) == dir.raw.htree \/ ~dir.raw.single

Lookup(img, dir, name) ==
    LET ents == img.blk[dir.raw.blk].ents
        hits == {i \in DOMAIN ents : Named(ents[i], name)}
    IN  IF hits = {} THEN 0 ELSE ents[Min(hits)].ino

\* Resolve walks parts from the root, to one inode or to none.  It fails on a
\* directory it cannot read and on a path that goes on below a file.
Unwalkable(img, n) ==
    NodeAt(img, n).kind # "dir" \/ LookupRefused(ReadInode(img, n))

\* The inode of the name in the directory walked to, if there is one.
Turn(img, at, name) ==
    {Lookup(img, ReadInode(img, n), name) : n \in {m \in at : ~Unwalkable(img, m)}} \ {0}

\* Where the walk is after each of the parts.
Walk(img, parts) ==
    LET cur[k \in 0 .. Len(parts)] ==
            IF k = 0 THEN {RootIno} ELSE Turn(img, cur[k - 1], parts[k])
    IN  cur

Resolve(img, parts) == Walk(img, parts)[Len(parts)]

ResolveFails(img, parts) ==
    \E k \in 0 .. Len(parts) - 1 :
        \E n \in Walk(img, parts)[k] : Unwalkable(img, n)

\* What a reader of the file gets.
FileContent(img, num) ==
    LET n == NodeAt(img, num)
    IN  [data |-> IF n.hole THEN Zeros ELSE img.blk[n.blk].data,
         size |-> n.size]

-----------------------------------------------------------------------------
(* The truth the redundant fields must agree with.                         *)

InUse(img)  == {n \in InodeNums : NodeAt(img, n).kind # "free"}
DirsOf(img) == {n \in InUse(img) : NodeAt(img, n).kind = "dir"}

\* Every block the inodes of ns map.
OwnedBy(img, ns) == UNION {NodeAt(img, n).owns : n \in ns}

Entries(img, dir) ==
    UNION {{e \in ToSet(img.blk[b].ents) : e.ino # 0} : b \in NodeAt(img, dir).owns}
Children(img, dir) == {e \in Entries(img, dir) : e.name \notin {Dot, DotDot}}

UsedInodeBits(img, g) ==
    {i \in InodeIdx : InoNum(g, i) < FirstIno \/ InoNum(g, i) \in InUse(img)}
UsedBlockBits(img, g) ==
    {i \in BlockIdx : BlkNum(g, i) \in MetaBlocks \cup OwnedBy(img, InUse(img))}

\* The inodes a path from the root leads to, through at most k directories.
ReachableIn(img, k) ==
    LET reach[j \in 0 .. k] ==
            IF j = 0 THEN {RootIno}
            ELSE LET near == reach[j - 1]
                 IN  near \cup {e.ino : e \in
                        UNION {Children(img, n) : n \in near \cap DirsOf(img)}}
    IN  reach[k]
Reachable(img) == ReachableIn(img, Cardinality(DirsOf(img)))

-----------------------------------------------------------------------------
(* e2fsck -fn, pass by pass.  It repairs a superblock total that disagrees *)
(* with the groups silently and ignores a wrong descriptor checksum that   *)
(* comes alone, so SuperblockAgrees and ChecksumsValid are stated apart.   *)

\* Pass 1: no block has two owners or is both owned and metadata.
BlocksOwnedOnce(img) ==
    /\ \A m, n \in InUse(img) :
            m # n => NodeAt(img, m).owns \cap NodeAt(img, n).owns = {}
    /\ OwnedBy(img, InUse(img)) \cap MetaBlocks = {}

\* What an extent maps, its inode owns.
ExtentsOwned(img) ==
    \A n \in InUse(img) : NodeAt(img, n).single => NodeAt(img, n).blk \in NodeAt(img, n).owns

\* A directory is as long as its blocks; a file reaches into the last block
\* it has written.
SizesMatch(img) ==
    \A n \in InUse(img) :
        LET i == NodeAt(img, n) IN
        /\ i.kind = "dir" => i.size = Cardinality(i.owns) * BlockSize
        /\ i.kind = "file" /\ ~i.hole => i.size >= (Cardinality(i.owns) - 1) * BlockSize

\* The scan of an inode table stops at bg_itable_unused.
UsedInodesScanned(img) ==
    \A g \in Group, i \in InodeIdx :
        InoNum(g, i) \in InUse(img) =>
            ~img.gd[g].iUninit /\ i < InodesPerGroup - img.gd[g].unused

\* Pass 2: records chain, names are unique, every record names an inode in
\* use and says truly what it is, and "." and ".." lead where they must.
DirectoryBlockSound(img, b, dir) ==
    LET ents == img.blk[b].ents IN
    /\ WellFormed(img, ents)
    /\ \A i \in DOMAIN ents :
            ents[i].ino # 0 =>
                /\ ents[i].rec >= DirentLen(ents[i].nlen)
                /\ ents[i].nlen > 0
                /\ ents[i].ino \in InUse(img)
                /\ NodeAt(img, ents[i].ino).kind = ents[i].ftype

\* A name is in use once in a directory, wherever its records are.
NamesUnique(img, dir) ==
    \A b, c \in NodeAt(img, dir).owns :
        \A i \in DOMAIN img.blk[b].ents, j \in DOMAIN img.blk[c].ents :
            LET e == img.blk[b].ents[i]
                f == img.blk[c].ents[j]
            IN  e.ino # 0 /\ f.ino # 0 /\ e.name = f.name => b = c /\ i = j

DirectorySound(img, dir) ==
    /\ \A b \in NodeAt(img, dir).owns : DirectoryBlockSound(img, b, dir)
    /\ NamesUnique(img, dir)
    /\ \E e \in Entries(img, dir) : e.name = Dot /\ e.ino = dir
    /\ \E e \in Entries(img, dir) :
            /\ e.name = DotDot /\ e.ino \in DirsOf(img)
            /\ \E f \in Entries(img, e.ino) :
                    f.ino = dir /\ (f.name \notin {Dot, DotDot} \/ dir = RootIno)

\* Pass 3: nothing is detached from the tree.
EveryInodeAttached(img) == InUse(img) \subseteq Reachable(img)

\* Pass 4: a file has one link per name, a directory also "." and the ".."
\* of each subdirectory.
NamesOf(img, n) ==
    MapThenSumSet(
        LAMBDA d : Cardinality({e \in Entries(img, d) : e.ino = n}), DirsOf(img))
LinkCountsMatch(img) ==
    \A n \in InUse(img) : NodeAt(img, n).links = NamesOf(img, n)

\* Pass 5: bitmaps and group counters say what the inodes say.
BitmapsMatch(img) ==
    \A g \in Group :
        /\ ~img.gd[g].iUninit => img.ibm[g] = UsedInodeBits(img, g)
        /\ ~img.gd[g].bUninit => img.bbm[g] = UsedBlockBits(img, g)

GroupCountsMatch(img) ==
    \A g \in Group :
        /\ img.gd[g].freeI = InodesPerGroup - Cardinality(UsedInodeBits(img, g))
        /\ img.gd[g].freeB = BlocksPerGroup - Cardinality(UsedBlockBits(img, g))
        /\ img.gd[g].dirs = Cardinality({i \in InodeIdx : InoNum(g, i) \in DirsOf(img)})

FsckClean(img) ==
    /\ BlocksOwnedOnce(img)
    /\ ExtentsOwned(img)
    /\ SizesMatch(img)
    /\ UsedInodesScanned(img)
    /\ \A d \in DirsOf(img) : DirectorySound(img, d)
    /\ EveryInodeAttached(img)
    /\ LinkCountsMatch(img)
    /\ BitmapsMatch(img)
    /\ GroupCountsMatch(img)

GroupSum(img, field) == MapThenSumSet(LAMBDA g : img.gd[g][field], Group)

SuperblockAgrees(img) ==
    /\ img.sb.freeI = GroupSum(img, "freeI")
    /\ img.sb.freeB = GroupSum(img, "freeB")

\* Every checksum the feature flags ask for is there and covers what is
\* stored; the kernel refuses to read a structure whose checksum is wrong.
SealedAs(img, seal) == seal = img.csum

ChecksumsValid(img) ==
    /\ img.csum # "none" =>
            \A g \in Group : SealedAs(img, img.gd[g].seal)
    /\ MetadataCsum(img) =>
        /\ SealedAs(img, img.sb.seal)
        /\ \A g \in Group :
            LET d == img.gd[g] IN
            /\ ~d.iUninit => d.ibSum = [seal |-> img.csum, of |-> img.ibm[g]]
            /\ ~d.bUninit => d.bbSum = [seal |-> img.csum, of |-> img.bbm[g]]
        /\ \A n \in InUse(img) : SealedAs(img, NodeAt(img, n).seal)
        /\ \A n \in DirsOf(img) : \A b \in NodeAt(img, n).owns :
                img.blk[b].tail = [seal |-> img.csum, ino |-> n]
=============================================================================
