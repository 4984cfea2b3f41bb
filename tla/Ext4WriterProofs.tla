-------------------------- MODULE Ext4WriterProofs --------------------------
(***************************************************************************)
(* Proofs about the writer for every geometry, every set of names and      *)
(* contents and every set of initial images that ImagesAssumption admits.  *)
(***************************************************************************)
EXTENDS Ext4Writer, NatFacts, SequenceTheorems, TLAPS

-----------------------------------------------------------------------------
(* Numbers.                                                                *)

\* A number below a * b splits into a quotient below a and a remainder.
LEMMA DivLemma ==
    ASSUME NEW a \in Nat, NEW b \in Nat \ {0}, NEW n \in 0 .. a * b - 1
    PROVE  /\ n \div b \in 0 .. a - 1
           /\ n % b \in 0 .. b - 1
           /\ n = ((n \div b) * b) + (n % b)
<1> DEFINE q == n \div b
           r == n % b
<1>1. q \in Int /\ r \in 0 .. b - 1 /\ n = (b * q) + r
  OBVIOUS
<1>2. q >= 0
  BY <1>1, SMT
<1>3. q < a
  <2> SUFFICES ASSUME q >= a PROVE FALSE
    BY <1>1
  <2>1. b * q >= b * a
    BY <1>1, SMT
  <2> QED BY <2>1, <1>1, SMT
<1> QED BY <1>1, <1>2, <1>3, SMT

\* Numbers in two groups cannot meet.
LEMMA SplitUnique ==
    ASSUME NEW b \in Nat \ {0}, NEW g \in Nat, NEW h \in Nat,
           NEW i \in 0 .. b - 1, NEW j \in 0 .. b - 1, g * b + i = h * b + j
    PROVE  g = h /\ i = j
<1>1. ~(g < h)
  <2> SUFFICES ASSUME g + 1 <= h PROVE FALSE
    OBVIOUS
  <2>1. (g + 1) * b <= h * b
    BY SMT
  <2> QED BY <2>1, SMT
<1>2. ~(h < g)
  <2> SUFFICES ASSUME h + 1 <= g PROVE FALSE
    OBVIOUS
  <2>1. (h + 1) * b <= g * b
    BY SMT
  <2> QED BY <2>1, SMT
<1> QED BY <1>1, <1>2, SMT

\* A group and an index below the size of a group make a number in range.
LEMMA JoinLemma ==
    ASSUME NEW a \in Nat, NEW b \in Nat \ {0}, NEW g \in 0 .. a - 1, NEW i \in 0 .. b - 1
    PROVE  g * b + i \in 0 .. a * b - 1
<1>1. (g + 1) * b <= a * b
  BY SMT
<1>2. g * b >= 0 /\ g * b \in Int /\ a * b \in Int
  BY SMT
<1>3. (g + 1) * b = g * b + b
  BY SMT
<1> QED BY <1>1, <1>2, <1>3, SMT

\* Every inode number has its place in the tables, and no two share one.
LEMMA SlotInTables == ASSUME NEW n \in InodeNums PROVE InodeSlot(n) \in Slots
<1>1. n - 1 \in 0 .. NumGroups * InodesPerGroup - 1
  BY GeometryAssumption, SMT DEF InodeNums
<1> QED BY <1>1, DivLemma, GeometryAssumption DEF InodeSlot, Slots, Group, InodeIdx

\* Different inodes have different places in the tables.
LEMMA SlotInjective ==
    ASSUME NEW m \in InodeNums, NEW n \in InodeNums, InodeSlot(m) = InodeSlot(n)
    PROVE  m = n
<1>1. m - 1 \in 0 .. NumGroups * InodesPerGroup - 1
  BY GeometryAssumption, SMT DEF InodeNums
<1>2. n - 1 \in 0 .. NumGroups * InodesPerGroup - 1
  BY GeometryAssumption, SMT DEF InodeNums
<1>3. (m - 1) \div InodesPerGroup = (n - 1) \div InodesPerGroup
  BY DEF InodeSlot
<1>4. (m - 1) % InodesPerGroup = (n - 1) % InodesPerGroup
  BY DEF InodeSlot
<1>5. m - 1 = n - 1
  BY <1>1, <1>2, <1>3, <1>4, DivLemma, GeometryAssumption
<1> QED BY <1>5, SMT DEF InodeNums

\* The number allocInode returns leads back to the bit it set.
LEMMA InoNumLemma ==
    ASSUME NEW g \in Group, NEW i \in InodeIdx
    PROVE  InoNum(g, i) \in InodeNums /\ InodeSlot(InoNum(g, i)) = <<g, i>>
<1> DEFINE k == g * InodesPerGroup + i
<1>1. k \in 0 .. NumGroups * InodesPerGroup - 1
  BY JoinLemma, GeometryAssumption DEF Group, InodeIdx
<1>2. InoNum(g, i) - 1 = k /\ InoNum(g, i) \in InodeNums
  BY <1>1, GeometryAssumption, SMT DEF InoNum, InodeNums
<1>3. /\ k \div InodesPerGroup \in 0 .. NumGroups - 1
      /\ k % InodesPerGroup \in 0 .. InodesPerGroup - 1
      /\ k = ((k \div InodesPerGroup) * InodesPerGroup) + (k % InodesPerGroup)
  BY <1>1, DivLemma, GeometryAssumption
<1>4. k \div InodesPerGroup = g /\ k % InodesPerGroup = i
  BY <1>3, SplitUnique, GeometryAssumption DEF Group, InodeIdx
<1> QED BY <1>2, <1>4 DEF InodeSlot

\* The number allocBlock returns leads back to the bit it set.
LEMMA BlkNumLemma ==
    ASSUME NEW g \in Group, NEW i \in BlockIdx
    PROVE  BlkNum(g, i) \in BlockNums
<1>1. g * BlocksPerGroup + i \in 0 .. NumGroups * BlocksPerGroup - 1
  BY JoinLemma, GeometryAssumption DEF Group, BlockIdx
<1> QED BY <1>1, GeometryAssumption, SMT DEF BlkNum, BlockNums, Group, BlockIdx

-----------------------------------------------------------------------------
(* Writing one part of an image leaves an image.                           *)

\* A data block written back leaves an image.
LEMMA SetBlk ==
    ASSUME NEW img \in Image, NEW b, NEW x, b \in BlockNums => x \in Block
    PROVE  [img EXCEPT !.blk[b] = x] \in Image
BY DEF Image

\* An inode table entry written back leaves an image.
LEMMA SetItab ==
    ASSUME NEW img \in Image, NEW s, NEW x \in Inode
    PROVE  [img EXCEPT !.itab[s] = x] \in Image
BY DEF Image

\* An inode bitmap written back leaves an image.
LEMMA SetIbm ==
    ASSUME NEW img \in Image, NEW g, NEW x \in SUBSET InodeIdx
    PROVE  [img EXCEPT !.ibm[g] = x] \in Image
BY DEF Image

\* A block bitmap written back leaves an image.
LEMMA SetBbm ==
    ASSUME NEW img \in Image, NEW g, NEW x \in SUBSET BlockIdx
    PROVE  [img EXCEPT !.bbm[g] = x] \in Image
BY DEF Image

\* A group descriptor written back leaves an image.
LEMMA SetGd ==
    ASSUME NEW img \in Image, NEW g, NEW x \in GroupDesc
    PROVE  [img EXCEPT !.gd[g] = x] \in Image
BY DEF Image

\* Superblock counters written back leave an image.
LEMMA SetSb ==
    ASSUME NEW img \in Image, NEW x \in Counters
    PROVE  [img EXCEPT !.sb = x] \in Image
BY DEF Image

-----------------------------------------------------------------------------
(* The helpers keep to their types.                                        *)

\* A counter that wraps stays a natural number.
LEMMA Minus1Nat == ASSUME NEW x \in Int PROVE Minus1(x) \in Nat
BY GeometryAssumption, SMT DEF Minus1

\* Every checksum the writer computes is a checksum.
LEMMA SealTypes ==
    ASSUME NEW img \in Image, NEW seal \in Seals
    PROVE  /\ DescSeal(img, seal) \in Seals
           /\ MetaSeal(img, seal) \in Seals
           /\ SbSeal(img, seal) \in Seals
BY DEF Image, Seals, CsumKinds, DescSeal, MetaSeal, SbSeal

\* allocInode turns a group descriptor into a group descriptor.
LEMMA DescAfterInodeType ==
    ASSUME NEW img \in Image, NEW d \in GroupDesc,
           NEW bits \in SUBSET InodeIdx, NEW isDir \in BOOLEAN
    PROVE  DescAfterInode(img, d, bits, isDir) \in GroupDesc
<1>1. BitmapSeal(img, d.ibSum, bits) \in BitmapSum(InodeIdx)
  BY DEF BitmapSeal, BitmapSum, GroupDesc, Seals, CsumKinds
<1>2. Minus1(d.freeI) \in Nat
  BY Minus1Nat DEF GroupDesc
<1>3. (IF isDir THEN d.dirs + 1 ELSE d.dirs) \in Nat
  BY DEF GroupDesc
<1> QED BY <1>1, <1>2, <1>3 DEF DescAfterInode, GroupDesc

\* allocBlock turns a group descriptor into a group descriptor.
LEMMA DescAfterBlockType ==
    ASSUME NEW img \in Image, NEW d \in GroupDesc, NEW bits \in SUBSET BlockIdx
    PROVE  DescAfterBlock(img, d, bits) \in GroupDesc
<1>1. BitmapSeal(img, d.bbSum, bits) \in BitmapSum(BlockIdx)
  BY DEF BitmapSeal, BitmapSum, GroupDesc, Seals, CsumKinds
<1>2. Minus1(d.freeB) \in Nat
  BY Minus1Nat DEF GroupDesc
<1> QED BY <1>1, <1>2 DEF DescAfterBlock, GroupDesc

\* An inode with its checksum set is still an inode of the same number.
LEMMA SealedType ==
    ASSUME NEW img \in Image, NEW in \in Handle
    PROVE  Sealed(img, in) \in Handle /\ Sealed(img, in).num = in.num
<1>1. MetaSeal(img, in.raw.seal) \in Seals
  BY SealTypes DEF Handle, Inode
<1> QED BY <1>1 DEF Sealed, Handle, Inode

\* writeInode leaves an image.
LEMMA WriteInodeToType ==
    ASSUME NEW img \in Image, NEW in \in Handle
    PROVE  WriteInodeTo(img, in) \in Image
<1>1. Sealed(img, in).raw \in Inode
  BY SealedType DEF Handle
<1> QED BY <1>1, SetItab DEF WriteInodeTo

\* What initInode builds is an inode.
LEMMA InitInodeType ==
    ASSUME NEW kind \in {"dir", "file"}, NEW links \in Nat, NEW size \in Nat,
           NEW b \in BlockNums
    PROVE  InitInode(kind, links, size, b) \in Inode
BY DEF InitInode, Inode, Seals

\* The names of the instance include "." and "..".
LEMMA NamesDots == Dot \in Names /\ DotDot \in Names
BY NamesAssumption

\* The first block Mkdir writes is a block of directory records.
LEMMA NewDirBlockType ==
    ASSUME NEW img \in Image, NEW self \in InodeNums, NEW parent \in InodeNums
    PROVE  NewDirBlock(img, self, parent) \in Block
<1> DEFINE e == [ino |-> self, name |-> Dot, nlen |-> 1, rec |-> 12, ftype |-> "dir"]
           f == [ino |-> parent, name |-> DotDot, nlen |-> 2,
                 rec |-> Limit(img) - 12, ftype |-> "dir"]
<1>1. Limit(img) - 12 \in Nat
  BY GeometryAssumption, SMT DEF Limit, DirentTail
<1>2. e \in Dirent /\ f \in Dirent
  BY <1>1, NamesDots DEF Dirent
<1>3. <<e, f>> \in Seq(Dirent)
  BY <1>2
<1>4. TailSeal(img, NoTail, self) \in [seal: Seals, ino: InodeNums \cup {0}]
  BY DEF TailSeal, NoTail, Seals, CsumKinds
<1> QED BY <1>3, <1>4 DEF NewDirBlock, Block

\* The block CreateFile writes is a block of data.
LEMMA NewFileBlockType ==
    ASSUME NEW data \in Data PROVE NewFileBlock(data) \in Block
<1>1. <<>> \in Seq(Dirent)
  OBVIOUS
<1> QED BY <1>1 DEF NewFileBlock, NoTail, Block, Seals

\* readInode returns a handle.
LEMMA ReadInodeType ==
    ASSUME NEW img \in Image, NEW n \in InodeNums
    PROVE  ReadInode(img, n) \in Handle
BY SlotInTables DEF ReadInode, NodeAt, Handle, Image

\* The length of a record is a natural number.
LEMMA DirentLenNat == ASSUME NEW n \in Nat PROVE DirentLen(n) \in Nat
<1>1. n + 11 \in Nat
  OBVIOUS
<1>2. \A k \in Nat : k \div 4 \in Nat
  BY SMT
<1> QED BY <1>1, <1>2, SMT DEF DirentLen

\* The name length a record stores fits its byte.
LEMMA ByteLemma == ASSUME NEW n \in Nat PROVE n % 256 \in 0 .. 255
BY SMT

\* The part of a record in use has a natural length.
LEMMA UsedLenNat == ASSUME NEW e \in Dirent PROVE UsedLen(e) \in Nat
<1>1. e.nlen \in Nat
  BY DEF Dirent
<1> QED BY <1>1, DirentLenNat DEF UsedLen

\* A record in use uses some of its length.
LEMMA UsedNotZero == ASSUME NEW e \in Dirent, e.ino # 0 PROVE UsedLen(e) # 0
<1>1. e.nlen \in Nat
  BY DEF Dirent
<1>2. \A k \in Nat : ((k + 11) \div 4) * 4 # 0
  BY SMT
<1> QED BY <1>1, <1>2 DEF UsedLen, DirentLen

\* The records addDirent leaves: no refusal means room in the last one.
LEMMA WithDirentType ==
    ASSUME NEW ents \in Seq(Dirent), Len(ents) > 0, NEW ino \in InodeNums,
           NEW name \in Names, NEW ftype \in {"dir", "file"},
           Last(ents).rec - UsedLen(Last(ents)) >= DirentLen(NameLen[name])
    PROVE  WithDirent(ents, ino, name, ftype) \in Seq(Dirent)
<1> DEFINE last == Last(ents)
           used == UsedLen(last)
           new  == NewDirent(ino, name, last.rec - used, ftype)
<1>1. last \in Dirent
  BY DEF Last
<1>2. Front(ents) \in Seq(Dirent)
  BY DEF Front
<1>3. used \in Nat
  BY <1>1, UsedLenNat
<1>4. NameLen[name] \in Nat /\ DirentLen(NameLen[name]) \in Nat
  BY NamesAssumption, DirentLenNat
<1>5. last.rec - used \in Nat
  BY <1>1, <1>3, <1>4 DEF Dirent
<1>6. NameLen[name] % 256 \in 0 .. 255
  BY <1>4, ByteLemma
<1>7. new \in Dirent
  BY <1>5, <1>6 DEF NewDirent, Dirent
<1>8. [last EXCEPT !.rec = used] \in Dirent
  BY <1>1, <1>3 DEF Dirent
<1>9. <<new>> \in Seq(Dirent) /\ <<[last EXCEPT !.rec = used], new>> \in Seq(Dirent)
  BY <1>7, <1>8
<1>10. /\ Front(ents) \o <<new>> \in Seq(Dirent)
       /\ Front(ents) \o <<[last EXCEPT !.rec = used], new>> \in Seq(Dirent)
  BY <1>2, <1>9
<1> QED BY <1>10 DEF WithDirent

-----------------------------------------------------------------------------
(* What the tree refers to, and what each kind of write does to it.        *)

LinksResolve(img) ==
    /\ InodesMarked(img) /\ BlocksMarked(img) /\ BlocksOwnedOnce(img)
    /\ RecordsLead(img) /\ ExtentsOwned(img)

\* RecordsLead, record by record.
Leads(img, e) == e.ino # 0 => e.ino \in InUse(img) /\ NodeAt(img, e.ino).kind = e.ftype
EveryRecordLeads(img) ==
    \A d \in DirsOf(img) : \A b \in NodeAt(img, d).owns :
        \A i \in DOMAIN img.blk[b].ents : Leads(img, img.blk[b].ents[i])

\* The two ways to say that all records of a directory lead somewhere agree.
LEMMA RecordByRecord ==
    ASSUME NEW img PROVE RecordsLead(img) <=> EveryRecordLeads(img)
BY DEF RecordsLead, EveryRecordLeads, Leads, Entries, ToSet

\* The inode found under a number is an inode.
LEMMA NodeType ==
    ASSUME NEW img \in Image, NEW n \in InodeNums PROVE NodeAt(img, n) \in Inode
BY SlotInTables DEF NodeAt, Image

\* Bitmaps that only grow, under the same flags, keep every mark.
LEMMA GrowKeeps ==
    ASSUME NEW img \in Image, NEW new \in Image, LinksResolve(img),
           new.itab = img.itab, new.blk = img.blk,
           \A g \in Group : /\ img.ibm[g] \subseteq new.ibm[g]
                            /\ img.bbm[g] \subseteq new.bbm[g]
                            /\ new.gd[g].iUninit = img.gd[g].iUninit
                            /\ new.gd[g].bUninit = img.gd[g].bUninit
    PROVE  LinksResolve(new)
<1>1. /\ \A n : NodeAt(new, n) = NodeAt(img, n)
      /\ InUse(new) = InUse(img)
      /\ DirsOf(new) = DirsOf(img)
      /\ OwnedBy(new, InUse(new)) = OwnedBy(img, InUse(img))
  BY DEF NodeAt, InUse, DirsOf, OwnedBy
<1>2. InodesMarked(new)
  BY DEF LinksResolve, InodesMarked
<1>3. BlocksMarked(new)
  BY <1>1 DEF LinksResolve, BlocksMarked
<1>4. BlocksOwnedOnce(new) /\ ExtentsOwned(new)
  BY <1>1 DEF LinksResolve, BlocksOwnedOnce, ExtentsOwned
<1>5. RecordsLead(new)
  BY <1>1 DEF LinksResolve, RecordsLead, Entries
<1> QED BY <1>2, <1>3, <1>4, <1>5 DEF LinksResolve

\* Writing a block changes what the records of directories that own it say.
LEMMA BlockWriteKeeps ==
    ASSUME NEW img \in Image, NEW b, NEW x,
           LinksResolve(img),
           \A d \in DirsOf(img) : b \in NodeAt(img, d).owns =>
                \A i \in DOMAIN x.ents : Leads(img, x.ents[i])
    PROVE  LinksResolve([img EXCEPT !.blk[b] = x])
<1> DEFINE new == [img EXCEPT !.blk[b] = x]
<1>1. /\ new.itab = img.itab /\ new.ibm = img.ibm /\ new.bbm = img.bbm
      /\ new.gd = img.gd
      /\ \A c \in BlockNums : new.blk[c] = IF c = b THEN x ELSE img.blk[c]
  BY DEF Image
<1>2. /\ \A n : NodeAt(new, n) = NodeAt(img, n)
      /\ InUse(new) = InUse(img)
      /\ DirsOf(new) = DirsOf(img)
      /\ OwnedBy(new, InUse(new)) = OwnedBy(img, InUse(img))
  BY <1>1 DEF NodeAt, InUse, DirsOf, OwnedBy
<1>3. InodesMarked(new)
  BY <1>1 DEF LinksResolve, InodesMarked
<1>4. BlocksMarked(new)
  BY <1>1, <1>2 DEF LinksResolve, BlocksMarked
<1>5. BlocksOwnedOnce(new) /\ ExtentsOwned(new)
  BY <1>2 DEF LinksResolve, BlocksOwnedOnce, ExtentsOwned
<1>6. EveryRecordLeads(new)
  <2> SUFFICES ASSUME NEW d \in DirsOf(img), NEW c \in NodeAt(img, d).owns,
                      NEW i \in DOMAIN new.blk[c].ents
               PROVE  Leads(new, new.blk[c].ents[i])
    BY <1>2 DEF EveryRecordLeads
  <2>1. c \in BlockNums
    BY NodeType DEF DirsOf, InUse, Inode
  <2>2. Leads(img, new.blk[c].ents[i])
    <3>1. CASE c = b
      BY <3>1, <1>1, <2>1
    <3>2. CASE c # b
      BY <3>2, <1>1, <2>1, RecordByRecord DEF LinksResolve, EveryRecordLeads
    <3> QED BY <3>1, <3>2
  <2> QED BY <2>2, <1>2 DEF Leads
<1> QED BY <1>3, <1>4, <1>5, <1>6, RecordByRecord DEF LinksResolve

-----------------------------------------------------------------------------
\* Different bits of the block bitmaps are different blocks.
LEMMA BlkNumInjective ==
    ASSUME NEW g \in Group, NEW i \in BlockIdx, NEW h \in Group, NEW j \in BlockIdx,
           BlkNum(g, i) = BlkNum(h, j)
    PROVE  g = h /\ i = j
<1> DEFINE p == g * BlocksPerGroup
           q == h * BlocksPerGroup
<1>1. /\ p \in Int /\ q \in Int
      /\ FirstDataBlock \in Int /\ i \in Int /\ j \in Int
  BY GeometryAssumption, SMT DEF Group, BlockIdx
<1>2. FirstDataBlock + p + i = FirstDataBlock + q + j
  BY DEF BlkNum
<1>3. p + i = q + j
  <2> HIDE DEF p, q
  <2> QED BY <1>1, <1>2
<1> QED BY <1>3, SplitUnique, GeometryAssumption DEF Group, BlockIdx

\* An inode written where none was, with a block that was nobody's, joins the
\* tree without disturbing what was there.
LEMMA InodeCreateKeeps ==
    ASSUME NEW img \in Image, LinksResolve(img),
           NEW g \in Group, NEW i \in img.ibm[g], ~img.gd[g].iUninit,
           NEW h \in Group, NEW j \in img.bbm[h],
           NEW b, b = BlkNum(h, j),
           b \notin MetaBlocks \cup OwnedBy(img, InUse(img)),
           NEW n, n = InoNum(g, i), NodeAt(img, n).kind = "free",
           NEW x \in Inode, x.kind \in {"dir", "file"}, x.owns = {b}, x.blk = b,
           NEW new, new = [img EXCEPT !.itab[InodeSlot(n)] = x],
           x.kind = "dir" => \A k \in DOMAIN img.blk[b].ents :
                                Leads(new, img.blk[b].ents[k])
    PROVE  /\ LinksResolve(new)
           /\ \A m \in InodeNums : NodeAt(new, m) = IF m = n THEN x ELSE NodeAt(img, m)
<1>1. i \in InodeIdx /\ j \in BlockIdx
  BY DEF Image
<1>2. n \in InodeNums /\ InodeSlot(n) = <<g, i>>
  BY <1>1, InoNumLemma
<1>3. /\ new.ibm = img.ibm /\ new.bbm = img.bbm /\ new.gd = img.gd /\ new.blk = img.blk
      /\ \A s \in Slots : new.itab[s] = IF s = <<g, i>> THEN x ELSE img.itab[s]
  BY <1>2 DEF Image
<1>4. \A m \in InodeNums : NodeAt(new, m) = IF m = n THEN x ELSE NodeAt(img, m)
  BY <1>2, <1>3, SlotInTables, SlotInjective DEF NodeAt
<1>5. InUse(new) = InUse(img) \cup {n} /\ n \notin InUse(img)
  BY <1>2, <1>4 DEF InUse
<1>6. InUse(img) \subseteq InodeNums
  BY DEF InUse
<1>7. OwnedBy(new, InUse(new)) = OwnedBy(img, InUse(img)) \cup {b}
  BY <1>2, <1>4, <1>5, <1>6 DEF OwnedBy
<1>8. InodesMarked(new)
  BY <1>1, <1>3 DEF LinksResolve, InodesMarked, Slots
<1>9. BlocksMarked(new)
  <2> SUFFICES ASSUME NEW p \in Group, NEW q \in BlockIdx,
                      BlkNum(p, q) \in MetaBlocks \cup OwnedBy(new, InUse(new))
               PROVE  img.gd[p].bUninit \/ q \in img.bbm[p]
    BY <1>3 DEF BlocksMarked
  <2>1. CASE BlkNum(p, q) = b
    BY <2>1, <1>1, BlkNumInjective
  <2>2. CASE BlkNum(p, q) # b
    BY <2>2, <1>7 DEF LinksResolve, BlocksMarked
  <2> QED BY <2>1, <2>2
<1>10. BlocksOwnedOnce(new)
  <2>1. ASSUME NEW m \in InUse(new), NEW k \in InUse(new), m # k
        PROVE  NodeAt(new, m).owns \cap NodeAt(new, k).owns = {}
    <3>1. \A y \in InUse(img) : b \notin NodeAt(img, y).owns
      BY DEF OwnedBy
    <3> QED BY <2>1, <3>1, <1>2, <1>4, <1>5, <1>6 DEF LinksResolve, BlocksOwnedOnce
  <2>2. OwnedBy(new, InUse(new)) \cap MetaBlocks = {}
    BY <1>7 DEF LinksResolve, BlocksOwnedOnce
  <2> QED BY <2>1, <2>2 DEF BlocksOwnedOnce
<1>11. ExtentsOwned(new)
  BY <1>2, <1>4, <1>5, <1>6 DEF LinksResolve, ExtentsOwned
<1>12. EveryRecordLeads(new)
  <2>1. ASSUME NEW e, Leads(img, e) PROVE Leads(new, e)
    BY <2>1, <1>4, <1>5, <1>6 DEF Leads
  <2>2. ASSUME NEW d \in DirsOf(new), NEW c \in NodeAt(new, d).owns,
               NEW k \in DOMAIN new.blk[c].ents
        PROVE  Leads(new, new.blk[c].ents[k])
    <3>1. CASE d = n
      BY <3>1, <2>2, <1>2, <1>3, <1>4 DEF DirsOf
    <3>2. CASE d # n
      <4>1. d \in DirsOf(img) /\ NodeAt(new, d) = NodeAt(img, d)
        BY <3>2, <1>4, <1>5, <1>6 DEF DirsOf
      <4>2. Leads(img, img.blk[c].ents[k])
        BY <4>1, <1>3, <2>2, RecordByRecord DEF LinksResolve, EveryRecordLeads
      <4> QED BY <4>2, <2>1, <1>3
    <3> QED BY <3>1, <3>2
  <2> QED BY <2>2 DEF EveryRecordLeads
<1> QED BY <1>4, <1>8, <1>9, <1>10, <1>11, <1>12, RecordByRecord DEF LinksResolve

\* An inode rewritten with the kind and the blocks it had changes no reference.
LEMMA InodeRewriteKeeps ==
    ASSUME NEW img \in Image, LinksResolve(img),
           NEW n \in InUse(img), NEW x \in Inode,
           x.kind = NodeAt(img, n).kind, x.owns = NodeAt(img, n).owns,
           x.single = NodeAt(img, n).single, x.blk = NodeAt(img, n).blk,
           NEW new, new = [img EXCEPT !.itab[InodeSlot(n)] = x]
    PROVE  LinksResolve(new) /\ InUse(new) = InUse(img) /\ DirsOf(new) = DirsOf(img)
<1>1. n \in InodeNums /\ InodeSlot(n) \in Slots
  BY SlotInTables DEF InUse
<1>2. /\ new.ibm = img.ibm /\ new.bbm = img.bbm /\ new.gd = img.gd /\ new.blk = img.blk
      /\ \A s \in Slots : new.itab[s] = IF s = InodeSlot(n) THEN x ELSE img.itab[s]
  BY <1>1 DEF Image
<1>3. \A m \in InodeNums : NodeAt(new, m) = IF m = n THEN x ELSE NodeAt(img, m)
  BY <1>1, <1>2, SlotInTables, SlotInjective DEF NodeAt
<1>4. \A m \in InodeNums : /\ NodeAt(new, m).kind = NodeAt(img, m).kind
                           /\ NodeAt(new, m).owns = NodeAt(img, m).owns
                           /\ NodeAt(new, m).single = NodeAt(img, m).single
                           /\ NodeAt(new, m).blk = NodeAt(img, m).blk
  BY <1>3
<1>5. InUse(new) = InUse(img) /\ DirsOf(new) = DirsOf(img) /\ InUse(img) \subseteq InodeNums
  BY <1>4 DEF InUse, DirsOf
<1>6. OwnedBy(new, InUse(new)) = OwnedBy(img, InUse(img))
  BY <1>4, <1>5 DEF OwnedBy
<1>7. InodesMarked(new)
  BY <1>2 DEF LinksResolve, InodesMarked, NodeAt, InUse, Slots
<1>8. BlocksMarked(new)
  BY <1>2, <1>6 DEF LinksResolve, BlocksMarked
<1>9. BlocksOwnedOnce(new) /\ ExtentsOwned(new)
  BY <1>4, <1>5, <1>6 DEF LinksResolve, BlocksOwnedOnce, ExtentsOwned
<1>10. RecordsLead(new)
  <2>1. \A d \in DirsOf(img) : Entries(new, d) = Entries(img, d)
    BY <1>2, <1>4, <1>5 DEF Entries, DirsOf
  <2> QED BY <2>1, <1>4, <1>5 DEF LinksResolve, RecordsLead
<1> QED BY <1>5, <1>7, <1>8, <1>9, <1>10 DEF LinksResolve

\* addDirent keeps every record's inode and adds one that leads to the child.
LEMMA WithDirentLeads ==
    ASSUME NEW img \in Image, NEW ents \in Seq(Dirent), Len(ents) > 0,
           \A k \in DOMAIN ents : Leads(img, ents[k]),
           NEW ino \in InUse(img), NEW name, NEW ftype, NodeAt(img, ino).kind = ftype
    PROVE  \A k \in DOMAIN WithDirent(ents, ino, name, ftype) :
                Leads(img, WithDirent(ents, ino, name, ftype)[k])
<1> DEFINE last == Last(ents)
           used == UsedLen(last)
           new  == NewDirent(ino, name, last.rec - used, ftype)
           shrunk == [last EXCEPT !.rec = used]
           n == Len(ents) - 1
<1>1. Leads(img, new)
  BY DEF NewDirent, Leads
<1>2. last \in Dirent /\ Leads(img, last)
  BY DEF Last
<1>3. shrunk.ino = last.ino /\ shrunk.ftype = last.ftype
  BY <1>2 DEF Dirent
<1>4. Leads(img, shrunk)
  BY <1>2, <1>3 DEF Leads
<1>5. /\ Front(ents) \in Seq(Dirent) /\ Len(Front(ents)) = n
      /\ \A k \in 1 .. n : Leads(img, Front(ents)[k])
  <2>1. n \in Nat /\ Len(ents) \in Nat /\ n <= Len(ents)
    OBVIOUS
  <2>2. Front(ents) = SubSeq(ents, 1, n)
    BY DEF Front
  <2>3. Len(SubSeq(ents, 1, n)) = n /\ \A k \in 1 .. n : SubSeq(ents, 1, n)[k] = ents[k]
    <3>1. \A k \in 1 .. n : ents[k] \in Dirent
      BY <2>1
    <3> HIDE DEF n
    <3>2. /\ Len(SubSeq(ents, 1, n)) = IF 1 <= n THEN n - 1 + 1 ELSE 0
          /\ \A k \in 1 .. n - 1 + 1 : SubSeq(ents, 1, n)[k] = ents[1 + k - 1]
      BY <2>1, <3>1, SubSeqProperties
    <3> QED BY <2>1, <3>2
  <2>4. \A k \in 1 .. n : k \in DOMAIN ents
    BY <2>1
  <2>5. Front(ents) \in Seq(Dirent)
    BY DEF Front
  <2> QED BY <2>2, <2>3, <2>4, <2>5
<1> HIDE DEF new, shrunk, n
<1>6. n \in Nat
  BY <1>5
<1>7. \A k \in DOMAIN (Front(ents) \o <<new>>) : Leads(img, (Front(ents) \o <<new>>)[k])
  BY <1>1, <1>5, <1>6
<1>8. \A k \in DOMAIN (Front(ents) \o <<shrunk, new>>) :
            Leads(img, (Front(ents) \o <<shrunk, new>>)[k])
  BY <1>1, <1>4, <1>5, <1>6
<1>9. WithDirent(ents, ino, name, ftype) \in {Front(ents) \o <<new>>, Front(ents) \o <<shrunk, new>>}
  BY DEF WithDirent, new, shrunk
<1> QED BY <1>7, <1>8, <1>9

\* A clean filesystem has all its references resolved.
LEMMA CleanResolves ==
    ASSUME NEW img \in Image, FsckClean(img) PROVE LinksResolve(img)
<1>1. BlocksOwnedOnce(img) /\ ExtentsOwned(img)
  BY DEF FsckClean
<1>2. InodesMarked(img)
  <2> SUFFICES ASSUME NEW g \in Group, NEW i \in InodeIdx, img.itab[<<g, i>>].kind # "free"
               PROVE  ~img.gd[g].iUninit /\ i \in img.ibm[g]
    BY DEF InodesMarked
  <2>1. InoNum(g, i) \in InUse(img)
    BY InoNumLemma DEF InUse, NodeAt
  <2>2. ~img.gd[g].iUninit
    BY <2>1 DEF FsckClean, UsedInodesScanned
  <2>3. i \in UsedInodeBits(img, g)
    BY <2>1 DEF UsedInodeBits
  <2> QED BY <2>2, <2>3 DEF FsckClean, BitmapsMatch
<1>3. BlocksMarked(img)
  BY DEF FsckClean, BitmapsMatch, BlocksMarked, UsedBlockBits
<1>4. EveryRecordLeads(img)
  BY DEF FsckClean, DirectorySound, DirectoryBlockSound, EveryRecordLeads, Leads
<1> QED BY <1>1, <1>2, <1>3, <1>4, RecordByRecord DEF LinksResolve

-----------------------------------------------------------------------------
(* The steps that leave the image alone.                                   *)

\* The empty locals of an operation have their types.
LEMMA NothingTypes ==
    /\ NoHandle \in Handle
    /\ NoOp \in Operations
    /\ NoLoc \in Locals
    /\ NoCounters \in Counters
<1>1. RootIno \in InodeNums
  <2>1. InodesPerGroup <= NumGroups * InodesPerGroup /\ NumGroups * InodesPerGroup \in Int
    BY GeometryAssumption, SMT
  <2> QED BY <2>1, GeometryAssumption DEF RootIno, InodeNums
<1>2. NoHandle \in Handle
  BY <1>1 DEF NoHandle, FreeInode, Handle, Inode, Seals
<1>3. NoOp \in Operations
  BY <1>2, NamesDots DEF NoOp, Operations
<1>4. NoDesc \in GroupDesc
  BY DEF NoDesc, NoBitmapSum, GroupDesc, BitmapSum, Seals
<1>5. 0 \in Group
  BY GeometryAssumption DEF Group
<1>6. NoLoc \in Locals
  BY <1>4, <1>5 DEF NoLoc, Locals
<1>7. NoCounters \in Counters
  BY DEF NoCounters, Counters, Seals
<1> QED BY <1>2, <1>3, <1>6, <1>7

\* The invariant gives that every reference resolves.
LEMMA IInvLinks == IInv => LinksResolve(image)
BY DEF IInv, ReferencesResolve, LinksResolve

\* The results an operation records have their types.
LEMMA HistoryType ==
    ASSUME NEW h \in Histories, NEW k \in Nat, NEW s \in Nat, NEW u \in BOOLEAN,
           NEW img \in Image
    PROVE  [h EXCEPT !.kills = k, !.strands = s, !.unsynced = u, !.before = img] \in Histories
BY DEF Histories

\* The session ends: nothing is in progress and the image is as it was.
LEMMA CloseStep ==
    ASSUME IInv, NEW status \in Statuses, NEW kills \in Nat, NEW strands \in Nat,
           CloseWith(status, kills, strands), UNCHANGED image
    PROVE  IInv'
<1>1. pc' = "closed" /\ image' = image
  BY DEF CloseWith
<1>2. TypeOK'
  <2>1. hist' \in Histories
    <3> DEFINE lost == hist.unsynced \/ Unflushed(image, sb)
    <3>1. lost \in BOOLEAN
      OBVIOUS
    <3>2. hist' = [hist EXCEPT !.kills = hist.kills + kills,
                               !.strands = hist.strands + strands,
                               !.unsynced = lost, !.before = image]
      BY DEF CloseWith
    <3> HIDE DEF lost
    <3>3. /\ hist \in Histories /\ image \in Image
          /\ hist.kills + kills \in Nat /\ hist.strands + strands \in Nat
      BY DEF IInv, TypeOK, Histories
    <3> QED BY <3>1, <3>2, <3>3, HistoryType
  <2>2. ret' \in Results
    BY NothingTypes DEF CloseWith, Results
  <2> QED BY <1>1, <2>1, <2>2, NothingTypes DEF IInv, TypeOK, CloseWith, PCs
<1>3. ReferencesResolve' /\ ExtentsOwned(image)'
  BY <1>1 DEF IInv, ReferencesResolve
<1>4. ArgumentsHold' /\ GroupHolds' /\ InodeHolds' /\ BlockHolds'
  BY <1>1 DEF ArgumentsHold, GroupHolds, InodeHolds, BlockHolds, Making, Overwriting
<1> QED BY <1>2, <1>3, <1>4 DEF IInv

\* Returning an error, whatever was written before it, keeps the invariant.
LEMMA RefuseStep ==
    ASSUME IInv, NEW status \in Statuses, Refuse(status) PROVE IInv'
<1>1. (IF image = hist.before THEN 0 ELSE 1) \in Nat
  OBVIOUS
<1> QED BY <1>1, CloseStep DEF Refuse

\* OpenFS keeps the invariant: it only reads.
LEMMA OpenFSStep == ASSUME IInv, OpenFS PROVE IInv'
<1>1. pc' = "idle" /\ image' = image
  BY DEF OpenFS
<1>2. TypeOK'
  BY NothingTypes DEF IInv, TypeOK, OpenFS, PCs, Results, Statuses, Image
<1>3. ReferencesResolve' /\ ExtentsOwned(image)'
  BY <1>1 DEF IInv, ReferencesResolve
<1>4. ArgumentsHold' /\ GroupHolds' /\ InodeHolds' /\ BlockHolds'
  BY <1>1 DEF ArgumentsHold, GroupHolds, InodeHolds, BlockHolds, Making, Overwriting
<1> QED BY <1>2, <1>3, <1>4 DEF IInv

\* Sync keeps the invariant: it leaves the image alone.
LEMMA SyncStep == ASSUME IInv, Sync PROVE IInv'
<1> DEFINE s == [sb EXCEPT !.seal = SbSeal(image, @)]
<1>1. pc' = "idle" /\ image' = [image EXCEPT !.sb = s] /\ sb' = s
  BY DEF Sync
<1>2. image \in Image /\ sb \in Counters /\ hist \in Histories
  BY DEF IInv, TypeOK
<1>3. s \in Counters
  BY <1>2, SealTypes DEF Counters
<1>4. image' \in Image
  BY <1>1, <1>2, <1>3, SetSb
<1>5. TypeOK'
  BY <1>1, <1>3, <1>4, NothingTypes
  DEF IInv, TypeOK, Sync, PCs, Results, Statuses, Histories
<1>6. /\ image'.itab = image.itab /\ image'.blk = image.blk
      /\ image'.ibm = image.ibm /\ image'.bbm = image.bbm /\ image'.gd = image.gd
  BY <1>1, <1>2 DEF Image
<1>7. LinksResolve(image')
  BY <1>2, <1>4, <1>6, IInvLinks, GrowKeeps
<1>8. ArgumentsHold' /\ GroupHolds' /\ InodeHolds' /\ BlockHolds'
  BY <1>1 DEF ArgumentsHold, GroupHolds, InodeHolds, BlockHolds, Making, Overwriting
<1> QED BY <1>5, <1>7, <1>8 DEF IInv, ReferencesResolve, LinksResolve

\* The start of Mkdir, CreateFile or Overwrite keeps the invariant.
LEMMA CallStep ==
    ASSUME IInv, NEW n \in InUse(image), NEW kind \in OpKinds, NEW name \in Names,
           NEW data \in Data \cup {Zeros}, NEW first \in {"lookup", "odata"},
           Call(kind, ReadInode(image, n), name, data, first),
           first = "lookup" => /\ n \in DirsOf(image)
                               /\ kind = "mkdir" \/ (kind = "create" /\ data \in Data),
           first = "odata" => data \in Data
    PROVE  IInv'
<1> DEFINE in == ReadInode(image, n)
<1>1. /\ pc' = first /\ image' = image
      /\ op' = [kind |-> kind, in |-> in, name |-> name, data |-> data]
  BY DEF Call
<1>2. in \in Handle
  BY ReadInodeType DEF IInv, TypeOK, InUse
<1>3. TypeOK'
  BY <1>1, <1>2, NothingTypes
  DEF IInv, TypeOK, Call, PCs, Operations, Results, Statuses, Histories
<1>4. ReferencesResolve' /\ ExtentsOwned(image)'
  BY <1>1 DEF IInv, ReferencesResolve
<1>5. ArgumentsHold'
  <2>1. in.num = n /\ in.raw = NodeAt(image, n)
    BY DEF ReadInode
  <2>2. in.raw.kind # "free" /\ (first = "lookup" => in.raw.kind = "dir")
    BY <2>1 DEF InUse, DirsOf
  <2>3. op'.in = in /\ op'.kind = kind /\ op'.data = data
    BY <1>1
  <2>4. op'.in = ReadInode(image', op'.in.num)
    BY <1>1, <2>1, <2>3
  <2> QED BY <1>1, <2>2, <2>3, <2>4 DEF ArgumentsHold, Making, Overwriting
<1>6. GroupHolds' /\ InodeHolds' /\ BlockHolds'
  BY <1>1 DEF GroupHolds, InodeHolds, BlockHolds
<1> QED BY <1>3, <1>4, <1>5, <1>6 DEF IInv

\* The check that the name is free keeps the invariant.
LEMMA LookupNameStep == ASSUME IInv, LookupName PROVE IInv'
<1>1. CASE NotLookedUp /\ Refuse("refused")
  BY <1>1, RefuseStep DEF Statuses
<1>2. CASE Lookup(image, op.in, op.name) # 0 /\ Refuse("exists")
  BY <1>2, RefuseStep DEF Statuses
<1>3. CASE /\ ~NotLookedUp /\ pc' = "pick"
           /\ UNCHANGED <<image, sb, op, loc, ret, hist>>
  <2>1. TypeOK'
    BY <1>3 DEF IInv, TypeOK, PCs
  <2>2. ReferencesResolve' /\ ExtentsOwned(image)'
    BY <1>3 DEF IInv, ReferencesResolve
  <2>3. pc \in Making /\ op.in.raw.single
    BY <1>3 DEF LookupName, NotLookedUp, LookupRefused, Making
  <2>4. ArgumentsHold'
    BY <1>3, <2>3 DEF IInv, ArgumentsHold, Making, Overwriting
  <2>5. GroupHolds' /\ InodeHolds' /\ BlockHolds'
    BY <1>3 DEF GroupHolds, InodeHolds, BlockHolds
  <2> QED BY <2>1, <2>2, <2>4, <2>5 DEF IInv
<1> QED BY <1>1, <1>2, <1>3 DEF LookupName

\* pickGroup keeps the invariant: it reads the descriptors only.
LEMMA PickGroupStep == ASSUME IInv, PickGroup PROVE IInv'
<1>1. CASE Refuse("refused")
  BY <1>1, RefuseStep DEF Statuses
<1>2. ASSUME NEW g \in Roomy, loc' = [loc EXCEPT !.g = g, !.d = image.gd[g]],
             pc' = "ialloc", UNCHANGED <<image, sb, op, ret, hist>>
      PROVE  IInv'
  <2>1. g \in Group /\ image.gd[g] \in GroupDesc
    BY DEF IInv, TypeOK, Image, Roomy
  <2>2. loc' \in Locals /\ loc'.g = g /\ loc'.d = image.gd[g]
    BY <1>2, <2>1 DEF IInv, TypeOK, Locals
  <2>3. TypeOK'
    BY <1>2, <2>2 DEF IInv, TypeOK, PCs
  <2>4. ReferencesResolve' /\ ExtentsOwned(image)'
    BY <1>2 DEF IInv, ReferencesResolve
  <2>5. ArgumentsHold'
    BY <1>2 DEF IInv, PickGroup, ArgumentsHold, Making, Overwriting
  <2>6. GroupHolds'
    BY <1>2, <2>2 DEF GroupHolds, Roomy, HasRoom
  <2>7. InodeHolds' /\ BlockHolds'
    BY <1>2 DEF InodeHolds, BlockHolds
  <2> QED BY <2>3, <2>4, <2>5, <2>6, <2>7 DEF IInv
<1> QED BY <1>1, <1>2 DEF PickGroup

-----------------------------------------------------------------------------
(* The allocators and the descriptor: bitmaps grow, nothing else changes.  *)

\* Setting a free inode bit keeps the invariant: marks only grow.
LEMMA AllocInodeStep == ASSUME IInv, AllocInode PROVE IInv'
<1>1. CASE Refuse("refused")
  BY <1>1, RefuseStep DEF Statuses
<1>2. ASSUME NEW i \in FreeInodeBits(loc.g),
             image' = [image EXCEPT !.ibm[loc.g] = image.ibm[loc.g] \cup {i}],
             loc' = [loc EXCEPT
                    !.ino = InoReturned(loc.g, i),
                    !.d = DescAfterInode(image, @, image.ibm[loc.g] \cup {i},
                                         op.kind = "mkdir")],
             sb' = SbAfterInode(sb), pc' = "balloc", UNCHANGED <<op, ret, hist>>
      PROVE  IInv'
  <2> DEFINE g == loc.g
             bits == image.ibm[g] \cup {i}
             d == DescAfterInode(image, loc.d, bits, op.kind = "mkdir")
  <2>1. /\ image \in Image /\ g \in Group /\ loc.d \in GroupDesc /\ i \in InodeIdx
        /\ i \notin image.ibm[g] /\ loc \in Locals /\ sb \in Counters /\ pc = "ialloc"
    BY DEF IInv, TypeOK, Locals, FreeInodeBits, AllocInode
  <2>2. bits \in SUBSET InodeIdx
    BY <2>1 DEF Image
  <2>3. image' \in Image
    BY <1>2, <2>1, <2>2, SetIbm
  <2>4. d \in GroupDesc
    <3>1. (op.kind = "mkdir") \in BOOLEAN
      OBVIOUS
    <3> QED BY <3>1, <2>1, <2>2, DescAfterInodeType
  <2>5. InoNum(g, i) \in InodeNums /\ InodeSlot(InoNum(g, i)) = <<g, i>>
    BY <2>1, InoNumLemma
  <2> HIDE DEF d
  <2>6. /\ loc' \in Locals /\ loc'.g = g /\ loc'.d = d /\ loc'.ino = InoNum(g, i)
    BY <1>2, <2>1, <2>4, <2>5 DEF Locals, InoReturned, d
  <2>7. sb' \in Counters
    BY <1>2, <2>1, Minus1Nat DEF SbAfterInode, Counters
  <2>8. TypeOK'
    BY <1>2, <2>3, <2>6, <2>7 DEF IInv, TypeOK, PCs
  <2>9. /\ image'.itab = image.itab /\ image'.blk = image.blk
        /\ image'.gd = image.gd /\ image'.bbm = image.bbm
        /\ \A h \in Group : image'.ibm[h] = IF h = g THEN bits ELSE image.ibm[h]
    BY <1>2, <2>1 DEF Image
  <2>10. LinksResolve(image')
    BY <2>1, <2>3, <2>9, IInvLinks, GrowKeeps
  <2>11. ArgumentsHold'
    BY <1>2, <2>1, <2>9 DEF IInv, ArgumentsHold, Making, Overwriting, ReadInode, NodeAt
  <2>12. GroupHolds'
    <3>1. ~d.iUninit /\ d.bUninit = loc.d.bUninit
      BY <2>1 DEF d, DescAfterInode, GroupDesc
    <3> QED BY <1>2, <2>1, <2>6, <2>9, <3>1 DEF IInv, GroupHolds
  <2>13. InodeHolds'
    <3>1. i \in image'.ibm[g] /\ loc'.ino = InoNum(g, i)
      BY <2>1, <2>6, <2>9
    <3>2. image.itab[<<g, i>>].kind = "free"
      BY <2>1 DEF IInv, ReferencesResolve, InodesMarked
    <3>3. NodeAt(image', loc'.ino).kind = "free"
      BY <2>5, <2>6, <2>9, <3>2 DEF NodeAt
    <3> QED BY <1>2, <2>6, <3>1, <3>3 DEF InodeHolds
  <2>14. BlockHolds'
    BY <1>2 DEF BlockHolds
  <2> QED BY <2>8, <2>10, <2>11, <2>12, <2>13, <2>14
      DEF IInv, ReferencesResolve, LinksResolve
<1> QED BY <1>1, <1>2 DEF AllocInode

\* Setting a free block bit keeps the invariant, and no inode holds that block.
LEMMA AllocBlockStep == ASSUME IInv, AllocBlock PROVE IInv'
<1>1. CASE Refuse("refused")
  BY <1>1, RefuseStep DEF Statuses
<1>2. ASSUME NEW i \in FreeBlockBits(loc.g),
             image' = [image EXCEPT !.bbm[loc.g] = image.bbm[loc.g] \cup {i}],
             loc' = [loc EXCEPT
                    !.blk = BlkReturned(loc.g, i),
                    !.d = DescAfterBlock(image, @, image.bbm[loc.g] \cup {i})],
             sb' = SbAfterBlock(sb), pc' = "desc", UNCHANGED <<op, ret, hist>>
      PROVE  IInv'
  <2> DEFINE g == loc.g
             bits == image.bbm[g] \cup {i}
             d == DescAfterBlock(image, loc.d, bits)
             b == BlkNum(g, i)
  <2>1. /\ image \in Image /\ g \in Group /\ loc.d \in GroupDesc /\ i \in BlockIdx
        /\ i \notin image.bbm[g] /\ loc \in Locals /\ sb \in Counters /\ pc = "balloc"
    BY DEF IInv, TypeOK, Locals, FreeBlockBits, AllocBlock
  <2>2. bits \in SUBSET BlockIdx
    BY <2>1 DEF Image
  <2>3. image' \in Image
    BY <1>2, <2>1, <2>2, SetBbm
  <2>4. d \in GroupDesc
    BY <2>1, <2>2, DescAfterBlockType
  <2>5. b \in BlockNums
    BY <2>1, BlkNumLemma
  <2> HIDE DEF d, b
  <2>6. /\ loc' \in Locals /\ loc'.g = g /\ loc'.d = d /\ loc'.blk = b
        /\ loc'.ino = loc.ino
    BY <1>2, <2>1, <2>4, <2>5 DEF Locals, BlkReturned, d, b
  <2>7. sb' \in Counters
    BY <1>2, <2>1, Minus1Nat DEF SbAfterBlock, Counters
  <2>8. TypeOK'
    BY <1>2, <2>3, <2>6, <2>7 DEF IInv, TypeOK, PCs
  <2>9. /\ image'.itab = image.itab /\ image'.blk = image.blk
        /\ image'.gd = image.gd /\ image'.ibm = image.ibm
        /\ \A h \in Group : image'.bbm[h] = IF h = g THEN bits ELSE image.bbm[h]
    BY <1>2, <2>1 DEF Image
  <2>10. LinksResolve(image')
    BY <2>1, <2>3, <2>9, IInvLinks, GrowKeeps
  <2>11. ArgumentsHold'
    BY <1>2, <2>1, <2>9 DEF IInv, ArgumentsHold, Making, Overwriting, ReadInode, NodeAt
  <2>12. GroupHolds'
    <3>1. ~d.bUninit /\ d.iUninit = loc.d.iUninit
      BY <2>1 DEF d, DescAfterBlock, GroupDesc
    <3> QED BY <1>2, <2>1, <2>6, <2>9, <3>1 DEF IInv, GroupHolds
  <2>13. InodeHolds'
    BY <1>2, <2>1, <2>6, <2>9 DEF IInv, InodeHolds, NodeAt
  <2>14. BlockHolds'
    <3>1. i \in image'.bbm[g] /\ loc'.blk = BlkNum(g, i)
      BY <2>1, <2>6, <2>9 DEF b
    <3>2. ~image.gd[g].bUninit
      BY <2>1 DEF IInv, GroupHolds
    <3>3. BlkNum(g, i) \notin MetaBlocks \cup OwnedBy(image, InUse(image))
      BY <2>1, <3>2 DEF IInv, ReferencesResolve, BlocksMarked
    <3>4. OwnedBy(image', InUse(image')) = OwnedBy(image, InUse(image))
      BY <2>9 DEF OwnedBy, InUse, NodeAt
    <3> QED BY <1>2, <2>6, <3>1, <3>3, <3>4 DEF BlockHolds
  <2> QED BY <2>8, <2>10, <2>11, <2>12, <2>13, <2>14
      DEF IInv, ReferencesResolve, LinksResolve
<1> QED BY <1>1, <1>2 DEF AllocBlock

\* Writing a descriptor and the superblock counters keeps the invariant.
LEMMA WriteDescStep == ASSUME IInv, WriteDesc PROVE IInv'
<1> DEFINE g == loc.g
           d == [loc.d EXCEPT !.seal = DescSeal(image, @)]
<1>1. /\ image \in Image /\ g \in Group /\ loc.d \in GroupDesc /\ pc = "desc"
      /\ image' = [image EXCEPT !.gd[g] = d] /\ pc' = "body"
      /\ UNCHANGED <<sb, op, loc, ret, hist>>
  BY DEF IInv, TypeOK, Locals, WriteDesc
<1>2. d \in GroupDesc /\ d.iUninit = loc.d.iUninit /\ d.bUninit = loc.d.bUninit
  BY <1>1, SealTypes DEF GroupDesc
<1> HIDE DEF d
<1>3. image' \in Image
  BY <1>1, <1>2, SetGd
<1>4. TypeOK'
  BY <1>1, <1>3 DEF IInv, TypeOK, PCs
<1>5. /\ image'.itab = image.itab /\ image'.blk = image.blk
      /\ image'.ibm = image.ibm /\ image'.bbm = image.bbm
      /\ \A h \in Group : image'.gd[h] = IF h = g THEN d ELSE image.gd[h]
  BY <1>1 DEF Image
<1>6. /\ ~image.gd[g].iUninit /\ ~image.gd[g].bUninit
      /\ ~loc.d.iUninit /\ ~loc.d.bUninit
  BY <1>1 DEF IInv, GroupHolds
<1>7. \A h \in Group : /\ image'.gd[h].iUninit = image.gd[h].iUninit
                       /\ image'.gd[h].bUninit = image.gd[h].bUninit
  <2>1. image.gd[g] \in GroupDesc
    BY <1>1 DEF Image
  <2>2. d.iUninit = image.gd[g].iUninit /\ d.bUninit = image.gd[g].bUninit
    BY <1>1, <1>2, <1>6, <2>1 DEF GroupDesc
  <2> QED BY <1>5, <2>2
<1>8. LinksResolve(image')
  <2>1. \A h \in Group : /\ image.ibm[h] \subseteq image'.ibm[h]
                         /\ image.bbm[h] \subseteq image'.bbm[h]
                         /\ image'.gd[h].iUninit = image.gd[h].iUninit
                         /\ image'.gd[h].bUninit = image.gd[h].bUninit
    BY <1>5, <1>7
  <2> QED BY <2>1, <1>1, <1>3, <1>5, IInvLinks, GrowKeeps
<1>9. ArgumentsHold'
  BY <1>1, <1>5 DEF IInv, ArgumentsHold, Making, Overwriting, ReadInode, NodeAt
<1>10. GroupHolds'
  BY <1>1, <1>6, <1>7 DEF GroupHolds
<1>11. InodeHolds'
  BY <1>1, <1>5 DEF IInv, InodeHolds, NodeAt
<1>12. BlockHolds'
  <2>1. OwnedBy(image', InUse(image')) = OwnedBy(image, InUse(image))
    BY <1>5 DEF OwnedBy, InUse, NodeAt
  <2> QED BY <1>1, <1>5, <2>1 DEF IInv, BlockHolds
<1> QED BY <1>4, <1>8, <1>9, <1>10, <1>11, <1>12 DEF IInv, ReferencesResolve, LinksResolve

-----------------------------------------------------------------------------
(* The contents: the new block, its inode, its record, the parent's link.  *)

\* What the code keeps of an inode it is making.
LEMMA NewInodeType ==
    ASSUME TypeOK, loc.ino \in InodeNums, loc.blk \in BlockNums,
           op.kind = "mkdir" \/ (op.kind = "create" /\ op.data \in Data)
    PROVE  /\ NewInode \in Handle /\ NewInode.num = loc.ino
           /\ NewInode.raw.kind = IF op.kind = "mkdir" THEN "dir" ELSE "file"
           /\ NewInode.raw.owns = {loc.blk} /\ NewInode.raw.blk = loc.blk
<1>1. BlockSize \in Nat
  BY GeometryAssumption
<1>2. op.kind = "create" => DataLen[op.data] \in Nat
  BY NamesAssumption
<1>3. CASE op.kind = "mkdir"
  <2>1. InitInode("dir", 2, BlockSize, loc.blk) \in Inode
    BY <1>1, InitInodeType
  <2> QED BY <1>3, <2>1 DEF NewInode, Handle, InitInode
<1>4. CASE op.kind = "create"
  <2>1. InitInode("file", 1, DataLen[op.data], loc.blk) \in Inode
    BY <1>2, <1>4, InitInodeType
  <2> QED BY <1>4, <2>1 DEF NewInode, Handle, InitInode
<1> QED BY <1>3, <1>4

\* What an operation that makes something has when it needs it.
LEMMA MakingHolds ==
    ASSUME IInv
    PROVE  /\ pc \in Making =>
                /\ op.in.num \in DirsOf(image) /\ op.in.raw = NodeAt(image, op.in.num)
                /\ op.kind = "mkdir" \/ (op.kind = "create" /\ op.data \in Data)
           /\ pc \in {"balloc", "desc", "body", "inode", "dirent", "parent"} =>
                loc.ino \in InodeNums
           /\ pc \in {"desc", "body", "inode", "dirent", "parent"} =>
                loc.blk \in BlockNums
<1>1. op.in.num \in InodeNums /\ loc.g \in Group /\ image \in Image
  BY DEF IInv, TypeOK, Operations, Handle, Locals
<1>2. ASSUME pc \in Making
      PROVE  /\ op.in.num \in DirsOf(image) /\ op.in.raw = NodeAt(image, op.in.num)
             /\ op.kind = "mkdir" \/ (op.kind = "create" /\ op.data \in Data)
  <2>1. op.in = ReadInode(image, op.in.num) /\ op.in.raw.kind = "dir"
    BY <1>2 DEF IInv, ArgumentsHold
  <2>2. op.in.raw = NodeAt(image, op.in.num)
    BY <2>1 DEF ReadInode
  <2> QED BY <1>1, <1>2, <2>1, <2>2 DEF IInv, ArgumentsHold, DirsOf, InUse
<1>3. image.ibm[loc.g] \subseteq InodeIdx /\ image.bbm[loc.g] \subseteq BlockIdx
  BY <1>1 DEF Image
<1>4. pc \in {"balloc", "desc", "body", "inode", "dirent", "parent"} => loc.ino \in InodeNums
  BY <1>1, <1>3, InoNumLemma DEF IInv, InodeHolds, InUse
<1>5. pc \in {"desc", "body", "inode", "dirent", "parent"} => loc.blk \in BlockNums
  BY <1>1, <1>3, BlkNumLemma DEF IInv, BlockHolds
<1> QED BY <1>2, <1>4, <1>5

\* Writing the new block keeps the invariant: no inode refers to it yet.
LEMMA WriteBodyStep == ASSUME IInv, WriteBody PROVE IInv'
<1> DEFINE x == IF op.kind = "mkdir" THEN NewDirBlock(image, loc.ino, op.in.num)
                ELSE NewFileBlock(op.data)
           b == loc.blk
<1>1. /\ image \in Image /\ pc = "body" /\ pc' = "inode"
      /\ image' = [image EXCEPT !.blk[b] = x]
      /\ UNCHANGED <<sb, op, loc, ret, hist>>
  BY DEF IInv, TypeOK, WriteBody
<1>2. /\ loc.ino \in InodeNums /\ b \in BlockNums /\ op.in.num \in InodeNums
      /\ op.kind = "mkdir" \/ (op.kind = "create" /\ op.data \in Data)
  BY <1>1, MakingHolds DEF Making, DirsOf, InUse
<1>3. x \in Block
  BY <1>1, <1>2, NewDirBlockType, NewFileBlockType
<1>4. image' \in Image
  BY <1>1, <1>3, SetBlk
<1>5. TypeOK'
  BY <1>1, <1>4 DEF IInv, TypeOK, PCs
<1>6. b \notin MetaBlocks \cup OwnedBy(image, InUse(image))
  BY <1>1 DEF IInv, BlockHolds
<1>7. LinksResolve(image')
  <2>1. \A n \in DirsOf(image) : b \notin NodeAt(image, n).owns
    BY <1>6 DEF OwnedBy, DirsOf
  <2> HIDE DEF x
  <2> QED BY <1>1, <2>1, IInvLinks, BlockWriteKeeps
<1>8. /\ image'.itab = image.itab /\ image'.gd = image.gd /\ image'.csum = image.csum
      /\ image'.ibm = image.ibm /\ image'.bbm = image.bbm /\ image'.blk[b] = x
  BY <1>1, <1>2 DEF Image
<1>9. ArgumentsHold'
  BY <1>1, <1>8 DEF IInv, ArgumentsHold, Making, Overwriting, ReadInode, NodeAt
<1>10. GroupHolds'
  BY <1>1, <1>8 DEF IInv, GroupHolds
<1>11. InodeHolds'
  BY <1>1, <1>8 DEF IInv, InodeHolds, NodeAt
<1>12. BlockHolds'
  <2>1. OwnedBy(image', InUse(image')) = OwnedBy(image, InUse(image))
    BY <1>8 DEF OwnedBy, InUse, NodeAt
  <2>2. op.kind = "mkdir" =>
            image'.blk[b].ents = NewDirBlock(image', loc.ino, op.in.num).ents
    BY <1>8 DEF NewDirBlock, Limit, MetadataCsum
  <2>3. \E i \in image'.bbm[loc.g] : b = BlkNum(loc.g, i)
    BY <1>1, <1>8 DEF IInv, BlockHolds
  <2> QED BY <1>1, <1>6, <2>1, <2>2, <2>3 DEF BlockHolds
<1> QED BY <1>5, <1>7, <1>9, <1>10, <1>11, <1>12 DEF IInv, ReferencesResolve, LinksResolve

\* Writing the new inode keeps the invariant: number and block are its own.
LEMMA WriteInodeStep == ASSUME IInv, WriteInode PROVE IInv'
<1> DEFINE n == loc.ino
           b == loc.blk
           x == Sealed(image, NewInode).raw
<1>1. /\ image \in Image /\ pc = "inode" /\ pc' = "dirent" /\ TypeOK
      /\ image' = WriteInodeTo(image, NewInode)
      /\ UNCHANGED <<sb, op, loc, ret, hist>>
  BY DEF IInv, TypeOK, WriteInode
<1>2. /\ n \in InodeNums /\ b \in BlockNums
      /\ op.in.num \in DirsOf(image) /\ op.in.raw = NodeAt(image, op.in.num)
      /\ op.kind = "mkdir" \/ (op.kind = "create" /\ op.data \in Data)
  BY <1>1, MakingHolds DEF Making
<1>3. /\ NewInode \in Handle /\ NewInode.num = n
      /\ NewInode.raw.kind = IF op.kind = "mkdir" THEN "dir" ELSE "file"
      /\ NewInode.raw.owns = {b} /\ NewInode.raw.blk = b
  BY <1>1, <1>2, NewInodeType
<1>4. /\ x \in Inode /\ x.kind = NewInode.raw.kind /\ x.owns = {b} /\ x.blk = b
  BY <1>1, <1>3, SealedType DEF Sealed, Handle, Inode
<1>5. image' = [image EXCEPT !.itab[InodeSlot(n)] = x]
  BY <1>1, <1>3 DEF WriteInodeTo
<1> HIDE DEF x
<1>6. image' \in Image
  BY <1>1, <1>3, WriteInodeToType
<1>7. TypeOK'
  BY <1>1, <1>6 DEF IInv, TypeOK, PCs
<1>8. PICK i \in image.ibm[loc.g] : n = InoNum(loc.g, i)
  BY <1>1 DEF IInv, InodeHolds
<1>9. PICK j \in image.bbm[loc.g] : b = BlkNum(loc.g, j)
  BY <1>1 DEF IInv, BlockHolds
<1>10. /\ loc.g \in Group /\ ~image.gd[loc.g].iUninit
       /\ b \notin MetaBlocks \cup OwnedBy(image, InUse(image))
       /\ NodeAt(image, n).kind = "free" /\ x.kind \in {"dir", "file"}
  BY <1>1, <1>3, <1>4 DEF IInv, TypeOK, Locals, GroupHolds, InodeHolds, BlockHolds
<1>11. op.in.num \in InodeNums /\ op.in.num # n
  BY <1>2, <1>10 DEF DirsOf, InUse
<1>12. /\ image'.ibm = image.ibm /\ image'.bbm = image.bbm /\ image'.gd = image.gd
       /\ image'.blk = image.blk
       /\ NodeAt(image', n) = x
       /\ \A m \in InodeNums : m # n => NodeAt(image', m) = NodeAt(image, m)
  BY <1>1, <1>2, <1>5, SlotInTables, SlotInjective DEF Image, NodeAt
<1>13. ASSUME x.kind = "dir", NEW k \in DOMAIN image.blk[b].ents
       PROVE  Leads(image', image.blk[b].ents[k])
  <2>1. op.kind = "mkdir"
    BY <1>3, <1>4, <1>13
  <2>2. image.blk[b].ents = NewDirBlock(image, n, op.in.num).ents
    BY <1>1, <2>1 DEF IInv, BlockHolds
  <2>3. /\ image.blk[b].ents[k].ino \in {n, op.in.num}
        /\ image.blk[b].ents[k].ftype = "dir"
    BY <1>13, <2>2 DEF NewDirBlock
  <2>4. /\ n \in InUse(image') /\ NodeAt(image', n).kind = "dir"
        /\ op.in.num \in InUse(image') /\ NodeAt(image', op.in.num).kind = "dir"
    BY <1>2, <1>11, <1>12, <1>13 DEF InUse, DirsOf
  <2> QED BY <2>3, <2>4 DEF Leads
<1>14. LinksResolve(image')
  BY <1>1, <1>4, <1>5, <1>8, <1>9, <1>10, <1>13, IInvLinks, InodeCreateKeeps
<1>15. ArgumentsHold'
  <2>1. op.in = ReadInode(image', op.in.num)
    <3>1. op.in = ReadInode(image, op.in.num)
      BY <1>1 DEF IInv, ArgumentsHold, Making
    <3> QED BY <3>1, <1>11, <1>12 DEF ReadInode
  <2> QED BY <1>1, <2>1 DEF IInv, ArgumentsHold, Making, Overwriting
<1>16. InodeHolds'
  <2>1. NewInode' = NewInode
    BY <1>1 DEF NewInode
  <2>2. n \in InUse(image') /\ NodeAt(image', n).kind = NewInode.raw.kind
    BY <1>2, <1>4, <1>10, <1>12 DEF InUse
  <2> QED BY <1>1, <2>1, <2>2 DEF InodeHolds
<1>17. GroupHolds' /\ BlockHolds'
  BY <1>1, <1>2 DEF GroupHolds, BlockHolds
<1> QED BY <1>7, <1>14, <1>15, <1>16, <1>17 DEF IInv, ReferencesResolve, LinksResolve

\* An operation returns: nothing is in progress.
LEMMA ReturnStep ==
    ASSUME IInv, NEW in \in Handle, Return(in), UNCHANGED sb,
           image' \in Image, LinksResolve(image')
    PROVE  IInv'
<1>1. /\ pc' = "idle" /\ op' = NoOp /\ loc' = NoLoc
      /\ ret' = [status |-> "ok", in |-> in]
      /\ hist' = [hist EXCEPT !.before = image']
  BY DEF Return
<1>2. hist' \in Histories /\ ret' \in Results
  BY <1>1 DEF IInv, TypeOK, Histories, Results, Statuses
<1>3. TypeOK'
  BY <1>1, <1>2, NothingTypes DEF IInv, TypeOK, PCs
<1>4. ArgumentsHold' /\ GroupHolds' /\ InodeHolds' /\ BlockHolds'
  BY <1>1 DEF ArgumentsHold, GroupHolds, InodeHolds, BlockHolds, Making, Overwriting
<1> QED BY <1>3, <1>4 DEF IInv, ReferencesResolve, LinksResolve

\* A handle that says of inode n what the image says of its kind and blocks.
RewroteInode(img, in, n) ==
    /\ n \in InUse(img) /\ in \in Handle /\ in.num = n
    /\ in.raw.kind = NodeAt(img, n).kind /\ in.raw.owns = NodeAt(img, n).owns
    /\ in.raw.single = NodeAt(img, n).single /\ in.raw.blk = NodeAt(img, n).blk

\* Rewriting a handle just read, its kind and blocks kept, keeps the invariant.
LEMMA RewriteStep ==
    ASSUME NEW img \in Image, LinksResolve(img), NEW in, NEW n, RewroteInode(img, in, n)
    PROVE  LinksResolve(WriteInodeTo(img, in)) /\ WriteInodeTo(img, in) \in Image
<1> DEFINE x == Sealed(img, in).raw
<1>1. in \in Handle /\ in.num = n /\ n \in InUse(img)
  BY DEF RewroteInode
<1>2. /\ x \in Inode /\ x.kind = in.raw.kind /\ x.owns = in.raw.owns
      /\ x.single = in.raw.single /\ x.blk = in.raw.blk
  BY <1>1, SealedType DEF Sealed, Handle, Inode
<1> HIDE DEF x
<1>3. WriteInodeTo(img, in) = [img EXCEPT !.itab[InodeSlot(n)] = x]
  BY <1>1 DEF WriteInodeTo, x
<1>4. LinksResolve(WriteInodeTo(img, in))
  BY <1>1, <1>2, <1>3, InodeRewriteKeeps DEF RewroteInode
<1> QED BY <1>1, <1>4, WriteInodeToType

\* addDirent keeps the invariant: the new record leads to the inode written before it.
LEMMA AddDirentStep == ASSUME IInv, AddDirent PROVE IInv'
<1>1. CASE Refuse("refused")
  BY <1>1, RefuseStep DEF Statuses
<1>2. CASE ~Refuse("refused")
  <2> DEFINE b == op.in.raw.blk
             old == image.blk[b]
             ents == WithDirent(old.ents, loc.ino, op.name, NewInode.raw.kind)
             tail == TailSeal(image, old.tail, op.in.num)
             x == [old EXCEPT !.ents = ents, !.tail = tail]
  <2>1. /\ image \in Image /\ TypeOK /\ pc = "dirent" /\ ~DirentRefused(op.in, op.name)
        /\ image' = [image EXCEPT !.blk[b] = x] /\ UNCHANGED sb
        /\ IF op.kind = "mkdir"
           THEN pc' = "parent" /\ UNCHANGED <<op, loc, ret, hist>>
           ELSE Return(Sealed(image, NewInode))
    BY <1>2 DEF IInv, TypeOK, AddDirent
  <2>2. /\ loc.ino \in InodeNums /\ loc.blk \in BlockNums
        /\ op.in.num \in DirsOf(image) /\ op.in.raw = NodeAt(image, op.in.num)
        /\ op.kind = "mkdir" \/ (op.kind = "create" /\ op.data \in Data)
    BY <2>1, MakingHolds DEF Making
  <2>3. op.in.num \in InUse(image) /\ op.in.num \in InodeNums /\ op.name \in Names
    BY <2>1, <2>2 DEF DirsOf, InUse, TypeOK, Operations
  <2>4. b \in NodeAt(image, op.in.num).owns /\ b \in BlockNums
    <3>1. op.in.raw.single
      BY <2>1 DEF IInv, ArgumentsHold, Making
    <3>2. b \in NodeAt(image, op.in.num).owns
      BY <2>2, <2>3, <3>1 DEF IInv, ExtentsOwned
    <3> QED BY <3>2, <2>1, <2>3, NodeType DEF Inode
  <2>5. old \in Block /\ old.ents \in Seq(Dirent)
    BY <2>1, <2>4 DEF Image, Block
  <2>6. /\ Len(old.ents) > 0
        /\ ~(Last(old.ents).rec - UsedLen(Last(old.ents)) < DirentLen(NameLen[op.name]))
    BY <2>1 DEF DirentRefused, WellFormed
  <2>7. Last(old.ents).rec - UsedLen(Last(old.ents)) >= DirentLen(NameLen[op.name])
    <3>1. Last(old.ents) \in Dirent
      BY <2>5, <2>6 DEF Last
    <3>2. UsedLen(Last(old.ents)) \in Nat /\ Last(old.ents).rec \in Nat
      BY <3>1, UsedLenNat DEF Dirent
    <3>3. DirentLen(NameLen[op.name]) \in Nat
      BY <2>3, NamesAssumption, DirentLenNat
    <3> QED BY <2>6, <3>2, <3>3
  <2>8. NewInode \in Handle /\ NewInode.raw.kind \in {"dir", "file"}
    BY <2>1, <2>2, NewInodeType
  <2>9. ents \in Seq(Dirent)
    BY <2>2, <2>3, <2>5, <2>6, <2>7, <2>8, WithDirentType
  <2>10. tail \in [seal: Seals, ino: InodeNums \cup {0}]
    BY <2>3, <2>5 DEF TailSeal, Block, Seals, CsumKinds
  <2> HIDE DEF ents, tail
  <2>11. x \in Block /\ x.ents = ents
    BY <2>5, <2>9, <2>10 DEF Block
  <2> HIDE DEF x
  <2>12. image' \in Image
    BY <2>1, <2>11, SetBlk
  <2>13. loc.ino \in InUse(image) /\ NodeAt(image, loc.ino).kind = NewInode.raw.kind
    BY <2>1 DEF IInv, InodeHolds
  <2>14. \A k \in DOMAIN ents : Leads(image, ents[k])
    <3>1. \A k \in DOMAIN old.ents : Leads(image, old.ents[k])
      BY <2>2, <2>4, IInvLinks, RecordByRecord DEF LinksResolve, EveryRecordLeads
    <3> QED BY <3>1, <2>1, <2>5, <2>6, <2>13, WithDirentLeads DEF ents
  <2>15. LinksResolve(image')
    BY <2>1, <2>11, <2>14, IInvLinks, BlockWriteKeeps
  <2>16. /\ image'.itab = image.itab /\ image'.gd = image.gd
         /\ image'.ibm = image.ibm /\ image'.bbm = image.bbm
    BY <2>1 DEF Image
  <2>17. CASE op.kind = "mkdir"
    <3>1. pc' = "parent" /\ UNCHANGED <<op, loc, ret, hist, sb>>
      BY <2>1, <2>17
    <3>2. TypeOK'
      BY <2>1, <2>12, <3>1 DEF TypeOK, PCs
    <3>3. ArgumentsHold'
      BY <2>1, <2>16, <3>1 DEF IInv, ArgumentsHold, Making, Overwriting, ReadInode, NodeAt
    <3>4. InodeHolds'
      <4>1. NewInode' = NewInode
        BY <3>1 DEF NewInode
      <4> QED BY <2>13, <2>16, <3>1, <4>1 DEF InodeHolds, InUse, NodeAt
    <3>5. GroupHolds' /\ BlockHolds'
      BY <2>2, <3>1 DEF GroupHolds, BlockHolds
    <3> QED BY <2>15, <3>2, <3>3, <3>4, <3>5 DEF IInv, ReferencesResolve, LinksResolve
  <2>18. CASE op.kind # "mkdir"
    <3>1. Return(Sealed(image, NewInode)) /\ Sealed(image, NewInode) \in Handle
      BY <2>1, <2>8, <2>18, SealedType
    <3> QED BY <2>1, <2>12, <2>15, <3>1, ReturnStep
  <2> QED BY <2>17, <2>18
<1> QED BY <1>1, <1>2

\* Writing the parent with its new link count keeps the invariant.
LEMMA WriteParentStep == ASSUME IInv, WriteParent PROVE IInv'
<1> DEFINE n == op.in.num
           links == (op.in.raw.links + 1) % 65536
           in == [op.in EXCEPT !.raw.links = links]
           x == Sealed(image, in).raw
<1>1. /\ image \in Image /\ TypeOK /\ pc = "parent" /\ UNCHANGED sb
      /\ image' = WriteInodeTo(image, in) /\ Return(Sealed(image, NewInode))
  BY DEF IInv, TypeOK, WriteParent
<1>2. /\ loc.ino \in InodeNums /\ loc.blk \in BlockNums
      /\ n \in InUse(image) /\ op.in.raw = NodeAt(image, n)
      /\ op.kind = "mkdir" \/ (op.kind = "create" /\ op.data \in Data)
  BY <1>1, MakingHolds DEF Making, DirsOf
<1>3. op.in \in Handle /\ op.in.raw \in Inode
  BY <1>1 DEF TypeOK, Operations, Handle
<1>4. links \in Nat
  <2>1. op.in.raw.links \in Nat
    BY <1>3 DEF Inode
  <2> QED BY <2>1, SMT
<1> HIDE DEF links
<1>5. /\ in \in Handle /\ in.num = n
      /\ in.raw.kind = op.in.raw.kind /\ in.raw.owns = op.in.raw.owns
      /\ in.raw.single = op.in.raw.single /\ in.raw.blk = op.in.raw.blk
  BY <1>3, <1>4 DEF Handle, Inode
<1> HIDE DEF in
<1>6. RewroteInode(image, in, n)
  BY <1>2, <1>5 DEF RewroteInode
<1>7. LinksResolve(image') /\ image' \in Image
  BY <1>1, <1>6, IInvLinks, RewriteStep
<1>8. Sealed(image, NewInode) \in Handle
  BY <1>1, <1>2, NewInodeType, SealedType
<1> QED BY <1>1, <1>7, <1>8, ReturnStep

\* Writing a file's block keeps the invariant: no directory holds that block.
LEMMA OverwriteDataStep == ASSUME IInv, OverwriteData PROVE IInv'
<1>1. CASE Refuse("refused")
  BY <1>1, RefuseStep DEF Statuses
<1>2. CASE ~Refuse("refused")
  <2> DEFINE x == NewFileBlock(op.data)
  <2>1. /\ image \in Image /\ pc = "odata" /\ ~OverwriteRefused
        /\ image' = [image EXCEPT !.blk[op.in.raw.blk] = x] /\ pc' = "oinode"
        /\ UNCHANGED <<sb, op, loc, ret, hist>>
    BY <1>2 DEF IInv, TypeOK, OverwriteData
  <2>2. x \in Block /\ x.ents = <<>>
    <3>1. op.data \in Data
      BY <2>1 DEF IInv, ArgumentsHold, Overwriting
    <3> QED BY <3>1, NewFileBlockType DEF NewFileBlock
  <2> HIDE DEF x
  <2>3. image' \in Image
    BY <2>1, <2>2, SetBlk
  <2>4. TypeOK'
    BY <2>1, <2>3 DEF IInv, TypeOK, PCs
  <2>5. \A k \in DOMAIN x.ents : Leads(image, x.ents[k])
    BY <2>2
  <2>6. LinksResolve(image')
    BY <2>1, <2>5, IInvLinks, BlockWriteKeeps
  <2>7. image'.itab = image.itab
    BY <2>1 DEF Image
  <2>8. ArgumentsHold'
    <3>1. OverwriteRefused' = OverwriteRefused
      BY <2>1 DEF OverwriteRefused
    <3>2. op.in = ReadInode(image', op.in.num)
      BY <2>1, <2>7 DEF IInv, ArgumentsHold, Overwriting, ReadInode, NodeAt
    <3> QED BY <2>1, <3>1, <3>2 DEF IInv, ArgumentsHold, Making, Overwriting
  <2>9. GroupHolds' /\ InodeHolds' /\ BlockHolds'
    BY <2>1 DEF GroupHolds, InodeHolds, BlockHolds
  <2> QED BY <2>4, <2>6, <2>8, <2>9 DEF IInv, ReferencesResolve, LinksResolve
<1> QED BY <1>1, <1>2

\* Writing the size of an overwritten file keeps the invariant.
LEMMA OverwriteInodeStep == ASSUME IInv, OverwriteInode PROVE IInv'
<1> DEFINE n == op.in.num
           in == [op.in EXCEPT !.raw.size = DataLen[op.data]]
<1>1. /\ image \in Image /\ TypeOK /\ pc = "oinode" /\ UNCHANGED sb
      /\ image' = WriteInodeTo(image, in) /\ Return(Sealed(image, in))
  BY DEF IInv, TypeOK, OverwriteInode
<1>2. op.in = ReadInode(image, n) /\ op.in.raw.kind # "free" /\ op.data \in Data
  BY <1>1 DEF IInv, ArgumentsHold, Overwriting
<1>3. op.in \in Handle /\ op.in.raw \in Inode /\ n \in InodeNums
  BY <1>1 DEF TypeOK, Operations, Handle
<1>4. op.in.raw = NodeAt(image, n) /\ n \in InUse(image) /\ DataLen[op.data] \in Nat
  BY <1>2, <1>3, NamesAssumption DEF ReadInode, InUse
<1>5. /\ in \in Handle /\ in.num = n
      /\ in.raw.kind = op.in.raw.kind /\ in.raw.owns = op.in.raw.owns
      /\ in.raw.single = op.in.raw.single /\ in.raw.blk = op.in.raw.blk
  BY <1>3, <1>4 DEF Handle, Inode
<1> HIDE DEF in
<1>6. RewroteInode(image, in, n)
  BY <1>4, <1>5 DEF RewroteInode
<1>7. LinksResolve(image') /\ image' \in Image
  BY <1>1, <1>6, IInvLinks, RewriteStep
<1>8. Sealed(image, in) \in Handle
  BY <1>1, <1>5, SealedType
<1> QED BY <1>1, <1>7, <1>8, ReturnStep

-----------------------------------------------------------------------------
(* IInv is inductive.                                                      *)

\* A clean image with no operation running satisfies the invariant.
LEMMA InitIInv == Init => IInv
<1> SUFFICES ASSUME Init PROVE IInv
  OBVIOUS
<1>1. image \in Image /\ FsckClean(image) /\ pc = "closed"
  BY ImagesAssumption DEF Init
<1>2. LinksResolve(image)
  BY <1>1, CleanResolves
<1>3. TypeOK
  BY <1>1, NothingTypes DEF Init, TypeOK, PCs, Results, Statuses, Histories
<1>4. ArgumentsHold /\ GroupHolds /\ InodeHolds /\ BlockHolds
  BY <1>1 DEF ArgumentsHold, GroupHolds, InodeHolds, BlockHolds, Making, Overwriting
<1> QED BY <1>2, <1>3, <1>4 DEF IInv, ReferencesResolve, LinksResolve

\* Every call a client can make keeps the invariant.
LEMMA CallsStep ==
    ASSUME IInv,
           \/ \E dir \in DirHandles, name \in PathNames :
                \/ CallMkdir(dir, name)
                \/ \E data \in Data : CallCreateFile(dir, name, data)
           \/ \E in \in Handles, data \in Data : CallOverwrite(in, data)
    PROVE  IInv'
<1>1. ASSUME NEW dir \in DirHandles, NEW name \in PathNames, CallMkdir(dir, name)
      PROVE  IInv'
  <2>1. PICK n \in DirsOf(image) : dir = ReadInode(image, n)
    BY DEF DirHandles
  <2>2. n \in InUse(image) /\ name \in Names /\ "mkdir" \in OpKinds
    BY <2>1 DEF DirsOf, PathNames, OpKinds
  <2> QED BY <1>1, <2>1, <2>2, CallStep DEF CallMkdir
<1>2. ASSUME NEW dir \in DirHandles, NEW name \in PathNames, NEW data \in Data,
             CallCreateFile(dir, name, data)
      PROVE  IInv'
  <2>1. PICK n \in DirsOf(image) : dir = ReadInode(image, n)
    BY DEF DirHandles
  <2>2. n \in InUse(image) /\ name \in Names /\ "create" \in OpKinds
    BY <2>1 DEF DirsOf, PathNames, OpKinds
  <2> QED BY <1>2, <2>1, <2>2, CallStep DEF CallCreateFile
<1>3. ASSUME NEW in \in Handles, NEW data \in Data, CallOverwrite(in, data)
      PROVE  IInv'
  <2>1. PICK n \in InUse(image) : in = ReadInode(image, n)
    BY DEF Handles
  <2>2. Dot \in Names /\ "overwrite" \in OpKinds
    BY NamesDots DEF OpKinds
  <2> QED BY <1>3, <2>1, <2>2, CallStep DEF CallOverwrite
<1> QED BY <1>1, <1>2, <1>3

\* Every step of the specification keeps the invariant.
LEMMA NextIInv == IInv /\ [Next]_vars => IInv'
<1> SUFFICES ASSUME IInv, [Next]_vars PROVE IInv'
  OBVIOUS
<1>1. CASE Step
  BY <1>1, LookupNameStep, PickGroupStep, AllocInodeStep, AllocBlockStep, WriteDescStep,
     WriteBodyStep, WriteInodeStep, AddDirentStep, WriteParentStep, OverwriteDataStep,
     OverwriteInodeStep DEF Step
<1>2. CASE Caller
  <2>1. CASE Close
    BY <2>1, CloseStep DEF Close, Statuses
  <2> QED BY <1>2, <2>1, OpenFSStep, SyncStep, CallsStep DEF Caller
<1>3. CASE Kill
  BY <1>3, CloseStep DEF Kill, Statuses
<1>4. CASE UNCHANGED vars
  <2>1. NewInode' = NewInode /\ OverwriteRefused' = OverwriteRefused
    BY <1>4 DEF vars, NewInode, OverwriteRefused
  <2>2. TypeOK' /\ ReferencesResolve' /\ ExtentsOwned(image)'
    BY <1>4 DEF vars, IInv, TypeOK, ReferencesResolve
  <2>3. ArgumentsHold'
    BY <1>4, <2>1 DEF vars, IInv, ArgumentsHold
  <2>4. GroupHolds' /\ InodeHolds' /\ BlockHolds'
    BY <1>4, <2>1 DEF vars, IInv, GroupHolds, InodeHolds, BlockHolds
  <2> QED BY <2>2, <2>3, <2>4 DEF IInv
<1> QED BY <1>1, <1>2, <1>3, <1>4 DEF Next

\* Whatever is called and wherever it is interrupted, IInv holds.
THEOREM Invariance == Spec => []IInv
BY InitIInv, NextIInv, PTL DEF Spec

\* Every variable keeps its type; in particular the numbers allocInode and
\* allocBlock return are numbers of the filesystem.
THEOREM TypeCorrect == Spec => []TypeOK
<1>1. IInv => TypeOK
  BY DEF IInv
<1> QED BY <1>1, Invariance, PTL

\* After any interruptions and reruns, what the tree refers to is there:
\* marked, owned once, and of the kind its directory record says.
THEOREM ReferencesAlwaysResolve == Spec => []ReferencesResolve
<1>1. IInv => ReferencesResolve
  BY DEF IInv
<1> QED BY <1>1, Invariance, PTL

-----------------------------------------------------------------------------
(* No step touches a bystander.                                            *)

Kept(img, new, n) ==
    /\ NodeAt(new, n) = NodeAt(img, n)
    /\ \A b \in NodeAt(img, n).owns : new.blk[b] = img.blk[b]

\* A step that writes neither an inode nor a block.
LEMMA QuietKeeps ==
    ASSUME NEW img, NEW new, new.itab = img.itab, new.blk = img.blk
    PROVE  \A n : Kept(img, new, n)
BY DEF Kept, NodeAt

\* A step that writes one block keeps the inodes that do not map it.
LEMMA BlockWriteSpares ==
    ASSUME NEW img \in Image, NEW b, NEW x, NEW n \in InodeNums, b \notin NodeAt(img, n).owns
    PROVE  Kept(img, [img EXCEPT !.blk[b] = x], n)
<1> DEFINE new == [img EXCEPT !.blk[b] = x]
<1>1. new.itab = img.itab /\ \A c \in BlockNums : c # b => new.blk[c] = img.blk[c]
  BY DEF Image
<1>2. NodeAt(img, n).owns \subseteq BlockNums
  BY NodeType DEF Inode
<1> QED BY <1>1, <1>2 DEF Kept, NodeAt

\* A step that writes one inode keeps the others.
LEMMA InodeWriteSpares ==
    ASSUME NEW img \in Image, NEW in, in.num \in InodeNums, NEW n \in InodeNums, n # in.num
    PROVE  Kept(img, WriteInodeTo(img, in), n)
<1> DEFINE new == WriteInodeTo(img, in)
<1>1. InodeSlot(n) \in Slots /\ InodeSlot(n) # InodeSlot(in.num)
  BY SlotInTables, SlotInjective
<1>2. new.blk = img.blk /\ new.itab[InodeSlot(n)] = img.itab[InodeSlot(n)]
  BY <1>1 DEF WriteInodeTo, Image
<1> QED BY <1>2 DEF Kept, NodeAt

\* The block an operation writes through its handle belongs to nobody else.
LEMMA HandleBlockIsOurs ==
    ASSUME IInv, pc \in {"dirent", "odata"}, op.in.raw.single,
           NEW n \in InUse(image), n # op.in.num
    PROVE  op.in.raw.blk \notin NodeAt(image, n).owns
<1>1. op.in = ReadInode(image, op.in.num) /\ op.in.raw.kind # "free"
  BY DEF IInv, ArgumentsHold, Making, Overwriting
<1>2. op.in.num \in InodeNums
  BY DEF IInv, TypeOK, Operations, Handle
<1>3. op.in.raw = NodeAt(image, op.in.num) /\ op.in.num \in InUse(image)
  BY <1>1, <1>2 DEF ReadInode, InUse
<1>4. op.in.raw.blk \in NodeAt(image, op.in.num).owns
  BY <1>3 DEF IInv, ExtentsOwned
<1> QED BY <1>3, <1>4 DEF IInv, ReferencesResolve, BlocksOwnedOnce

\* A step leaves every inode but the one the operation was given as it was.
LEMMA StepKeeps ==
    ASSUME IInv, [Next]_vars, NEW n \in InUse(image), n # op.in.num
    PROVE  Kept(image, image', n)
<1>1. image \in Image /\ n \in InodeNums /\ pc \in PCs
  BY DEF IInv, TypeOK, InUse
<1>2. CASE UNCHANGED image
  BY <1>2, QuietKeeps
<1>3. CASE AllocInode \/ AllocBlock \/ WriteDesc \/ Sync
  <2>1. image'.itab = image.itab /\ image'.blk = image.blk
    BY <1>1, <1>3 DEF AllocInode, AllocBlock, WriteDesc, Sync, Refuse, Image
  <2> QED BY <2>1, QuietKeeps
<1>4. CASE WriteBody
  <2>1. loc.blk \notin NodeAt(image, n).owns
    BY <1>4 DEF WriteBody, IInv, BlockHolds, OwnedBy
  <2> QED BY <1>1, <1>4, <2>1, BlockWriteSpares DEF WriteBody
<1>5. CASE WriteInode
  <2>1. loc.ino \in InodeNums
    BY <1>5, MakingHolds DEF WriteInode
  <2>2. n # loc.ino
    BY <1>5 DEF WriteInode, IInv, InodeHolds, InUse
  <2>3. NewInode.num = loc.ino
    BY DEF NewInode
  <2> QED BY <1>1, <1>5, <2>1, <2>2, <2>3, InodeWriteSpares DEF WriteInode
<1>6. CASE AddDirent /\ ~UNCHANGED image
  <2>1. PICK x : image' = [image EXCEPT !.blk[op.in.raw.blk] = x]
    BY <1>6 DEF AddDirent, Refuse
  <2>2. pc = "dirent" /\ op.in.raw.single
    BY <1>6 DEF AddDirent, IInv, ArgumentsHold, Making
  <2> QED BY <1>1, <2>1, <2>2, HandleBlockIsOurs, BlockWriteSpares
<1>7. CASE OverwriteData /\ ~UNCHANGED image
  <2>1. image' = [image EXCEPT !.blk[op.in.raw.blk] = NewFileBlock(op.data)]
    BY <1>7 DEF OverwriteData, Refuse
  <2>2. pc = "odata" /\ op.in.raw.single
    BY <1>7 DEF OverwriteData, Refuse, OverwriteRefused
  <2> QED BY <1>1, <2>1, <2>2, HandleBlockIsOurs, BlockWriteSpares
<1>8. CASE WriteParent \/ OverwriteInode
  <2>1. op.in \in Handle /\ op.in.num \in InodeNums
    BY DEF IInv, TypeOK, Operations, Handle
  <2>2. CASE WriteParent
    <3> DEFINE in == [op.in EXCEPT !.raw.links = (@ + 1) % 65536]
    <3>1. image' = WriteInodeTo(image, in)
      BY <2>2 DEF WriteParent
    <3>2. in.num = op.in.num
      BY <2>1 DEF Handle
    <3> HIDE DEF in
    <3> QED BY <1>1, <2>1, <3>1, <3>2, InodeWriteSpares
  <2>3. CASE OverwriteInode
    <3> DEFINE in == [op.in EXCEPT !.raw.size = DataLen[op.data]]
    <3>1. image' = WriteInodeTo(image, in)
      BY <2>3 DEF OverwriteInode
    <3>2. in.num = op.in.num
      BY <2>1 DEF Handle
    <3> HIDE DEF in
    <3> QED BY <1>1, <2>1, <3>1, <3>2, InodeWriteSpares
  <2> QED BY <1>8, <2>2, <2>3
<1>9. CASE LookupName \/ PickGroup \/ Kill \/ OpenFS \/ Close
  BY <1>9, <1>2 DEF LookupName, PickGroup, Kill, OpenFS, Close, Refuse
<1>10. ASSUME NEW kind, NEW in, NEW name, NEW data, NEW first,
              Call(kind, in, name, data, first)
       PROVE  UNCHANGED image
  BY <1>10 DEF Call
<1>11. CASE Caller
  BY <1>2, <1>3, <1>9, <1>10, <1>11 DEF Caller, CallMkdir, CallCreateFile, CallOverwrite
<1>12. CASE UNCHANGED vars
  BY <1>2, <1>12 DEF vars
<1> QED BY <1>2, <1>3, <1>4, <1>5, <1>6, <1>7, <1>8, <1>9, <1>11, <1>12 DEF Next, Step

\* Nothing but the inode an operation was called on, and what it maps, is ever
\* rewritten: every other file keeps its inode, its blocks and their contents.
THEOREM BystandersSafe == Spec => BystandersKept
<1>1. IInv /\ [Next]_vars => [\A n \in InUse(image) \ {op.in.num} :
            /\ NodeAt(image', n) = NodeAt(image, n)
            /\ \A b \in NodeAt(image, n).owns : image'.blk[b] = image.blk[b]]_vars
  BY StepKeeps DEF Kept
<1> QED BY <1>1, Invariance, PTL DEF Spec, BystandersKept

-----------------------------------------------------------------------------
(* No step takes a name from a directory.                                  *)

\* Every record in use of the first is in the second, with its name and inode.
RecordsKept(ents, after) ==
    \A i \in DOMAIN ents : ents[i].ino # 0 =>
        \E j \in DOMAIN after :
            after[j].name = ents[i].name /\ after[j].ino = ents[i].ino /\ after[j].nlen = ents[i].nlen

\* Directory d keeps its names.
NamesKeptIn(img, new, d) ==
    /\ d \in DirsOf(new)
    /\ \A e \in Entries(img, d) :
          \E f \in Entries(new, d) :
              f.name = e.name /\ f.ino = e.ino /\ f.nlen = e.nlen

\* A directory that keeps its blocks, and their records, keeps its names.
LEMMA RecordsToNames ==
    ASSUME NEW img, NEW new, NEW d \in DirsOf(img),
           NodeAt(new, d).kind = NodeAt(img, d).kind, NodeAt(new, d).owns = NodeAt(img, d).owns,
           \A b \in NodeAt(img, d).owns : RecordsKept(img.blk[b].ents, new.blk[b].ents)
    PROVE  NamesKeptIn(img, new, d)
<1>1. d \in DirsOf(new)
  BY DEF DirsOf, InUse
<1>2. ASSUME NEW e \in Entries(img, d)
      PROVE  \E f \in Entries(new, d) : f.name = e.name /\ f.ino = e.ino /\ f.nlen = e.nlen
  <2>1. PICK b \in NodeAt(img, d).owns : e \in ToSet(img.blk[b].ents) /\ e.ino # 0
    BY DEF Entries
  <2>2. PICK i \in DOMAIN img.blk[b].ents : e = img.blk[b].ents[i]
    BY <2>1 DEF ToSet
  <2>3. PICK j \in DOMAIN new.blk[b].ents :
            /\ new.blk[b].ents[j].name = e.name /\ new.blk[b].ents[j].ino = e.ino
            /\ new.blk[b].ents[j].nlen = e.nlen
    BY <2>1, <2>2 DEF RecordsKept
  <2> DEFINE f == new.blk[b].ents[j]
  <2>4. f \in ToSet(new.blk[b].ents) /\ f.ino # 0
    BY <2>1, <2>3 DEF ToSet
  <2>5. f \in Entries(new, d)
    BY <2>1, <2>4 DEF Entries
  <2> QED BY <2>3, <2>5
<1> QED BY <1>1, <1>2 DEF NamesKeptIn

\* Records that stay are kept.
LEMMA SameRecords == ASSUME NEW ents PROVE RecordsKept(ents, ents)
BY DEF RecordsKept

\* An inode kept with its blocks, when it is a directory, keeps its names.
LEMMA KeptNames ==
    ASSUME NEW img, NEW new, NEW d \in DirsOf(img), Kept(img, new, d)
    PROVE  NamesKeptIn(img, new, d)
<1>1. \A b \in NodeAt(img, d).owns : RecordsKept(img.blk[b].ents, new.blk[b].ents)
  BY SameRecords DEF Kept
<1> QED BY <1>1, RecordsToNames DEF Kept

\* addDirent shortens the last record or takes it over when it is unused, and
\* keeps the others.
LEMMA WithDirentKeeps ==
    ASSUME NEW ents \in Seq(Dirent), Len(ents) > 0, NEW ino, NEW name, NEW ftype
    PROVE  RecordsKept(ents, WithDirent(ents, ino, name, ftype))
<1> DEFINE last == Last(ents)
           used == UsedLen(last)
           new  == NewDirent(ino, name, last.rec - used, ftype)
           shrunk == [last EXCEPT !.rec = used]
           n == Len(ents) - 1
           after == WithDirent(ents, ino, name, ftype)
<1>1. n \in Nat /\ DOMAIN ents = 1 .. n + 1 /\ last = ents[n + 1] /\ last \in Dirent
  <2>1. Len(ents) \in Nat /\ DOMAIN ents = 1 .. Len(ents)
    BY LenProperties
  <2>2. last = ents[Len(ents)] /\ ents[Len(ents)] \in Dirent
    BY <2>1, ElementOfSeq DEF Last
  <2> QED BY <2>1, <2>2
<1>2. /\ Front(ents) \in Seq(Dirent) /\ Len(Front(ents)) = n
      /\ \A k \in 1 .. n : Front(ents)[k] = ents[k]
  <2>1. \A k \in 1 .. n : ents[k] \in Dirent
    BY <1>1, ElementOfSeq
  <2>2. Front(ents) = SubSeq(ents, 1, n)
    BY DEF Front
  <2> HIDE DEF n
  <2>3. /\ SubSeq(ents, 1, n) \in Seq(Dirent)
        /\ Len(SubSeq(ents, 1, n)) = IF 1 <= n THEN n - 1 + 1 ELSE 0
        /\ \A k \in 1 .. n - 1 + 1 : SubSeq(ents, 1, n)[k] = ents[1 + k - 1]
    BY <1>1, <2>1, SubSeqProperties
  <2> QED BY <1>1, <2>2, <2>3
<1>3. /\ shrunk.name = last.name /\ shrunk.ino = last.ino /\ shrunk.nlen = last.nlen
  BY <1>1 DEF Dirent
<1>4. last.ino # 0 => used # 0
  BY <1>1, UsedNotZero
<1>5. \/ used = 0 /\ after = Front(ents) \o <<new>>
      \/ used # 0 /\ after = Front(ents) \o <<shrunk, new>>
  BY DEF WithDirent
<1> HIDE DEF new, shrunk, n, used, last, after
<1>6. ASSUME NEW i \in 1 .. n
      PROVE  i \in DOMAIN after /\ after[i] = ents[i]
  <2>1. CASE after = Front(ents) \o <<new>>
    BY <1>1, <1>2, <2>1
  <2>2. CASE after = Front(ents) \o <<shrunk, new>>
    BY <1>1, <1>2, <2>2
  <2> QED BY <1>5, <2>1, <2>2
<1>7. used # 0 => n + 1 \in DOMAIN after /\ after[n + 1] = shrunk
  BY <1>1, <1>2, <1>5
<1>8. ASSUME NEW i \in 1 .. n + 1, ents[i].ino # 0
      PROVE  \E j \in DOMAIN after :
                after[j].name = ents[i].name /\ after[j].ino = ents[i].ino
                    /\ after[j].nlen = ents[i].nlen
  <2>1. CASE i \in 1 .. n
    BY <1>6, <2>1
  <2>2. CASE i = n + 1
    BY <1>1, <1>3, <1>4, <1>7, <1>8, <2>2
  <2> QED BY <1>1, <2>1, <2>2
<1> QED BY <1>1, <1>8 DEF RecordsKept, after

\* A step keeps the names of the directory the operation was given too: only
\* addDirent writes its block.
LEMMA OwnNames ==
    ASSUME IInv, [Next]_vars, op.in.num \in DirsOf(image)
    PROVE  NamesKeptIn(image, image', op.in.num)
<1> DEFINE d == op.in.num
<1>1. image \in Image /\ d \in InUse(image) /\ d \in InodeNums /\ op.in \in Handle
  BY DEF IInv, TypeOK, Operations, DirsOf, InUse
<1>2. ASSUME image'.itab = image.itab, image'.blk = image.blk PROVE NamesKeptIn(image, image', d)
  BY <1>2, QuietKeeps, KeptNames
<1>3. CASE AllocInode \/ AllocBlock \/ WriteDesc \/ Sync
  <2>1. image'.itab = image.itab /\ image'.blk = image.blk
    BY <1>1, <1>3 DEF AllocInode, AllocBlock, WriteDesc, Sync, Refuse, Image
  <2> QED BY <1>2, <2>1
<1>4. CASE WriteBody
  <2>1. loc.blk \notin NodeAt(image, d).owns
    BY <1>1, <1>4 DEF WriteBody, IInv, BlockHolds, OwnedBy
  <2>2. Kept(image, image', d)
    BY <1>1, <1>4, <2>1, BlockWriteSpares DEF WriteBody
  <2> QED BY <2>2, KeptNames
<1>5. CASE WriteInode
  <2>1. loc.ino \in InodeNums
    BY <1>5, MakingHolds DEF WriteInode
  <2>2. d # loc.ino
    BY <1>1, <1>5 DEF WriteInode, IInv, InodeHolds, InUse
  <2>3. NewInode.num = loc.ino
    BY DEF NewInode
  <2>4. Kept(image, image', d)
    BY <1>1, <1>5, <2>1, <2>2, <2>3, InodeWriteSpares DEF WriteInode
  <2> QED BY <2>4, KeptNames
<1>6. CASE AddDirent /\ ~UNCHANGED image
  <2> DEFINE b == op.in.raw.blk
             old == image.blk[b]
             ents == WithDirent(old.ents, loc.ino, op.name, NewInode.raw.kind)
             x == [old EXCEPT !.ents = ents, !.tail = TailSeal(image, @, op.in.num)]
  <2>1. pc = "dirent" /\ ~DirentRefused(op.in, op.name) /\ image' = [image EXCEPT !.blk[b] = x]
    BY <1>6 DEF AddDirent, Refuse
  <2>2. op.in.raw = NodeAt(image, d) /\ op.in.raw.single
    BY <2>1 DEF IInv, ArgumentsHold, Making, ReadInode
  <2>3. b \in NodeAt(image, d).owns /\ b \in BlockNums
    <3>1. b \in NodeAt(image, d).owns
      BY <1>1, <2>2 DEF IInv, ExtentsOwned
    <3> QED BY <1>1, <3>1, NodeType DEF Inode
  <2>4. old \in Block /\ old.ents \in Seq(Dirent) /\ Len(old.ents) > 0
    BY <1>1, <2>1, <2>3 DEF Image, Block, DirentRefused, WellFormed
  <2>5. RecordsKept(old.ents, ents)
    BY <2>4, WithDirentKeeps
  <2> HIDE DEF ents
  <2>6. x.ents = ents
    BY <2>4 DEF Block
  <2> HIDE DEF x
  <2>7. image'.itab = image.itab /\ image'.blk = [image.blk EXCEPT ![b] = x]
    BY <1>1, <2>1 DEF Image
  <2>8. ASSUME NEW c \in NodeAt(image, d).owns
        PROVE  RecordsKept(image.blk[c].ents, image'.blk[c].ents)
    <3>1. CASE c = b
      BY <1>1, <2>3, <2>5, <2>6, <2>7, <3>1 DEF Image
    <3>2. CASE c # b
      BY <2>7, <3>2, SameRecords
    <3> QED BY <3>1, <3>2
  <2>9. NodeAt(image', d) = NodeAt(image, d)
    BY <2>7 DEF NodeAt
  <2> QED BY <2>8, <2>9, RecordsToNames
<1>7. CASE OverwriteData /\ ~UNCHANGED image
  <2>1. pc = "odata" /\ op.in.raw.kind # "dir"
    BY <1>7 DEF OverwriteData, Refuse, OverwriteRefused
  <2>2. op.in.raw = NodeAt(image, d)
    BY <2>1 DEF IInv, ArgumentsHold, Overwriting, ReadInode
  <2> QED BY <2>1, <2>2 DEF DirsOf
<1>8. ASSUME NEW in \in Handle, in.num = d, image' = WriteInodeTo(image, in),
             in.raw.kind = NodeAt(image, d).kind, in.raw.owns = NodeAt(image, d).owns
      PROVE  NamesKeptIn(image, image', d)
  <2> DEFINE y == Sealed(image, in).raw
  <2>1. y.kind = in.raw.kind /\ y.owns = in.raw.owns
    BY DEF Sealed, Handle, Inode
  <2> HIDE DEF y
  <2>2. image' = [image EXCEPT !.itab[InodeSlot(d)] = y]
    BY <1>8 DEF WriteInodeTo, y
  <2>3. image'.blk = image.blk /\ NodeAt(image', d) = y
    BY <1>1, <2>2, SlotInTables DEF Image, NodeAt
  <2>4. \A b \in NodeAt(image, d).owns : RecordsKept(image.blk[b].ents, image'.blk[b].ents)
    BY <2>3, SameRecords
  <2> QED BY <1>8, <2>1, <2>3, <2>4, RecordsToNames
<1>9. CASE WriteParent
  <2> DEFINE links == (op.in.raw.links + 1) % 65536
             in == [op.in EXCEPT !.raw.links = links]
  <2>1. image' = WriteInodeTo(image, in) /\ pc = "parent"
    BY <1>9 DEF WriteParent
  <2>2. op.in.raw = NodeAt(image, d)
    BY <2>1 DEF IInv, ArgumentsHold, Making, ReadInode
  <2>3. links \in Nat
    <3>1. op.in.raw.links \in Nat
      BY <1>1 DEF Handle, Inode
    <3> QED BY <3>1, SMT
  <2> HIDE DEF links
  <2>4. /\ in \in Handle /\ in.num = d
        /\ in.raw.kind = op.in.raw.kind /\ in.raw.owns = op.in.raw.owns
    BY <1>1, <2>3 DEF Handle, Inode
  <2> HIDE DEF in
  <2> QED BY <1>8, <2>1, <2>2, <2>4
<1>10. CASE OverwriteInode
  <2> DEFINE in == [op.in EXCEPT !.raw.size = DataLen[op.data]]
  <2>1. image' = WriteInodeTo(image, in) /\ pc = "oinode"
    BY <1>10 DEF OverwriteInode
  <2>2. op.in.raw = NodeAt(image, d) /\ DataLen[op.data] \in Nat
    BY <2>1, NamesAssumption DEF IInv, ArgumentsHold, Overwriting, ReadInode
  <2>3. /\ in \in Handle /\ in.num = d
        /\ in.raw.kind = op.in.raw.kind /\ in.raw.owns = op.in.raw.owns
    BY <1>1, <2>2 DEF Handle, Inode
  <2> HIDE DEF in
  <2> QED BY <1>8, <2>1, <2>2, <2>3
<1>11. CASE LookupName \/ PickGroup \/ Kill \/ OpenFS \/ Close
  BY <1>2, <1>11 DEF LookupName, PickGroup, Kill, OpenFS, Close, Refuse
<1>12. ASSUME NEW kind, NEW in, NEW name, NEW data, NEW first,
              Call(kind, in, name, data, first)
       PROVE  UNCHANGED image
  BY <1>12 DEF Call
<1>13. CASE Caller
  BY <1>2, <1>3, <1>11, <1>12, <1>13 DEF Caller, CallMkdir, CallCreateFile, CallOverwrite
<1>14. CASE UNCHANGED image
  BY <1>2, <1>14
<1>15. CASE UNCHANGED vars
  BY <1>14, <1>15 DEF vars
<1> QED BY <1>3, <1>4, <1>5, <1>6, <1>7, <1>9, <1>10, <1>11, <1>13, <1>14, <1>15 DEF Next, Step

\* So does a step keep the names of every other directory.
LEMMA StepKeepsNames ==
    ASSUME IInv, [Next]_vars, NEW d \in DirsOf(image) PROVE NamesKeptIn(image, image', d)
<1>1. CASE d = op.in.num
  BY <1>1, OwnNames
<1>2. CASE d # op.in.num
  <2>1. d \in InUse(image)
    BY DEF DirsOf
  <2> QED BY <1>2, <2>1, StepKeeps, KeptNames
<1> QED BY <1>1, <1>2

\* No directory ever loses a name, whatever is made, refused, interrupted and
\* run again.
THEOREM NamesSafe == Spec => NamesKept
<1>1. IInv /\ [Next]_vars => [\A d \in DirsOf(image) :
          /\ d \in DirsOf(image')
          /\ \A e \in Entries(image, d) :
                \E f \in Entries(image', d) :
                    f.name = e.name /\ f.ino = e.ino /\ f.nlen = e.nlen]_vars
  BY StepKeepsNames DEF NamesKeptIn
<1> QED BY <1>1, Invariance, PTL DEF Spec, NamesKept

-----------------------------------------------------------------------------
(* Checksums.  They are made from the UUID, so they are right when that is *)
(* where the filesystem has its seed from.                                 *)

UuidTail(n) == [seal |-> "uuid", ino |-> n]
UuidSum(bits) == [seal |-> "uuid", of |-> bits]

\* Whatever is interrupted, what is in use is sealed: an inode, a directory's
\* block, a descriptor and the superblock are each written with their checksum.
TreeSealed(img) ==
    /\ \A n \in InUse(img) : NodeAt(img, n).seal = "uuid"
    /\ \A n \in DirsOf(img) : \A b \in NodeAt(img, n).owns : img.blk[b].tail = UuidTail(n)
SealsHold ==
    /\ image.csum \in {"none", "uuid"}
    /\ image.csum = "uuid" =>
          /\ \A g \in Group : image.gd[g].seal = "uuid"
          /\ image.sb.seal = "uuid"
          /\ TreeSealed(image)
          /\ pc = "inode" /\ op.kind = "mkdir" => image.blk[loc.blk].tail = UuidTail(loc.ino)

\* A descriptor has the checksums of its group's bitmaps.
Sums(img, g, d) ==
    /\ ~d.iUninit => d.ibSum = UuidSum(img.ibm[g])
    /\ ~d.bUninit => d.bbSum = UuidSum(img.bbm[g])

\* A bitmap is ahead of its descriptor on disk from the moment it is written
\* until the descriptor in memory is, which has the sums.
SumsHold ==
    Undisturbed /\ image.csum = "uuid" =>
        /\ \A g \in Group :
              (pc \in {"balloc", "desc"} => g # loc.g) => Sums(image, g, image.gd[g])
        /\ pc \in {"ialloc", "balloc", "desc"} => loc.d.bbSum = UuidSum(image.bbm[loc.g])
        /\ pc \in {"balloc", "desc"} => loc.d.ibSum = UuidSum(image.ibm[loc.g])

\* An operation that has written nothing can tell, so can one that has taken
\* an inode.
BeforeHolds ==
    /\ pc \in {"closed", "idle", "lookup", "pick", "ialloc", "odata"} => image = hist.before
    /\ pc = "balloc" => image # hist.before

CInv == IInv /\ SealsHold /\ SumsHold /\ BeforeHolds

\* A clean start has the checksums.
LEMMA InitCInv == ASSUME StartsSealed, Init PROVE CInv
<1>1. image \in InitialImages /\ pc = "closed" /\ hist.before = image
  BY DEF Init
<1>2. image.csum \in {"none", "uuid"} /\ ChecksumsValid(image)
  BY <1>1 DEF StartsSealed
<1>3. SealsHold
  BY <1>1, <1>2 DEF SealsHold, TreeSealed, UuidTail, ChecksumsValid, SealedAs, MetadataCsum
<1>4. SumsHold
  BY <1>1, <1>2 DEF SumsHold, Sums, UuidSum, ChecksumsValid, MetadataCsum
<1> QED BY <1>1, <1>3, <1>4, InitIInv DEF CInv, BeforeHolds

\* A step that leaves the image keeps what is sealed in it.
LEMMA QuietSeals ==
    ASSUME SealsHold, image' = image, pc' # "inode" \/ UNCHANGED <<pc, op, loc>>
    PROVE  SealsHold'
BY DEF SealsHold, TreeSealed, UuidTail

\* It keeps the sums too, where no bitmap is ahead.
LEMMA QuietSums ==
    ASSUME SumsHold, image' = image, pc' \notin {"ialloc", "balloc", "desc"},
           Undisturbed' => Undisturbed /\ pc \notin {"balloc", "desc"}
    PROVE  SumsHold'
BY DEF SumsHold, Sums, UuidSum

\* Two counts that add up to none are both none.
LEMMA NoneOfEither == ASSUME NEW a \in Nat, NEW b \in Nat, a + b = 0 PROVE a = 0 /\ b = 0
OBVIOUS

\* A session that ends while a bitmap is ahead was disturbed.
LEMMA CloseCInv ==
    ASSUME CInv, IInv', NEW status, NEW kills \in Nat, NEW strands \in Nat,
           CloseWith(status, kills, strands), image' = image,
           pc \in {"balloc", "desc"} => kills # 0 \/ strands # 0
    PROVE  CInv'
<1>1. pc' = "closed"
  BY DEF CloseWith
<1>2. hist'.kills = hist.kills + kills /\ hist'.strands = hist.strands + strands
      /\ hist'.before = image
  <2> DEFINE lost == hist.unsynced \/ Unflushed(image, sb)
  <2>1. hist' = [hist EXCEPT !.kills = hist.kills + kills, !.strands = hist.strands + strands,
                             !.unsynced = lost, !.before = image]
    BY DEF CloseWith
  <2> HIDE DEF lost
  <2>2. hist \in Histories
    BY DEF CInv, IInv, TypeOK
  <2> QED BY <2>1, <2>2 DEF Histories
<1>3. hist.kills \in Nat /\ hist.strands \in Nat
  BY DEF CInv, IInv, TypeOK, Histories
<1>4. Undisturbed' => Undisturbed /\ pc \notin {"balloc", "desc"}
  <2> SUFFICES ASSUME Undisturbed' PROVE Undisturbed /\ pc \notin {"balloc", "desc"}
    OBVIOUS
  <2>1. hist.kills + kills = 0 /\ hist.strands + strands = 0
    BY <1>2 DEF Undisturbed
  <2>2. kills = 0 /\ strands = 0 /\ hist.kills = 0 /\ hist.strands = 0
    BY <1>3, <2>1, NoneOfEither
  <2> QED BY <2>2 DEF Undisturbed
<1>5. SumsHold' /\ SealsHold'
  BY <1>1, <1>4, QuietSums, QuietSeals DEF CInv
<1> QED BY <1>1, <1>2, <1>5 DEF CInv, BeforeHolds

\* A refusal while a bitmap is ahead is one that had begun to write.
LEMMA RefuseCInv ==
    ASSUME CInv, IInv', NEW status, Refuse(status), pc # "desc" PROVE CInv'
<1> DEFINE strands == IF image = hist.before THEN 0 ELSE 1
<1>1. strands \in Nat /\ CloseWith(status, 0, strands) /\ image' = image
  BY DEF Refuse
<1>2. pc = "balloc" => strands # 0
  BY DEF CInv, BeforeHolds
<1> QED BY <1>1, <1>2, CloseCInv

\* So is a kill.
LEMMA KillCInv == ASSUME CInv, IInv', Kill PROVE CInv'
BY CloseCInv DEF Kill

\* Steps that neither write nor end anything.
LEMMA ReadCInv ==
    ASSUME CInv, IInv', image' = image, hist'.before = hist.before,
           hist'.kills = hist.kills, hist'.strands = hist.strands,
           pc \in {"closed", "idle", "lookup"}, pc' \in {"idle", "lookup", "pick", "odata"}
    PROVE  CInv'
<1>1. Undisturbed' => Undisturbed
  BY DEF Undisturbed
<1>2. SealsHold' /\ SumsHold'
  BY <1>1, QuietSeals, QuietSums DEF CInv
<1> QED BY <1>2 DEF CInv, BeforeHolds

\* The group picked is initialised, so its descriptor has the sums.
LEMMA PickCInv == ASSUME CInv, IInv', PickGroup PROVE CInv'
<1>1. CASE Refuse("refused")
  BY <1>1, RefuseCInv DEF PickGroup
<1>2. CASE ~Refuse("refused")
  <2>1. PICK g \in Roomy :
            /\ loc' = [loc EXCEPT !.g = g, !.d = image.gd[g]]
            /\ pc' = "ialloc" /\ UNCHANGED <<image, sb, op, ret, hist>>
    BY <1>2 DEF PickGroup
  <2>2. pc = "pick" /\ g \in Group /\ ~image.gd[g].bUninit
    BY DEF PickGroup, Roomy, HasRoom
  <2>3. loc'.g = g /\ loc'.d = image.gd[g]
    BY <2>1 DEF CInv, IInv, TypeOK, Locals
  <2>4. SealsHold'
    BY <2>1, QuietSeals DEF CInv
  <2>5. Undisturbed' = Undisturbed
    BY <2>1 DEF Undisturbed
  <2>6. SumsHold'
    BY <2>1, <2>2, <2>3, <2>5 DEF CInv, SumsHold, Sums, UuidSum
  <2>7. BeforeHolds'
    BY <2>1, <2>2 DEF CInv, BeforeHolds
  <2> QED BY <2>4, <2>6, <2>7 DEF CInv
<1> QED BY <1>1, <1>2

\* What is sealed does not depend on the bitmaps.
LEMMA BitmapSeals ==
    ASSUME SealsHold, pc' # "inode", image'.csum = image.csum, image'.itab = image.itab,
           image'.blk = image.blk, image'.gd = image.gd, image'.sb = image.sb
    PROVE  SealsHold'
<1>1. /\ \A n : NodeAt(image', n) = NodeAt(image, n)
      /\ InUse(image') = InUse(image) /\ DirsOf(image') = DirsOf(image)
  BY DEF NodeAt, InUse, DirsOf
<1>2. TreeSealed(image) => TreeSealed(image')
  BY <1>1 DEF TreeSealed
<1> QED BY <1>2 DEF SealsHold

\* The inode bitmap is written, and its sum made.
LEMMA AllocInodeCInv == ASSUME CInv, IInv', AllocInode PROVE CInv'
<1>1. CASE Refuse("refused")
  BY <1>1, RefuseCInv DEF AllocInode
<1>2. CASE ~Refuse("refused")
  <2> DEFINE g == loc.g
  <2>1. PICK i \in FreeInodeBits(g) :
            /\ image' = [image EXCEPT !.ibm[g] = image.ibm[g] \cup {i}]
            /\ loc' = [loc EXCEPT
                   !.ino = InoReturned(g, i),
                   !.d = DescAfterInode(image, @, image.ibm[g] \cup {i}, op.kind = "mkdir")]
            /\ pc' = "balloc" /\ UNCHANGED <<op, ret, hist>>
    BY <1>2 DEF AllocInode
  <2> DEFINE bits == image.ibm[g] \cup {i}
             d == DescAfterInode(image, loc.d, bits, op.kind = "mkdir")
  <2>2. /\ image \in Image /\ g \in Group /\ loc.d \in GroupDesc /\ loc \in Locals /\ pc = "ialloc"
        /\ i \notin image.ibm[g]
    BY DEF CInv, IInv, TypeOK, Locals, AllocInode, FreeInodeBits
  <2>3. /\ image'.csum = image.csum /\ image'.itab = image.itab /\ image'.blk = image.blk
        /\ image'.gd = image.gd /\ image'.sb = image.sb /\ image'.bbm = image.bbm
        /\ image'.ibm[g] = bits /\ \A h \in Group : h # g => image'.ibm[h] = image.ibm[h]
    BY <2>1, <2>2 DEF Image
  <2>4. SealsHold'
    BY <2>1, <2>3, BitmapSeals DEF CInv
  <2>5. /\ image.csum = "uuid" => d.ibSum = UuidSum(bits)
        /\ d.bbSum = loc.d.bbSum
    <3> HIDE DEF bits
    <3> QED BY <2>2 DEF DescAfterInode, GroupDesc, BitmapSeal, MetadataCsum, UuidSum
  <2> HIDE DEF d
  <2>6. loc'.g = g /\ loc'.d = d
    BY <2>1, <2>2 DEF Locals, d
  <2> HIDE DEF bits
  <2>7. Undisturbed' = Undisturbed
    BY <2>1 DEF Undisturbed
  <2>8. SumsHold'
    BY <2>1, <2>2, <2>3, <2>5, <2>6, <2>7 DEF CInv, SumsHold, Sums, UuidSum
  <2>9. image # image'
    BY <2>2, <2>3 DEF bits
  <2>10. BeforeHolds'
    BY <2>1, <2>2, <2>9 DEF CInv, BeforeHolds
  <2> QED BY <2>4, <2>8, <2>10 DEF CInv
<1> QED BY <1>1, <1>2

\* The block bitmap is written, and its sum made.
LEMMA AllocBlockCInv == ASSUME CInv, IInv', AllocBlock PROVE CInv'
<1>1. CASE Refuse("refused")
  BY <1>1, RefuseCInv DEF AllocBlock
<1>2. CASE ~Refuse("refused")
  <2> DEFINE g == loc.g
  <2>1. PICK i \in FreeBlockBits(g) :
            /\ image' = [image EXCEPT !.bbm[g] = image.bbm[g] \cup {i}]
            /\ loc' = [loc EXCEPT !.blk = BlkReturned(g, i),
                                  !.d = DescAfterBlock(image, @, image.bbm[g] \cup {i})]
            /\ pc' = "desc" /\ UNCHANGED <<op, ret, hist>>
    BY <1>2 DEF AllocBlock
  <2> DEFINE bits == image.bbm[g] \cup {i}
             d == DescAfterBlock(image, loc.d, bits)
  <2>2. /\ image \in Image /\ g \in Group /\ loc.d \in GroupDesc /\ loc \in Locals
        /\ pc = "balloc"
    BY DEF CInv, IInv, TypeOK, Locals, AllocBlock
  <2>3. /\ image'.csum = image.csum /\ image'.itab = image.itab /\ image'.blk = image.blk
        /\ image'.gd = image.gd /\ image'.sb = image.sb /\ image'.ibm = image.ibm
        /\ image'.bbm[g] = bits /\ \A h \in Group : h # g => image'.bbm[h] = image.bbm[h]
    BY <2>1, <2>2 DEF Image
  <2>4. SealsHold'
    BY <2>1, <2>3, BitmapSeals DEF CInv
  <2>5. /\ image.csum = "uuid" => d.bbSum = UuidSum(bits)
        /\ d.ibSum = loc.d.ibSum
    <3> HIDE DEF bits
    <3> QED BY <2>2 DEF DescAfterBlock, GroupDesc, BitmapSeal, MetadataCsum, UuidSum
  <2> HIDE DEF d
  <2>6. loc'.g = g /\ loc'.d = d
    BY <2>1, <2>2 DEF Locals, d
  <2> HIDE DEF bits
  <2>7. Undisturbed' = Undisturbed
    BY <2>1 DEF Undisturbed
  <2>8. SumsHold'
    BY <2>1, <2>2, <2>3, <2>5, <2>6, <2>7 DEF CInv, SumsHold, Sums, UuidSum
  <2>9. BeforeHolds'
    BY <2>1 DEF BeforeHolds
  <2> QED BY <2>4, <2>8, <2>9 DEF CInv
<1> QED BY <1>1, <1>2

\* The descriptor with both sums, and its own checksum, is written.
LEMMA WriteDescCInv == ASSUME CInv, IInv', WriteDesc PROVE CInv'
<1> DEFINE g == loc.g
           d == [loc.d EXCEPT !.seal = DescSeal(image, @)]
<1>1. /\ image \in Image /\ g \in Group /\ loc.d \in GroupDesc /\ pc = "desc"
      /\ image' = [image EXCEPT !.gd[g] = d] /\ pc' = "body"
      /\ UNCHANGED <<sb, op, loc, ret, hist>>
  BY DEF CInv, IInv, TypeOK, Locals, WriteDesc
<1>2. /\ d.ibSum = loc.d.ibSum /\ d.bbSum = loc.d.bbSum
      /\ image.csum = "uuid" => d.seal = "uuid"
  BY <1>1 DEF GroupDesc, DescSeal
<1> HIDE DEF d
<1>3. /\ image'.csum = image.csum /\ image'.itab = image.itab /\ image'.blk = image.blk
      /\ image'.sb = image.sb /\ image'.ibm = image.ibm /\ image'.bbm = image.bbm
      /\ \A h \in Group : image'.gd[h] = IF h = g THEN d ELSE image.gd[h]
  BY <1>1 DEF Image
<1>4. SealsHold'
  <2>1. /\ \A n : NodeAt(image', n) = NodeAt(image, n)
        /\ InUse(image') = InUse(image) /\ DirsOf(image') = DirsOf(image)
    BY <1>3 DEF NodeAt, InUse, DirsOf
  <2>2. TreeSealed(image) => TreeSealed(image')
    BY <1>3, <2>1 DEF TreeSealed
  <2> QED BY <1>1, <1>2, <1>3, <2>2 DEF CInv, SealsHold
<1>5. Undisturbed' = Undisturbed
  BY <1>1 DEF Undisturbed
<1>6. SumsHold'
  BY <1>1, <1>2, <1>3, <1>5 DEF CInv, SumsHold, Sums, UuidSum
<1>7. BeforeHolds'
  BY <1>1 DEF BeforeHolds
<1> QED BY <1>4, <1>6, <1>7 DEF CInv

-----------------------------------------------------------------------------
\* A step that writes a block, an inode or the superblock and no bitmap.
LEMMA ContentsCInv ==
    ASSUME CInv, IInv',
           image'.csum = image.csum, image'.gd = image.gd, image'.ibm = image.ibm,
           image'.bbm = image.bbm, hist'.kills = hist.kills, hist'.strands = hist.strands,
           pc \notin {"ialloc", "balloc", "desc"},
           pc' \in {"inode", "dirent", "parent", "oinode", "idle"},
           pc' = "idle" => hist'.before = image',
           image.csum = "uuid" =>
              /\ image'.sb.seal = "uuid"
              /\ TreeSealed(image')
              /\ pc' = "inode" /\ op'.kind = "mkdir" =>
                    image'.blk[loc'.blk].tail = UuidTail(loc'.ino)
    PROVE  CInv'
<1>1. SealsHold'
  BY DEF CInv, SealsHold, UuidTail
<1>2. SumsHold'
  BY DEF CInv, SumsHold, Sums, UuidSum, Undisturbed
<1>3. BeforeHolds'
  BY DEF BeforeHolds
<1> QED BY <1>1, <1>2, <1>3 DEF CInv

\* A block written with the checksum of the directory that maps it.
LEMMA BlockWriteSeals ==
    ASSUME NEW img \in Image, TreeSealed(img), NEW b, NEW x,
           \A d \in DirsOf(img) : b \in NodeAt(img, d).owns => x.tail = UuidTail(d)
    PROVE  TreeSealed([img EXCEPT !.blk[b] = x])
<1> DEFINE new == [img EXCEPT !.blk[b] = x]
<1>1. new.itab = img.itab /\ \A c \in BlockNums : new.blk[c] = IF c = b THEN x ELSE img.blk[c]
  BY DEF Image
<1>2. /\ \A n : NodeAt(new, n) = NodeAt(img, n)
      /\ InUse(new) = InUse(img) /\ DirsOf(new) = DirsOf(img)
  BY <1>1 DEF NodeAt, InUse, DirsOf
<1>3. \A n \in DirsOf(img) : NodeAt(img, n).owns \subseteq BlockNums
  BY NodeType DEF DirsOf, InUse, Inode
<1> HIDE DEF new
<1>4. ASSUME NEW n \in DirsOf(img), NEW c \in NodeAt(img, n).owns
      PROVE  new.blk[c].tail = UuidTail(n)
  <2>1. c \in BlockNums
    BY <1>3
  <2>2. CASE c = b
    BY <1>1, <2>1, <2>2
  <2>3. CASE c # b
    BY <1>1, <2>1, <2>3 DEF TreeSealed
  <2> QED BY <2>2, <2>3
<1>5. TreeSealed(new)
  BY <1>2, <1>4 DEF TreeSealed
<1> QED BY <1>5 DEF new

\* An inode written with its checksum, over none or over itself.
LEMMA InodeWriteSeals ==
    ASSUME NEW img \in Image, TreeSealed(img), NEW n \in InodeNums, NEW y,
           y.seal = "uuid", y.kind # "free",
           y.kind = "dir" => \A b \in y.owns : img.blk[b].tail = UuidTail(n)
    PROVE  TreeSealed([img EXCEPT !.itab[InodeSlot(n)] = y])
<1> DEFINE new == [img EXCEPT !.itab[InodeSlot(n)] = y]
<1>1. new.blk = img.blk /\ \A s \in Slots : new.itab[s] = IF s = InodeSlot(n) THEN y ELSE img.itab[s]
  BY DEF Image
<1> HIDE DEF new
<1>2. \A m \in InodeNums : NodeAt(new, m) = IF m = n THEN y ELSE NodeAt(img, m)
  BY <1>1, SlotInTables, SlotInjective DEF NodeAt
<1>3. ASSUME NEW m \in InUse(new) PROVE NodeAt(new, m).seal = "uuid"
  BY <1>2 DEF InUse, TreeSealed
<1>4. ASSUME NEW m \in DirsOf(new), NEW b \in NodeAt(new, m).owns
      PROVE  new.blk[b].tail = UuidTail(m)
  <2>1. m \in InodeNums
    BY DEF DirsOf, InUse
  <2>2. CASE m = n
    BY <1>1, <1>2, <1>4, <2>2 DEF DirsOf
  <2>3. CASE m # n
    <3>1. NodeAt(new, m) = NodeAt(img, m) /\ m \in DirsOf(img)
      BY <1>2, <2>1, <2>3 DEF DirsOf, InUse
    <3> QED BY <1>1, <1>4, <3>1 DEF TreeSealed
  <2> QED BY <2>2, <2>3
<1>5. TreeSealed(new)
  BY <1>3, <1>4 DEF TreeSealed
<1> QED BY <1>5 DEF new

\* The new block is nobody's yet; a directory's has its checksum.
LEMMA WriteBodyCInv == ASSUME CInv, IInv', WriteBody PROVE CInv'
<1> DEFINE b == loc.blk
           x == IF op.kind = "mkdir" THEN NewDirBlock(image, loc.ino, op.in.num)
                ELSE NewFileBlock(op.data)
<1>1. /\ IInv /\ image \in Image /\ pc = "body" /\ pc' = "inode"
      /\ image' = [image EXCEPT !.blk[b] = x]
      /\ UNCHANGED <<sb, op, loc, ret, hist>>
  BY DEF CInv, IInv, TypeOK, WriteBody
<1>2. b \in BlockNums
  BY <1>1, MakingHolds
<1>3. op.kind = "mkdir" /\ image.csum = "uuid" => x.tail = UuidTail(loc.ino)
  BY DEF NewDirBlock, TailSeal, MetadataCsum, UuidTail
<1> HIDE DEF x
<1>4. /\ image'.csum = image.csum /\ image'.gd = image.gd /\ image'.ibm = image.ibm
      /\ image'.bbm = image.bbm /\ image'.sb = image.sb /\ image'.blk[b] = x
  BY <1>1, <1>2 DEF Image
<1>5. image.csum = "uuid" => TreeSealed(image')
  <2>1. \A n \in DirsOf(image) : b \notin NodeAt(image, n).owns
    BY <1>1 DEF IInv, BlockHolds, OwnedBy, DirsOf
  <2> QED BY <1>1, <2>1, BlockWriteSeals DEF CInv, SealsHold
<1> QED BY <1>1, <1>3, <1>4, <1>5, ContentsCInv DEF CInv, SealsHold

\* A sealed handle's raw inode has the checksum, the rest is as it was.
LEMMA SealedSeals ==
    ASSUME NEW img, img.csum = "uuid", NEW in \in Handle
    PROVE  /\ Sealed(img, in).raw.seal = "uuid"
           /\ Sealed(img, in).raw.kind = in.raw.kind
           /\ Sealed(img, in).raw.owns = in.raw.owns
BY DEF Sealed, MetaSeal, MetadataCsum, Handle, Inode

\* Writing an inode leaves the rest of the image.
LEMMA InodeWriteLeaves ==
    ASSUME NEW img \in Image, NEW in
    PROVE  LET new == WriteInodeTo(img, in) IN
           /\ new.csum = img.csum /\ new.gd = img.gd /\ new.ibm = img.ibm
           /\ new.bbm = img.bbm /\ new.sb = img.sb /\ new.blk = img.blk
BY DEF WriteInodeTo, Image

\* Writing a handle of an inode in use keeps what is sealed.
LEMMA RewriteSeals ==
    ASSUME NEW img \in Image, TreeSealed(img), img.csum = "uuid", NEW in, NEW n,
           RewroteInode(img, in, n)
    PROVE  TreeSealed(WriteInodeTo(img, in))
<1> DEFINE y == Sealed(img, in).raw
<1>1. in \in Handle /\ in.num = n /\ n \in InUse(img) /\ n \in InodeNums
  BY DEF RewroteInode, InUse
<1>2. y.seal = "uuid" /\ y.kind = NodeAt(img, n).kind /\ y.owns = NodeAt(img, n).owns
  BY <1>1, SealedSeals DEF RewroteInode
<1>3. WriteInodeTo(img, in) = [img EXCEPT !.itab[InodeSlot(n)] = y]
  BY <1>1 DEF WriteInodeTo
<1> HIDE DEF y
<1>4. y.kind = "dir" => \A b \in y.owns : img.blk[b].tail = UuidTail(n)
  BY <1>1, <1>2 DEF TreeSealed, DirsOf
<1>5. y.kind # "free"
  BY <1>1, <1>2 DEF InUse
<1> QED BY <1>1, <1>2, <1>3, <1>4, <1>5, InodeWriteSeals

\* The new inode has its checksum; a new directory's block has got it.
LEMMA WriteInodeCInv == ASSUME CInv, IInv', WriteInode PROVE CInv'
<1> DEFINE n == loc.ino
           y == Sealed(image, NewInode).raw
<1>1. /\ IInv /\ TypeOK /\ image \in Image /\ pc = "inode" /\ pc' = "dirent"
      /\ image' = WriteInodeTo(image, NewInode)
      /\ UNCHANGED <<sb, op, loc, ret, hist>>
  BY DEF CInv, IInv, TypeOK, WriteInode
<1>2. /\ n \in InodeNums /\ loc.blk \in BlockNums
      /\ op.kind = "mkdir" \/ (op.kind = "create" /\ op.data \in Data)
  BY <1>1, MakingHolds DEF Making
<1>3. /\ NewInode \in Handle /\ NewInode.num = n
      /\ NewInode.raw.kind = IF op.kind = "mkdir" THEN "dir" ELSE "file"
      /\ NewInode.raw.owns = {loc.blk}
  BY <1>1, <1>2, NewInodeType
<1>4. image' = [image EXCEPT !.itab[InodeSlot(n)] = y]
  BY <1>1, <1>3 DEF WriteInodeTo
<1>5. image.csum = "uuid" =>
          y.seal = "uuid" /\ y.kind = NewInode.raw.kind /\ y.owns = {loc.blk}
  BY <1>3, SealedSeals
<1> HIDE DEF y
<1>6. image.csum = "uuid" => TreeSealed(image')
  <2> SUFFICES ASSUME image.csum = "uuid" PROVE TreeSealed(image')
    OBVIOUS
  <2>1. op.kind = "mkdir" => image.blk[loc.blk].tail = UuidTail(n)
    BY <1>1 DEF CInv, SealsHold
  <2>2. TreeSealed(image)
    BY DEF CInv, SealsHold
  <2>3. y.kind # "free" /\ (y.kind = "dir" => op.kind = "mkdir")
    BY <1>3, <1>5
  <2> QED BY <1>1, <1>2, <1>4, <1>5, <2>1, <2>2, <2>3, InodeWriteSeals
<1> QED BY <1>1, <1>6, InodeWriteLeaves, ContentsCInv DEF CInv, SealsHold

\* The history an operation leaves when it returns.
LEMMA ReturnHistory ==
    ASSUME IInv, NEW in, Return(in)
    PROVE  /\ pc' = "idle" /\ hist'.before = image'
           /\ hist'.kills = hist.kills /\ hist'.strands = hist.strands
BY DEF IInv, TypeOK, Histories, Return

\* The directory's block is written with its checksum.
LEMMA AddDirentCInv == ASSUME CInv, IInv', AddDirent PROVE CInv'
<1>1. CASE Refuse("refused")
  BY <1>1, RefuseCInv DEF AddDirent
<1>2. CASE ~Refuse("refused")
  <2> DEFINE b == op.in.raw.blk
             old == image.blk[b]
             ents == WithDirent(old.ents, loc.ino, op.name, NewInode.raw.kind)
             tail == TailSeal(image, old.tail, op.in.num)
             x == [old EXCEPT !.ents = ents, !.tail = tail]
  <2>1. /\ IInv /\ image \in Image /\ pc = "dirent"
        /\ image' = [image EXCEPT !.blk[b] = x] /\ UNCHANGED sb
        /\ IF op.kind = "mkdir"
           THEN pc' = "parent" /\ UNCHANGED <<op, loc, ret, hist>>
           ELSE Return(Sealed(image, NewInode))
    BY <1>2 DEF CInv, IInv, TypeOK, AddDirent
  <2>2. op.in.raw.single
    BY <2>1 DEF IInv, ArgumentsHold, Making
  <2>3. op.in.num \in DirsOf(image) /\ op.in.raw = NodeAt(image, op.in.num)
    BY <2>1, MakingHolds DEF Making
  <2>4. b \in BlockNums
    <3>1. b \in NodeAt(image, op.in.num).owns /\ op.in.num \in InodeNums
      BY <2>1, <2>2, <2>3 DEF IInv, ExtentsOwned, DirsOf, InUse
    <3> QED BY <3>1, <2>1, NodeType DEF Inode
  <2>5. image.csum = "uuid" => tail = UuidTail(op.in.num)
    BY DEF TailSeal, MetadataCsum, UuidTail
  <2> HIDE DEF ents, tail
  <2>6. x.tail = tail
    BY <2>1, <2>4 DEF Image, Block
  <2> HIDE DEF x
  <2>7. /\ image'.csum = image.csum /\ image'.gd = image.gd /\ image'.ibm = image.ibm
        /\ image'.bbm = image.bbm /\ image'.sb = image.sb
    BY <2>1 DEF Image
  <2>8. image.csum = "uuid" => TreeSealed(image')
    <3>1. ASSUME image.csum = "uuid", NEW d \in DirsOf(image), b \in NodeAt(image, d).owns
          PROVE  x.tail = UuidTail(d)
      <4>1. d = op.in.num
        BY <2>1, <2>2, <3>1, HandleBlockIsOurs DEF DirsOf
      <4> QED BY <2>5, <2>6, <3>1, <4>1
    <3> QED BY <2>1, <3>1, BlockWriteSeals DEF CInv, SealsHold
  <2>9. /\ hist'.kills = hist.kills /\ hist'.strands = hist.strands
        /\ \/ pc' = "parent"
           \/ pc' = "idle" /\ hist'.before = image'
    BY <2>1, ReturnHistory
  <2> QED BY <2>1, <2>7, <2>8, <2>9, ContentsCInv DEF CInv, SealsHold
<1> QED BY <1>1, <1>2

\* The last write of an operation: an inode in use, with its checksum.
LEMMA LastWriteCInv ==
    ASSUME CInv, IInv', pc \in {"parent", "oinode"}, NEW in, NEW n, NEW out,
           RewroteInode(image, in, n), image' = WriteInodeTo(image, in), Return(out)
    PROVE  CInv'
<1>1. IInv /\ image \in Image
  BY DEF CInv, IInv, TypeOK
<1>2. image.csum = "uuid" => TreeSealed(image')
  BY <1>1, RewriteSeals DEF CInv, SealsHold
<1>3. /\ pc' = "idle" /\ hist'.before = image'
      /\ hist'.kills = hist.kills /\ hist'.strands = hist.strands
  BY <1>1, ReturnHistory
<1> QED BY <1>1, <1>2, <1>3, InodeWriteLeaves, ContentsCInv DEF CInv, SealsHold

\* The parent's inode is written with its checksum.
LEMMA WriteParentCInv == ASSUME CInv, IInv', WriteParent PROVE CInv'
<1> DEFINE links == (op.in.raw.links + 1) % 65536
           in == [op.in EXCEPT !.raw.links = links]
<1>1. /\ IInv /\ pc = "parent" /\ image' = WriteInodeTo(image, in)
      /\ Return(Sealed(image, NewInode))
  BY DEF CInv, WriteParent
<1>2. op.in.num \in InUse(image) /\ op.in.raw = NodeAt(image, op.in.num)
  BY <1>1, MakingHolds DEF Making, DirsOf
<1>3. op.in \in Handle /\ op.in.raw \in Inode
  BY <1>1 DEF IInv, TypeOK, Operations, Handle
<1>4. links \in Nat
  <2>1. op.in.raw.links \in Nat
    BY <1>3 DEF Inode
  <2> QED BY <2>1, SMT
<1> HIDE DEF links
<1>5. RewroteInode(image, in, op.in.num)
  BY <1>2, <1>3, <1>4 DEF RewroteInode, Handle, Inode
<1> HIDE DEF in
<1> QED BY <1>1, <1>5, LastWriteCInv

\* So is the inode of a file overwritten.
LEMMA OverwriteInodeCInv == ASSUME CInv, IInv', OverwriteInode PROVE CInv'
<1> DEFINE in == [op.in EXCEPT !.raw.size = DataLen[op.data]]
<1>1. /\ IInv /\ pc = "oinode" /\ image' = WriteInodeTo(image, in) /\ Return(Sealed(image, in))
  BY DEF CInv, OverwriteInode
<1>2. op.in = ReadInode(image, op.in.num) /\ op.in.raw.kind # "free" /\ op.data \in Data
  BY <1>1 DEF IInv, ArgumentsHold, Overwriting
<1>3. op.in \in Handle /\ op.in.raw \in Inode /\ op.in.num \in InodeNums
  BY <1>1 DEF IInv, TypeOK, Operations, Handle
<1>4. op.in.raw = NodeAt(image, op.in.num) /\ op.in.num \in InUse(image)
      /\ DataLen[op.data] \in Nat
  BY <1>2, <1>3, NamesAssumption DEF ReadInode, InUse
<1>5. RewroteInode(image, in, op.in.num)
  BY <1>3, <1>4 DEF RewroteInode, Handle, Inode
<1> HIDE DEF in
<1> QED BY <1>1, <1>5, LastWriteCInv

\* A file's block has no checksum, and no directory maps it.
LEMMA OverwriteDataCInv == ASSUME CInv, IInv', OverwriteData PROVE CInv'
<1>1. CASE Refuse("refused")
  BY <1>1, RefuseCInv DEF OverwriteData
<1>2. CASE ~Refuse("refused")
  <2> DEFINE b == op.in.raw.blk
             x == NewFileBlock(op.data)
  <2>1. /\ IInv /\ image \in Image /\ pc = "odata" /\ ~OverwriteRefused
        /\ image' = [image EXCEPT !.blk[b] = x] /\ pc' = "oinode"
        /\ UNCHANGED <<sb, op, loc, ret, hist>>
    BY <1>2 DEF CInv, IInv, TypeOK, OverwriteData
  <2> HIDE DEF x
  <2>2. op.in.raw.single /\ op.in.num \notin DirsOf(image)
    <3>1. op.in.raw = NodeAt(image, op.in.num)
      BY <2>1 DEF IInv, ArgumentsHold, Overwriting, ReadInode
    <3> QED BY <2>1, <3>1 DEF OverwriteRefused, DirsOf
  <2>3. \A d \in DirsOf(image) : b \notin NodeAt(image, d).owns
    BY <2>1, <2>2, HandleBlockIsOurs DEF DirsOf
  <2>4. image.csum = "uuid" => TreeSealed(image')
    BY <2>1, <2>3, BlockWriteSeals DEF CInv, SealsHold
  <2>5. /\ image'.csum = image.csum /\ image'.gd = image.gd /\ image'.ibm = image.ibm
        /\ image'.bbm = image.bbm /\ image'.sb = image.sb
    BY <2>1 DEF Image
  <2> QED BY <2>1, <2>4, <2>5, ContentsCInv DEF CInv, SealsHold
<1> QED BY <1>1, <1>2

\* The superblock is written with its checksum.
LEMMA SyncCInv == ASSUME CInv, IInv', Sync PROVE CInv'
<1> DEFINE s == [sb EXCEPT !.seal = SbSeal(image, @)]
<1>1. /\ IInv /\ image \in Image /\ sb \in Counters /\ hist \in Histories
      /\ pc = "idle" /\ pc' = "idle"
      /\ image' = [image EXCEPT !.sb = s] /\ hist' = [hist EXCEPT !.before = image']
      /\ UNCHANGED <<op, loc>>
  BY DEF CInv, IInv, TypeOK, Sync
<1>2. image.csum = "uuid" => s.seal = "uuid"
  BY <1>1 DEF Counters, SbSeal, MetadataCsum
<1> HIDE DEF s
<1>3. /\ image'.csum = image.csum /\ image'.gd = image.gd /\ image'.ibm = image.ibm
      /\ image'.bbm = image.bbm /\ image'.sb = s /\ image'.blk = image.blk
      /\ image'.itab = image.itab
  BY <1>1 DEF Image
<1>4. TreeSealed(image) => TreeSealed(image')
  BY <1>3 DEF TreeSealed, NodeAt, InUse, DirsOf
<1>5. hist'.before = image' /\ hist'.kills = hist.kills /\ hist'.strands = hist.strands
  BY <1>1 DEF Histories
<1> QED BY <1>1, <1>2, <1>3, <1>4, <1>5, ContentsCInv DEF CInv, SealsHold

\* Every step keeps it.
LEMMA NextCInv == CInv /\ [Next]_vars => CInv'
<1> SUFFICES ASSUME CInv, [Next]_vars PROVE CInv'
  OBVIOUS
<1>1. IInv' /\ hist \in Histories
  BY NextIInv DEF CInv, IInv, TypeOK
<1>2. CASE Step
  <2>1. CASE LookupName
    BY <1>1, <2>1, RefuseCInv, ReadCInv DEF LookupName
  <2> QED BY <1>1, <1>2, <2>1, PickCInv, AllocInodeCInv, AllocBlockCInv, WriteDescCInv,
          WriteBodyCInv, WriteInodeCInv, AddDirentCInv, WriteParentCInv, OverwriteDataCInv,
          OverwriteInodeCInv DEF Step
<1>3. CASE Caller
  <2>1. CASE OpenFS
    BY <1>1, <2>1, ReadCInv DEF OpenFS
  <2>2. CASE Close
    BY <1>1, <2>2, CloseCInv DEF Close
  <2>3. ASSUME NEW kind, NEW in, NEW name, NEW data, NEW first \in {"lookup", "odata"},
               Call(kind, in, name, data, first)
        PROVE  CInv'
    <3>1. /\ hist' = [hist EXCEPT !.calls = @ + 1] /\ image' = image
          /\ pc = "idle" /\ pc' = first
      BY <2>3 DEF Call
    <3>2. /\ hist'.before = hist.before /\ hist'.kills = hist.kills
          /\ hist'.strands = hist.strands
      BY <1>1, <3>1 DEF Histories
    <3> QED BY <1>1, <3>1, <3>2, ReadCInv
  <2> QED BY <1>1, <1>3, <2>1, <2>2, <2>3, SyncCInv
          DEF Caller, CallMkdir, CallCreateFile, CallOverwrite
<1>4. CASE Kill
  BY <1>1, <1>4, KillCInv
<1>5. CASE UNCHANGED vars
  <2>1. Undisturbed' = Undisturbed
    BY <1>5 DEF vars, Undisturbed
  <2>2. SealsHold'
    BY <1>5, QuietSeals DEF vars, CInv
  <2>3. SumsHold'
    BY <1>5, <2>1 DEF vars, CInv, SumsHold, Sums, UuidSum
  <2>4. BeforeHolds'
    BY <1>5 DEF vars, CInv, BeforeHolds
  <2> QED BY <1>1, <2>2, <2>3, <2>4 DEF CInv
<1> QED BY <1>2, <1>3, <1>4, <1>5 DEF Next

\* From images whose checksums are right and made from the UUID, what is in
\* use stays sealed whatever is interrupted, and the sums are ahead of the disk
\* only while an operation is between a bitmap and its descriptor.
THEOREM ChecksumsInvariance == StartsSealed => (Spec => []CInv)
<1>1. StartsSealed /\ Init => CInv
  BY InitCInv
<1> QED BY <1>1, NextCInv, PTL DEF Spec

\* Where nothing is in progress the sums are those on disk.
LEMMA SealedBetween == CInv => ChecksumsBetweenOperations
<1> SUFFICES ASSUME CInv, pc \in {"closed", "idle"}, Undisturbed PROVE ChecksumsValid(image)
  BY DEF ChecksumsBetweenOperations
<1>1. CASE image.csum = "none"
  BY <1>1 DEF ChecksumsValid, MetadataCsum
<1>2. CASE image.csum = "uuid"
  BY <1>2 DEF CInv, SealsHold, SumsHold, Sums, TreeSealed, UuidTail, UuidSum,
              ChecksumsValid, SealedAs, MetadataCsum
<1> QED BY <1>1, <1>2 DEF CInv, SealsHold

\* Every checksum the features ask for is right between operations that
\* nothing interrupted.
THEOREM ChecksumsSafe == StartsSealed => (Spec => []ChecksumsBetweenOperations)
BY SealedBetween, ChecksumsInvariance, PTL

-----------------------------------------------------------------------------
(* What lookup finds.                                                      *)

\* An image whose references resolve.
Good(img) == img \in Image /\ LinksResolve(img)

\* A directory that lookup can read, and its records.
Walkable(img, n) ==
    NodeAt(img, n).kind = "dir" /\ NodeAt(img, n).single /\ ~NodeAt(img, n).htree
Records(img, n) == img.blk[NodeAt(img, n).blk].ents

\* The inode of the first record that has the name.
Found(ents, name) ==
    LET hits == {i \in DOMAIN ents : Named(ents[i], name)}
    IN  IF hits = {} THEN 0 ELSE ents[Min(hits)].ino

\* Lookup reads the inode's records and nothing else.
LEMMA LookupReads ==
    ASSUME NEW img, NEW n, NEW name
    PROVE  Lookup(img, ReadInode(img, n), name) = Found(Records(img, n), name)
BY DEF Lookup, ReadInode, Found, Records

\* What is not unwalkable can be walked.
LEMMA WalkableIs == ASSUME NEW img, NEW n PROVE ~Unwalkable(img, n) <=> Walkable(img, n)
BY DEF Unwalkable, Walkable, LookupRefused, ReadInode

\* The least number of a set is one of the set.
LEMMA MinIn == ASSUME NEW T \in SUBSET Nat, T # {} PROVE Min(T) \in T /\ \A m \in T : Min(T) <= m
BY Least DEF Min

\* What is found is a record with the name.
LEMMA FoundIs ==
    ASSUME NEW ents \in Seq(Dirent), NEW name, Found(ents, name) # 0
    PROVE  \E i \in DOMAIN ents : Named(ents[i], name) /\ ents[i].ino = Found(ents, name)
<1> DEFINE hits == {i \in DOMAIN ents : Named(ents[i], name)}
<1>1. hits \in SUBSET Nat
  BY LenProperties
<1>2. hits # {} /\ Found(ents, name) = ents[Min(hits)].ino
  BY DEF Found
<1>3. Min(hits) \in hits
  BY <1>1, <1>2, MinIn
<1> QED BY <1>2, <1>3

\* A directory that can be walked has its records in a block of its own.
LEMMA WalkableHas ==
    ASSUME NEW img, Good(img), NEW n \in InodeNums, Walkable(img, n)
    PROVE  /\ n \in DirsOf(img) /\ n \in InUse(img)
           /\ NodeAt(img, n).blk \in NodeAt(img, n).owns /\ NodeAt(img, n).blk \in BlockNums
           /\ Records(img, n) \in Seq(Dirent)
<1>1. n \in DirsOf(img) /\ n \in InUse(img) /\ img \in Image
  BY DEF Walkable, DirsOf, InUse, Good
<1>2. NodeAt(img, n).blk \in NodeAt(img, n).owns
  BY <1>1 DEF Walkable, Good, LinksResolve, ExtentsOwned
<1>3. NodeAt(img, n).blk \in BlockNums
  BY <1>1, <1>2, NodeType DEF Inode
<1> QED BY <1>1, <1>2, <1>3 DEF Records, Image, Block

\* A name found in a directory leads to an inode in use.
LEMMA LookupFinds ==
    ASSUME NEW img, Good(img), NEW n \in InodeNums, Walkable(img, n), NEW name,
           Lookup(img, ReadInode(img, n), name) # 0
    PROVE  /\ \E e \in Entries(img, n) :
                  e.name = name /\ e.ino = Lookup(img, ReadInode(img, n), name)
           /\ Lookup(img, ReadInode(img, n), name) \in InUse(img)
<1> DEFINE ents == Records(img, n)
           ino == Found(ents, name)
<1>1. ino # 0 /\ ino = Lookup(img, ReadInode(img, n), name)
  BY LookupReads
<1>2. /\ n \in DirsOf(img) /\ NodeAt(img, n).blk \in NodeAt(img, n).owns
      /\ ents \in Seq(Dirent)
  BY WalkableHas
<1>3. PICK i \in DOMAIN ents : Named(ents[i], name) /\ ents[i].ino = ino
  BY <1>1, <1>2, FoundIs
<1>4. ents[i] \in ToSet(ents) /\ ents[i].ino # 0 /\ ents[i].name = name
  BY <1>3 DEF ToSet, Named
<1>5. ents[i] \in Entries(img, n)
  BY <1>2, <1>4 DEF Entries, Records
<1>6. ino \in InUse(img)
  BY <1>2, <1>3, <1>5 DEF Good, LinksResolve, RecordsLead
<1> QED BY <1>1, <1>3, <1>4, <1>5, <1>6

\* Two records that lookup takes for the same.
Alike(e, f) == e.ino = f.ino /\ e.name = f.name /\ e.nlen = f.nlen

\* A record at the end of those that were, or in the place of an unused one at
\* their end, is found only where nothing was.
LEMMA FoundGrows ==
    ASSUME NEW ents \in Seq(Dirent), NEW after, NEW t \in Nat,
           t \in {Len(ents), Len(ents) + 1}, t # 0, DOMAIN after = 1 .. t,
           \A i \in 1 .. t - 1 : Alike(after[i], ents[i]),
           t = Len(ents) => ents[t].ino = 0,
           NEW name
    PROVE  /\ Found(ents, name) # 0 => Found(after, name) = Found(ents, name)
           /\ Found(ents, name) = 0 =>
                 Found(after, name) = IF Named(after[t], name) THEN after[t].ino ELSE 0
<1> DEFINE before == {i \in DOMAIN ents : Named(ents[i], name)}
           hits == {i \in DOMAIN after : Named(after[i], name)}
           n == Len(ents)
<1>1. /\ n \in Nat /\ DOMAIN ents = 1 .. n /\ t \in {n, n + 1}
      /\ t = n => ents[t].ino = 0
  BY LenProperties
<1> HIDE DEF n
<1>2. before \in SUBSET Nat /\ hits \in SUBSET Nat
  <2>1. before \subseteq DOMAIN ents /\ hits \subseteq DOMAIN after
    OBVIOUS
  <2> HIDE DEF before, hits
  <2> QED BY <1>1, <2>1
<1>3. before \subseteq 1 .. t - 1
  <2> SUFFICES ASSUME NEW i \in before PROVE i \in 1 .. t - 1
    OBVIOUS
  <2>1. i \in 1 .. n /\ ents[i].ino # 0
    BY <1>1 DEF Named
  <2> HIDE DEF before
  <2>2. t = n => i # t
    BY <1>1, <2>1
  <2> QED BY <1>1, <2>1, <2>2
<1>4. \A i \in 1 .. t - 1 : i \in hits <=> i \in before
  <2>1. \A i \in 1 .. t - 1 : i \in DOMAIN after /\ i \in DOMAIN ents
    BY <1>1
  <2> QED BY <2>1 DEF Named, Alike
<1>5. t \in DOMAIN after /\ hits \subseteq before \cup {t}
  <2>1. \A i \in DOMAIN after : i = t \/ i \in 1 .. t - 1
    OBVIOUS
  <2> QED BY <1>4, <2>1
<1>6. /\ Found(ents, name) = IF before = {} THEN 0 ELSE ents[Min(before)].ino
      /\ Found(after, name) = IF hits = {} THEN 0 ELSE after[Min(hits)].ino
  BY DEF Found
<1>7. t \in hits <=> Named(after[t], name)
  BY <1>5
<1>8. before # {} => Min(before) \in before /\ ents[Min(before)].ino # 0
  BY <1>2, MinIn DEF Named
<1> HIDE DEF before, hits
<1>9. CASE before # {}
  <2> DEFINE m == Min(before)
             k == Min(hits)
  <2>1. m \in before /\ m \in 1 .. t - 1 /\ m \in hits /\ \A i \in before : m <= i
    BY <1>2, <1>3, <1>4, <1>9, MinIn
  <2>2. k \in hits /\ \A i \in hits : k <= i
    BY <1>2, <2>1, MinIn
  <2> HIDE DEF m, k
  <2>3. k = m
    <3>1. k <= m /\ m < t /\ k \in Nat /\ m \in Nat
      BY <1>2, <2>1, <2>2
    <3>2. k # t
      BY <3>1
    <3>3. k \in before
      BY <1>5, <2>2, <3>2
    <3> QED BY <2>1, <3>1, <3>3
  <2>4. after[m].ino = ents[m].ino
    BY <2>1 DEF Alike
  <2> QED BY <1>6, <1>8, <1>9, <2>1, <2>3, <2>4 DEF m, k
<1>10. CASE before = {}
  <2>1. Found(ents, name) = 0
    BY <1>6, <1>10
  <2>2. CASE Named(after[t], name)
    <3>1. hits = {t}
      BY <1>5, <1>7, <1>10, <2>2
    <3>2. Min(hits) = t
      BY <1>2, <3>1, MinIn
    <3> QED BY <1>6, <2>1, <2>2, <3>1, <3>2
  <2>3. CASE ~Named(after[t], name)
    <3>1. hits = {}
      BY <1>5, <1>7, <1>10, <2>3
    <3> QED BY <1>6, <2>1, <2>3, <3>1
  <2> QED BY <2>2, <2>3
<1> QED BY <1>9, <1>10

\* addDirent shortens the last record or takes it over when it is unused.
LEMMA WithDirentShape ==
    ASSUME NEW ents \in Seq(Dirent), Len(ents) > 0, NEW ino, NEW name, NEW ftype,
           NEW after, after = WithDirent(ents, ino, name, ftype)
    PROVE  \E t \in Nat :
              /\ t \in {Len(ents), Len(ents) + 1} /\ t # 0 /\ DOMAIN after = 1 .. t
              /\ \A i \in 1 .. t - 1 : Alike(after[i], ents[i])
              /\ t = Len(ents) => ents[t].ino = 0
              /\ after[t].ino = ino /\ after[t].name = name
              /\ after[t].nlen = NameLen[name] % 256
<1> DEFINE last == Last(ents)
           used == UsedLen(last)
           new  == NewDirent(ino, name, last.rec - used, ftype)
           shrunk == [last EXCEPT !.rec = used]
           n == Len(ents) - 1
<1>1. n \in Nat /\ Len(ents) = n + 1 /\ last = ents[n + 1] /\ last \in Dirent
  <2>1. Len(ents) \in Nat
    BY LenProperties
  <2>2. last = ents[Len(ents)] /\ ents[Len(ents)] \in Dirent
    BY <2>1, ElementOfSeq DEF Last
  <2> QED BY <2>1, <2>2
<1>2. /\ Front(ents) \in Seq(Dirent) /\ Len(Front(ents)) = n
      /\ \A k \in 1 .. n : Front(ents)[k] = ents[k]
  <2>1. \A k \in 1 .. n : ents[k] \in Dirent
    BY <1>1, ElementOfSeq
  <2>2. Front(ents) = SubSeq(ents, 1, n)
    BY DEF Front
  <2> HIDE DEF n
  <2>3. /\ SubSeq(ents, 1, n) \in Seq(Dirent)
        /\ Len(SubSeq(ents, 1, n)) = IF 1 <= n THEN n - 1 + 1 ELSE 0
        /\ \A k \in 1 .. n - 1 + 1 : SubSeq(ents, 1, n)[k] = ents[1 + k - 1]
    BY <1>1, <2>1, SubSeqProperties
  <2> QED BY <1>1, <2>2, <2>3
<1>3. /\ Alike(shrunk, last)
      /\ new.ino = ino /\ new.name = name /\ new.nlen = NameLen[name] % 256
  BY <1>1 DEF Dirent, NewDirent, Alike
<1>4. last.ino # 0 => used # 0
  BY <1>1, UsedNotZero
<1>5. \/ used = 0 /\ after = Front(ents) \o <<new>>
      \/ used # 0 /\ after = Front(ents) \o <<shrunk, new>>
  BY DEF WithDirent
<1> HIDE DEF new, shrunk, n, used, last
<1>6. CASE used = 0
  <2>1. /\ DOMAIN after = 1 .. n + 1 /\ after[n + 1] = new
        /\ \A i \in 1 .. n : after[i] = ents[i]
    BY <1>1, <1>2, <1>5, <1>6
  <2> QED BY <1>1, <1>3, <1>4, <1>6, <2>1 DEF Alike
<1>7. CASE used # 0
  <2>1. /\ DOMAIN after = 1 .. n + 2 /\ after[n + 2] = new /\ after[n + 1] = shrunk
        /\ \A i \in 1 .. n : after[i] = ents[i]
    BY <1>1, <1>2, <1>5, <1>7
  <2>2. \A i \in 1 .. n + 1 : Alike(after[i], ents[i])
    BY <1>1, <1>3, <2>1 DEF Alike
  <2> DEFINE t == n + 2
  <2>3. t \in Nat /\ t = Len(ents) + 1 /\ t - 1 = n + 1 /\ t # 0 /\ t # Len(ents)
    BY <1>1
  <2>4. DOMAIN after = 1 .. t /\ after[t] = new /\ \A i \in 1 .. t - 1 : Alike(after[i], ents[i])
    BY <2>1, <2>2, <2>3
  <2> HIDE DEF t
  <2> QED BY <1>3, <2>3, <2>4
<1> QED BY <1>6, <1>7

\* The new record is found under its name unless another is, and under no
\* other name.
LEMMA WithDirentFinds ==
    ASSUME NEW ents \in Seq(Dirent), Len(ents) > 0, NEW ino \in InodeNums, NEW name \in Names,
           NEW ftype, NEW after, after = WithDirent(ents, ino, name, ftype), NEW m
    PROVE  /\ Found(ents, m) # 0 => Found(after, m) = Found(ents, m)
           /\ Found(ents, m) = 0 => Found(after, m) \in {0, ino}
           /\ Found(ents, m) = 0 /\ m = name /\ NameLen[name] < 256 => Found(after, m) = ino
<1>1. PICK t \in Nat :
              /\ t \in {Len(ents), Len(ents) + 1} /\ t # 0 /\ DOMAIN after = 1 .. t
              /\ \A i \in 1 .. t - 1 : Alike(after[i], ents[i])
              /\ t = Len(ents) => ents[t].ino = 0
              /\ after[t].ino = ino /\ after[t].name = name
              /\ after[t].nlen = NameLen[name] % 256
  BY WithDirentShape
<1>2. /\ Found(ents, m) # 0 => Found(after, m) = Found(ents, m)
      /\ Found(ents, m) = 0 => Found(after, m) = IF Named(after[t], m) THEN after[t].ino ELSE 0
  <2>1. /\ t \in {Len(ents), Len(ents) + 1} /\ t # 0 /\ DOMAIN after = 1 .. t
        /\ \A i \in 1 .. t - 1 : Alike(after[i], ents[i])
        /\ t = Len(ents) => ents[t].ino = 0
    BY <1>1
  <2> QED BY <2>1, FoundGrows
<1>3. NameLen[name] < 256 => NameLen[name] % 256 = NameLen[name]
  <2>1. NameLen[name] \in Nat
    BY NamesAssumption
  <2> QED BY <2>1, SMT
<1>4. ino # 0
  BY DEF InodeNums
<1>5. m = name /\ NameLen[name] < 256 => Named(after[t], m)
  BY <1>1, <1>3, <1>4 DEF Named
<1> QED BY <1>1, <1>2, <1>5

-----------------------------------------------------------------------------
(* Success.  What an operation promises holds when names fit in a record's *)
(* eight bits of length and no file it may overwrite is an unwritten       *)
(* extent: addDirent and Overwrite look at neither.                        *)

\* What has been made is what was asked for: the block, then the inode over
\* it, then its record in the directory.
MadeHolds ==
    /\ pc \in Making => op.name \in PathNames
    /\ pc = "parent" => op.kind = "mkdir"
    /\ pc = "inode" /\ op.kind = "create" => image.blk[loc.blk].data = op.data
    /\ pc \in {"dirent", "parent"} =>
          /\ loc.ino # op.in.num
          /\ NodeAt(image, loc.ino) = Sealed(image, NewInode).raw
          /\ op.kind = "create" => image.blk[loc.blk].data = op.data
          /\ op.kind = "mkdir" =>
                image.blk[loc.blk].ents = NewDirBlock(image, loc.ino, op.in.num).ents
    /\ pc = "parent" =>
          /\ \E e \in Children(image, op.in.num) : e.ino = loc.ino
          /\ NamesFit => Lookup(image, op.in, op.name) = loc.ino

\* Nothing is returned before the end, and what is overwritten has the data.
ResultHolds ==
    /\ pc \notin {"closed", "idle"} => ret.status = "none"
    /\ pc \in Overwriting => op.kind = "overwrite"
    /\ pc = "oinode" => image.blk[op.in.raw.blk].data = op.data

SInv ==
    /\ IInv
    /\ StartsWithoutHoles => NoHoles(image)
    /\ MadeHolds
    /\ ResultHolds

\* No operation is running at first.
LEMMA InitSInv == Init => SInv
<1> SUFFICES ASSUME Init PROVE SInv
  OBVIOUS
<1>1. pc = "closed" /\ image \in InitialImages
  BY DEF Init
<1>2. IInv
  BY InitIInv
<1> QED BY <1>1, <1>2 DEF SInv, MadeHolds, ResultHolds, StartsWithoutHoles, Making, Overwriting

\* Where the inodes stay, no file becomes a hole.
LEMMA QuietNoHoles ==
    ASSUME NEW img, NEW new, new.itab = img.itab, NoHoles(img) PROVE NoHoles(new)
BY DEF NoHoles, InUse, NodeAt

\* Nor when an inode that is none is written.
LEMMA InodeWriteNoHoles ==
    ASSUME NEW img \in Image, NEW n \in InodeNums, NEW x, NoHoles(img),
           x.kind = "file" /\ x.single => ~x.hole
    PROVE  NoHoles([img EXCEPT !.itab[InodeSlot(n)] = x])
<1> DEFINE new == [img EXCEPT !.itab[InodeSlot(n)] = x]
<1>1. NodeAt(new, n) = x
  BY SlotInTables DEF Image, NodeAt
<1>2. \A m \in InodeNums : m # n => NodeAt(new, m) = NodeAt(img, m)
  BY SlotInTables, SlotInjective DEF Image, NodeAt
<1> HIDE DEF new
<1>3. ASSUME NEW m \in InUse(new), NodeAt(new, m).kind = "file", NodeAt(new, m).single
      PROVE  ~NodeAt(new, m).hole
  <2>1. m \in InodeNums /\ NodeAt(new, m).kind # "free"
    BY DEF InUse
  <2>2. CASE m = n
    BY <1>1, <1>3, <2>2
  <2>3. CASE m # n
    BY <1>2, <1>3, <2>1, <2>3 DEF NoHoles, InUse
  <2> QED BY <2>2, <2>3
<1>4. NoHoles(new)
  BY <1>3 DEF NoHoles
<1> QED BY <1>4 DEF new

\* A handle written back with its kind, its extent and no hole made is none.
LEMMA RewriteNoHoles ==
    ASSUME NEW img \in Image, NEW in \in Handle, NoHoles(img),
           in.raw.kind = "file" /\ in.raw.single => ~in.raw.hole
    PROVE  NoHoles(WriteInodeTo(img, in))
<1> DEFINE x == Sealed(img, in).raw
<1>1. x.kind = in.raw.kind /\ x.single = in.raw.single /\ x.hole = in.raw.hole
  BY DEF Sealed, Handle, Inode
<1>2. WriteInodeTo(img, in) = [img EXCEPT !.itab[InodeSlot(in.num)] = x] /\ in.num \in InodeNums
  BY DEF WriteInodeTo, Handle
<1> HIDE DEF x
<1> QED BY <1>1, <1>2, InodeWriteNoHoles

\* Nothing is promised when no operation is running.
LEMMA RestSInv ==
    ASSUME IInv', pc' \in {"closed", "idle"}, StartsWithoutHoles => NoHoles(image') PROVE SInv'
BY DEF SInv, MadeHolds, ResultHolds, Making, Overwriting

\* The steps before anything is made.
LEMMA EarlySInv ==
    ASSUME SInv, IInv', pc \in Making, pc' \in {"pick", "ialloc", "balloc", "desc", "body"},
           op' = op, ret' = ret, image'.itab = image.itab
    PROVE  SInv'
<1>1. StartsWithoutHoles => NoHoles(image')
  BY QuietNoHoles DEF SInv
<1>2. op.name \in PathNames /\ ret.status = "none"
  BY DEF SInv, MadeHolds, ResultHolds, Making
<1> QED BY <1>1, <1>2 DEF SInv, MadeHolds, ResultHolds, Making, Overwriting

\* The new block holds what it was made for.
LEMMA WriteBodySInv == ASSUME SInv, IInv', WriteBody PROVE SInv'
<1> DEFINE x == IF op.kind = "mkdir" THEN NewDirBlock(image, loc.ino, op.in.num)
                ELSE NewFileBlock(op.data)
<1>1. /\ image \in Image /\ pc = "body" /\ pc' = "inode" /\ loc.blk \in BlockNums
      /\ image' = [image EXCEPT !.blk[loc.blk] = x]
      /\ UNCHANGED <<sb, op, loc, ret, hist>>
  BY MakingHolds DEF WriteBody, SInv, IInv, TypeOK
<1>2. op.kind = "create" => x.data = op.data
  BY DEF NewFileBlock
<1> HIDE DEF x
<1>3. image'.itab = image.itab /\ image'.blk[loc.blk] = x
  BY <1>1 DEF Image
<1>4. StartsWithoutHoles => NoHoles(image')
  BY <1>3, QuietNoHoles DEF SInv
<1>5. op.name \in PathNames /\ ret.status = "none"
  BY <1>1 DEF SInv, MadeHolds, ResultHolds, Making
<1> QED BY <1>1, <1>2, <1>3, <1>4, <1>5 DEF SInv, MadeHolds, ResultHolds, Making, Overwriting

\* The new inode is the one that was made, over that block.
LEMMA WriteInodeSInv == ASSUME SInv, IInv', WriteInode PROVE SInv'
<1> DEFINE x == Sealed(image, NewInode).raw
<1>1. /\ image \in Image /\ pc = "inode" /\ pc' = "dirent" /\ TypeOK /\ IInv
      /\ image' = WriteInodeTo(image, NewInode)
      /\ UNCHANGED <<sb, op, loc, ret, hist>>
  BY DEF WriteInode, SInv, IInv, TypeOK
<1>2. /\ loc.ino \in InodeNums /\ loc.blk \in BlockNums /\ op.in.num \in DirsOf(image)
      /\ op.kind = "mkdir" \/ (op.kind = "create" /\ op.data \in Data)
  BY <1>1, MakingHolds DEF Making
<1>3. NewInode \in Handle /\ NewInode.num = loc.ino
  BY <1>1, <1>2, NewInodeType
<1>4. ~NewInode.raw.hole
  BY DEF NewInode, InitInode
<1>5. StartsWithoutHoles => NoHoles(image')
  BY <1>1, <1>3, <1>4, RewriteNoHoles DEF SInv
<1>6. image' = [image EXCEPT !.itab[InodeSlot(loc.ino)] = x]
  BY <1>1, <1>3 DEF WriteInodeTo
<1>7. Sealed(image, NewInode).raw = x
  OBVIOUS
<1> HIDE DEF x
<1>8. NodeAt(image', loc.ino) = x /\ image'.blk = image.blk /\ image'.csum = image.csum
  BY <1>1, <1>2, <1>6, SlotInTables DEF Image, NodeAt
<1>9. Sealed(image', NewInode').raw = x
  <2>1. NewInode' = NewInode
    BY <1>1 DEF NewInode
  <2> QED BY <1>7, <1>8, <2>1 DEF Sealed, MetaSeal, MetadataCsum
<1>10. loc.ino # op.in.num
  BY <1>1, <1>2 DEF IInv, InodeHolds, DirsOf, InUse
<1>11. op.kind = "mkdir" => image'.blk[loc.blk].ents = NewDirBlock(image', loc.ino, op.in.num).ents
  <2>1. op.kind = "mkdir" => image.blk[loc.blk].ents = NewDirBlock(image, loc.ino, op.in.num).ents
    BY <1>1 DEF IInv, BlockHolds
  <2>2. NewDirBlock(image', loc.ino, op.in.num).ents = NewDirBlock(image, loc.ino, op.in.num).ents
    BY <1>8 DEF NewDirBlock, Limit, MetadataCsum
  <2> QED BY <1>8, <2>1, <2>2
<1>12. /\ op.name \in PathNames /\ ret.status = "none"
       /\ op.kind = "create" => image.blk[loc.blk].data = op.data
  BY <1>1 DEF SInv, MadeHolds, ResultHolds, Making
<1>13. MadeHolds'
  BY <1>1, <1>8, <1>9, <1>10, <1>11, <1>12 DEF MadeHolds
<1> QED BY <1>1, <1>5, <1>12, <1>13 DEF SInv, ResultHolds, Overwriting

\* What addDirent does when it does not refuse: the records of the directory
\* grow, nothing else changes, and the name was not there.
LEMMA DirentAdded ==
    ASSUME IInv, AddDirent, ~DirentRefused(op.in, op.name),
           NEW b, b = op.in.raw.blk, NEW ents, ents = image.blk[b].ents
    PROVE  /\ op.in.num \in InodeNums /\ Walkable(image, op.in.num)
           /\ op.in = ReadInode(image, op.in.num) /\ op.in.raw = NodeAt(image, op.in.num)
           /\ b \in NodeAt(image, op.in.num).owns /\ b \in BlockNums
           /\ image'.itab = image.itab /\ image'.csum = image.csum
           /\ ents \in Seq(Dirent) /\ Len(ents) > 0 /\ Found(ents, op.name) = 0
           /\ image'.blk[b].ents = WithDirent(ents, loc.ino, op.name, NewInode.raw.kind)
           /\ \A c \in BlockNums : c # b => image'.blk[c] = image.blk[c]
           /\ op.kind = "mkdir" => pc' = "parent" /\ UNCHANGED <<op, loc, ret, hist>>
           /\ op.kind # "mkdir" => Return(Sealed(image, NewInode))
<1> DEFINE after == WithDirent(ents, loc.ino, op.name, NewInode.raw.kind)
           tail == TailSeal(image, image.blk[b].tail, op.in.num)
           x == [image.blk[b] EXCEPT !.ents = after, !.tail = tail]
<1>1. /\ image \in Image /\ pc = "dirent"
      /\ image' = [image EXCEPT !.blk[b] = x]
      /\ op.kind = "mkdir" => pc' = "parent" /\ UNCHANGED <<op, loc, ret, hist>>
      /\ op.kind # "mkdir" => Return(Sealed(image, NewInode))
  BY DEF IInv, TypeOK, AddDirent
<1>2. /\ op.in.num \in DirsOf(image) /\ op.in.raw = NodeAt(image, op.in.num)
      /\ op.in.raw.single /\ op.in = ReadInode(image, op.in.num)
  <2>1. pc \in Making /\ pc # "lookup"
    BY <1>1 DEF Making
  <2> QED BY <2>1, MakingHolds DEF IInv, ArgumentsHold
<1>3. op.in.num \in InUse(image) /\ op.in.num \in InodeNums
  BY <1>2 DEF DirsOf, InUse
<1>4. ~op.in.raw.htree /\ Len(ents) > 0 /\ \A i \in DOMAIN ents : ~Named(ents[i], op.name)
  BY DEF DirentRefused, WellFormed
<1>5. Walkable(image, op.in.num)
  BY <1>2, <1>4 DEF Walkable, DirsOf
<1>6. Good(image)
  BY <1>1, IInvLinks DEF Good
<1>7. b \in NodeAt(image, op.in.num).owns /\ b \in BlockNums /\ ents \in Seq(Dirent)
  BY <1>2, <1>3, <1>5, <1>6, WalkableHas DEF Records
<1>8. Found(ents, op.name) = 0
  <2>1. {i \in DOMAIN ents : Named(ents[i], op.name)} = {}
    BY <1>4
  <2> QED BY <2>1 DEF Found
<1>9. image.blk[b] \in Block
  BY <1>1, <1>7 DEF Image
<1> HIDE DEF after, tail
<1>10. x.ents = after
  BY <1>9 DEF Block
<1> HIDE DEF x
<1>11. /\ image'.itab = image.itab /\ image'.csum = image.csum /\ image'.blk[b] = x
       /\ \A c \in BlockNums : c # b => image'.blk[c] = image.blk[c]
  BY <1>1, <1>7 DEF Image
<1> QED BY <1>1, <1>2, <1>3, <1>4, <1>5, <1>7, <1>8, <1>10, <1>11 DEF after

\* The new name now leads to the new inode.
LEMMA DirentLeads ==
    ASSUME SInv, AddDirent, ~DirentRefused(op.in, op.name)
    PROVE  /\ \E e \in Children(image', op.in.num) : e.ino = loc.ino
           /\ NamesFit => Lookup(image', op.in, op.name) = loc.ino
<1> DEFINE b == op.in.raw.blk
           ents == image.blk[b].ents
           after == WithDirent(ents, loc.ino, op.name, NewInode.raw.kind)
<1>1. IInv /\ pc = "dirent" /\ op.name \in PathNames
  BY DEF SInv, AddDirent, MadeHolds, Making
<1>2. /\ op.in.num \in InodeNums /\ op.in.raw = NodeAt(image, op.in.num)
      /\ b \in NodeAt(image, op.in.num).owns /\ image'.itab = image.itab
      /\ ents \in Seq(Dirent) /\ Len(ents) > 0 /\ Found(ents, op.name) = 0
      /\ image'.blk[b].ents = after
  BY <1>1, DirentAdded
<1>3. loc.ino \in InodeNums /\ loc.ino # 0
  <2>1. loc.ino \in InodeNums
    BY <1>1, MakingHolds
  <2> QED BY <2>1 DEF InodeNums
<1>4. op.name \in Names /\ op.name \notin {Dot, DotDot}
  BY <1>1 DEF PathNames
<1> HIDE DEF b, ents
<1>5. \E e \in Children(image', op.in.num) : e.ino = loc.ino
  <2>1. PICK t \in Nat : t # 0 /\ DOMAIN after = 1 .. t
                         /\ after[t].ino = loc.ino /\ after[t].name = op.name
    <3>1. after = WithDirent(ents, loc.ino, op.name, NewInode.raw.kind)
      OBVIOUS
    <3> HIDE DEF after
    <3> QED BY <1>2, <3>1, WithDirentShape
  <2> HIDE DEF after
  <2>2. t \in DOMAIN after
    BY <2>1
  <2>3. after[t] \in ToSet(image'.blk[b].ents)
    BY <1>2, <2>2 DEF ToSet
  <2>4. NodeAt(image', op.in.num).owns = NodeAt(image, op.in.num).owns
    BY <1>2 DEF NodeAt
  <2>5. after[t] \in Entries(image', op.in.num)
    BY <1>2, <1>3, <2>1, <2>3, <2>4 DEF Entries
  <2> QED BY <1>4, <2>1, <2>5 DEF Children
<1>6. ASSUME NamesFit PROVE Found(after, op.name) = loc.ino
  <2>1. NameLen[op.name] < 256
    BY <1>4, <1>6 DEF NamesFit
  <2>2. after = WithDirent(ents, loc.ino, op.name, NewInode.raw.kind)
    OBVIOUS
  <2> HIDE DEF after
  <2> QED BY <1>2, <1>3, <1>4, <2>1, <2>2, WithDirentFinds
<1>7. Lookup(image', op.in, op.name) = Found(image'.blk[b].ents, op.name)
  BY DEF Lookup, Found, b
<1> QED BY <1>2, <1>5, <1>6, <1>7

\* The block of the inode that has been made is not the directory's.
LEMMA BlocksApart ==
    ASSUME SInv, pc \in {"dirent", "parent"}
    PROVE  /\ loc.ino \in InodeNums /\ loc.blk \in BlockNums
           /\ NodeAt(image, loc.ino).owns = {loc.blk} /\ NodeAt(image, loc.ino).blk = loc.blk
           /\ ~NodeAt(image, loc.ino).hole
           /\ NewInode \in Handle /\ NewInode.num = loc.ino
           /\ op.in.raw.blk # loc.blk
<1>1. IInv /\ TypeOK /\ pc \in Making /\ image \in Image
  BY DEF SInv, IInv, TypeOK, Making
<1>2. /\ loc.ino \in InodeNums /\ loc.blk \in BlockNums
      /\ op.in.num \in DirsOf(image) /\ op.in.raw = NodeAt(image, op.in.num)
      /\ op.kind = "mkdir" \/ (op.kind = "create" /\ op.data \in Data)
  BY <1>1, MakingHolds
<1>3. /\ NewInode \in Handle /\ NewInode.num = loc.ino
      /\ NewInode.raw.owns = {loc.blk} /\ NewInode.raw.blk = loc.blk
  BY <1>1, <1>2, NewInodeType
<1>4. ~NewInode.raw.hole
  BY DEF NewInode, InitInode
<1>5. NodeAt(image, loc.ino) = Sealed(image, NewInode).raw /\ loc.ino # op.in.num
  BY DEF SInv, MadeHolds
<1>6. /\ NodeAt(image, loc.ino).owns = {loc.blk} /\ NodeAt(image, loc.ino).blk = loc.blk
      /\ ~NodeAt(image, loc.ino).hole
  BY <1>3, <1>4, <1>5 DEF Sealed, Handle, Inode
<1>7. op.in.raw.single /\ op.in.num \in InUse(image) /\ loc.ino \in InUse(image)
  BY <1>1, <1>2 DEF IInv, ArgumentsHold, InodeHolds, DirsOf
<1>8. op.in.raw.blk \in NodeAt(image, op.in.num).owns
  BY <1>1, <1>2, <1>7 DEF IInv, ExtentsOwned
<1>9. NodeAt(image, op.in.num).owns \cap NodeAt(image, loc.ino).owns = {}
  BY <1>1, <1>5, <1>7 DEF IInv, ReferencesResolve, BlocksOwnedOnce
<1> QED BY <1>2, <1>3, <1>6, <1>8, <1>9

\* addDirent keeps what has been made.
LEMMA AddDirentSInv == ASSUME SInv, IInv', AddDirent PROVE SInv'
<1>1. IInv /\ pc = "dirent" /\ image \in Image
  BY DEF SInv, IInv, TypeOK, AddDirent
<1>2. CASE DirentRefused(op.in, op.name)
  <2>1. pc' = "closed" /\ image' = image
    BY <1>2 DEF AddDirent, Refuse, CloseWith
  <2> QED BY <2>1, RestSInv DEF SInv
<1>3. CASE ~DirentRefused(op.in, op.name)
  <2>1. /\ image'.itab = image.itab /\ image'.csum = image.csum
        /\ \A c \in BlockNums : c # op.in.raw.blk => image'.blk[c] = image.blk[c]
        /\ op.kind = "mkdir" => pc' = "parent" /\ UNCHANGED <<op, loc, ret, hist>>
        /\ op.kind # "mkdir" => Return(Sealed(image, NewInode))
    BY <1>1, <1>3, DirentAdded
  <2>2. StartsWithoutHoles => NoHoles(image')
    BY <2>1, QuietNoHoles DEF SInv
  <2>3. CASE op.kind # "mkdir"
    BY <2>1, <2>2, <2>3, RestSInv DEF Return
  <2>4. CASE op.kind = "mkdir"
    <3>1. pc' = "parent" /\ op' = op /\ loc' = loc /\ ret' = ret
      BY <2>1, <2>4
    <3>2. image'.blk[loc.blk] = image.blk[loc.blk]
      BY <1>1, <2>1, BlocksApart
    <3>3. /\ loc.ino # op.in.num /\ op.name \in PathNames /\ ret.status = "none"
          /\ NodeAt(image, loc.ino) = Sealed(image, NewInode).raw
          /\ image.blk[loc.blk].ents = NewDirBlock(image, loc.ino, op.in.num).ents
      BY <1>1, <2>4 DEF SInv, MadeHolds, ResultHolds, Making
    <3>4. NodeAt(image', loc.ino) = Sealed(image', NewInode').raw
      <4>1. NewInode' = NewInode
        BY <3>1 DEF NewInode
      <4> QED BY <2>1, <3>3, <4>1 DEF NodeAt, Sealed, MetaSeal, MetadataCsum
    <3>5. image'.blk[loc.blk].ents = NewDirBlock(image', loc.ino, op.in.num).ents
      BY <2>1, <3>2, <3>3 DEF NewDirBlock, Limit, MetadataCsum
    <3>6. /\ \E e \in Children(image', op.in.num) : e.ino = loc.ino
          /\ NamesFit => Lookup(image', op.in, op.name) = loc.ino
      BY <1>3, DirentLeads
    <3>7. MadeHolds'
      BY <2>4, <3>1, <3>3, <3>4, <3>5, <3>6 DEF MadeHolds
    <3> QED BY <2>2, <3>1, <3>3, <3>7 DEF SInv, ResultHolds, Overwriting
  <2> QED BY <2>3, <2>4
<1> QED BY <1>2, <1>3

\* The parent is written back as it was but for its links.
LEMMA WriteParentSInv == ASSUME SInv, IInv', WriteParent PROVE SInv'
<1> DEFINE links == (op.in.raw.links + 1) % 65536
           in == [op.in EXCEPT !.raw.links = links]
<1>1. /\ image \in Image /\ IInv /\ TypeOK /\ pc = "parent" /\ pc' = "idle"
      /\ image' = WriteInodeTo(image, in)
  BY DEF SInv, IInv, TypeOK, WriteParent, Return
<1>2. op.in.num \in DirsOf(image) /\ op.in.raw = NodeAt(image, op.in.num)
  BY <1>1, MakingHolds DEF Making
<1>3. op.in \in Handle /\ op.in.raw \in Inode
  BY <1>1 DEF TypeOK, Operations, Handle
<1>4. links \in Nat
  <2>1. op.in.raw.links \in Nat
    BY <1>3 DEF Inode
  <2> QED BY <2>1, SMT
<1> HIDE DEF links
<1>5. in \in Handle /\ in.raw.kind = "dir"
  BY <1>2, <1>3, <1>4 DEF Handle, Inode, DirsOf
<1> HIDE DEF in
<1> QED BY <1>1, <1>5, RewriteNoHoles, RestSInv DEF SInv

\* The data of the file is replaced, and what it is read through stays.
LEMMA OverwriteDataSInv == ASSUME SInv, IInv', OverwriteData PROVE SInv'
<1>1. CASE OverwriteRefused
  <2>1. pc' = "closed" /\ image' = image
    BY <1>1 DEF OverwriteData, Refuse, CloseWith
  <2> QED BY <2>1, RestSInv DEF SInv
<1>2. CASE ~OverwriteRefused
  <2>1. /\ image \in Image /\ pc = "odata" /\ pc' = "oinode" /\ op' = op /\ ret' = ret
        /\ image' = [image EXCEPT !.blk[op.in.raw.blk] = NewFileBlock(op.data)]
    BY <1>2 DEF SInv, IInv, TypeOK, OverwriteData
  <2>2. op.in.raw.blk \in BlockNums
    <3>1. /\ op.in = ReadInode(image, op.in.num) /\ op.in.raw.kind # "free"
          /\ op.in.num \in InodeNums /\ op.in.raw.single
      BY <1>2, <2>1 DEF SInv, IInv, TypeOK, Operations, Handle, ArgumentsHold, Overwriting,
                        OverwriteRefused
    <3>2. op.in.raw = NodeAt(image, op.in.num) /\ op.in.num \in InUse(image)
      BY <3>1 DEF ReadInode, InUse
    <3>3. op.in.raw.blk \in NodeAt(image, op.in.num).owns
      BY <3>1, <3>2 DEF SInv, IInv, ExtentsOwned
    <3> QED BY <2>1, <3>1, <3>3, NodeType DEF Inode
  <2>3. image'.itab = image.itab /\ image'.blk[op.in.raw.blk].data = op.data
    BY <2>1, <2>2 DEF Image, NewFileBlock
  <2>4. StartsWithoutHoles => NoHoles(image')
    BY <2>3, QuietNoHoles DEF SInv
  <2>5. op.kind = "overwrite" /\ ret.status = "none"
    BY <2>1 DEF SInv, ResultHolds, Overwriting
  <2> QED BY <2>1, <2>3, <2>4, <2>5 DEF SInv, MadeHolds, ResultHolds, Making, Overwriting
<1> QED BY <1>1, <1>2

\* What Overwrite writes back, and what it returns.
LEMMA OverwriteInodeIs ==
    ASSUME SInv, OverwriteInode, NEW in, in = [op.in EXCEPT !.raw.size = DataLen[op.data]]
    PROVE  /\ in \in Handle /\ in.num = op.in.num /\ op.in.num \in InodeNums
           /\ in.raw.kind = op.in.raw.kind /\ in.raw.single = op.in.raw.single
           /\ in.raw.hole = op.in.raw.hole /\ in.raw.blk = op.in.raw.blk
           /\ in.raw.size = DataLen[op.data]
           /\ op.in.raw = NodeAt(image, op.in.num) /\ op.in.num \in InUse(image)
           /\ op.in.raw.kind = "file" /\ op.in.raw.single
           /\ image \in Image
           /\ image' = WriteInodeTo(image, in) /\ ret'.in = Sealed(image, in) /\ pc' = "idle"
<1>1. /\ image \in Image /\ TypeOK /\ pc = "oinode" /\ pc' = "idle"
      /\ image' = WriteInodeTo(image, in) /\ ret'.in = Sealed(image, in)
  BY DEF SInv, IInv, TypeOK, OverwriteInode, Return
<1>2. op.in \in Handle /\ op.in.raw \in Inode /\ op.in.num \in InodeNums
  BY <1>1 DEF TypeOK, Operations, Handle
<1>3. /\ op.in = ReadInode(image, op.in.num) /\ op.in.raw.kind # "free" /\ op.data \in Data
      /\ ~OverwriteRefused
  BY <1>1 DEF SInv, IInv, ArgumentsHold, Overwriting
<1>4. op.in.raw = NodeAt(image, op.in.num) /\ op.in.num \in InUse(image)
  BY <1>2, <1>3 DEF ReadInode, InUse
<1>5. op.in.raw.kind = "file" /\ op.in.raw.single
  BY <1>2, <1>3 DEF OverwriteRefused, Inode
<1>6. DataLen[op.data] \in Nat
  BY <1>3, NamesAssumption
<1>7. /\ in \in Handle /\ in.num = op.in.num
      /\ in.raw.kind = op.in.raw.kind /\ in.raw.single = op.in.raw.single
      /\ in.raw.hole = op.in.raw.hole /\ in.raw.blk = op.in.raw.blk
      /\ in.raw.size = DataLen[op.data]
  BY <1>2, <1>6 DEF Handle, Inode
<1> QED BY <1>1, <1>2, <1>4, <1>5, <1>7

\* No file becomes a hole by being overwritten.
LEMMA OverwriteInodeSInv == ASSUME SInv, IInv', OverwriteInode PROVE SInv'
<1> DEFINE in == [op.in EXCEPT !.raw.size = DataLen[op.data]]
<1>1. /\ in \in Handle /\ image \in Image /\ image' = WriteInodeTo(image, in) /\ pc' = "idle"
      /\ in.raw.hole = NodeAt(image, op.in.num).hole /\ op.in.num \in InUse(image)
      /\ NodeAt(image, op.in.num).kind = "file" /\ NodeAt(image, op.in.num).single
  BY OverwriteInodeIs
<1> HIDE DEF in
<1>2. StartsWithoutHoles => NoHoles(image')
  <2> SUFFICES ASSUME StartsWithoutHoles PROVE NoHoles(image')
    OBVIOUS
  <2>1. NoHoles(image)
    BY DEF SInv
  <2>2. ~in.raw.hole
    BY <1>1, <2>1 DEF NoHoles
  <2> QED BY <1>1, <2>1, <2>2, RewriteNoHoles
<1> QED BY <1>1, <1>2, RestSInv

\* A call has not returned.
LEMMA CallSInv ==
    ASSUME SInv, IInv', NEW kind, NEW in, NEW name, NEW data, NEW first \in {"lookup", "odata"},
           Call(kind, in, name, data, first),
           first = "lookup" => name \in PathNames,
           first = "odata" => kind = "overwrite"
    PROVE  SInv'
<1>1. /\ pc' = first /\ image' = image /\ op'.kind = kind /\ op'.name = name
      /\ ret'.status = "none"
  BY DEF Call
<1> QED BY <1>1 DEF SInv, MadeHolds, ResultHolds, Making, Overwriting

\* SInv is inductive.
LEMMA NextSInv == SInv /\ [Next]_vars => SInv'
<1> SUFFICES ASSUME SInv, [Next]_vars PROVE SInv'
  OBVIOUS
<1>1. IInv' /\ IInv /\ image \in Image
  BY NextIInv DEF SInv, IInv, TypeOK
<1>2. ASSUME pc' \in {"closed", "idle"}, image'.itab = image.itab PROVE SInv'
  BY <1>1, <1>2, QuietNoHoles, RestSInv DEF SInv
<1>3. ASSUME NEW status, Refuse(status) PROVE SInv'
  BY <1>2, <1>3 DEF Refuse, CloseWith
<1>4. CASE LookupName \/ PickGroup \/ AllocInode \/ AllocBlock \/ WriteDesc
  <2>1. CASE \E status : Refuse(status)
    BY <1>3, <2>1
  <2>2. CASE ~\E status : Refuse(status)
    <3>1. /\ pc \in Making /\ pc' \in {"pick", "ialloc", "balloc", "desc", "body"}
          /\ op' = op /\ ret' = ret
      BY <1>4, <2>2 DEF LookupName, PickGroup, AllocInode, AllocBlock, WriteDesc, Making
    <3>2. image'.itab = image.itab
      BY <1>1, <1>4, <2>2 DEF LookupName, PickGroup, AllocInode, AllocBlock, WriteDesc, Image
    <3> QED BY <1>1, <3>1, <3>2, EarlySInv
  <2> QED BY <2>1, <2>2
<1>5. CASE Step
  BY <1>1, <1>4, <1>5, WriteBodySInv, WriteInodeSInv, AddDirentSInv, WriteParentSInv,
     OverwriteDataSInv, OverwriteInodeSInv DEF Step
<1>6. CASE Caller
  <2>1. CASE OpenFS \/ Close
    BY <1>2, <2>1 DEF OpenFS, Close, CloseWith
  <2>2. CASE Sync
    <3>1. image'.itab = image.itab /\ pc' = "idle"
      BY <1>1, <2>2 DEF Sync, Image
    <3> QED BY <1>2, <3>1
  <2>3. ASSUME NEW dir \in DirHandles, NEW name \in PathNames, CallMkdir(dir, name)
        PROVE  SInv'
    BY <1>1, <2>3, CallSInv DEF CallMkdir
  <2>4. ASSUME NEW dir \in DirHandles, NEW name \in PathNames, NEW data \in Data,
               CallCreateFile(dir, name, data)
        PROVE  SInv'
    BY <1>1, <2>4, CallSInv DEF CallCreateFile
  <2>5. ASSUME NEW in \in Handles, NEW data \in Data, CallOverwrite(in, data)
        PROVE  SInv'
    BY <1>1, <2>5, CallSInv DEF CallOverwrite
  <2> QED BY <1>6, <2>1, <2>2, <2>3, <2>4, <2>5 DEF Caller
<1>7. CASE Kill
  BY <1>2, <1>7 DEF Kill, CloseWith
<1>8. CASE UNCHANGED vars
  <2>1. NewInode' = NewInode
    BY <1>8 DEF vars, NewInode
  <2> QED BY <1>1, <1>8, <2>1 DEF vars, SInv, MadeHolds, ResultHolds
<1> QED BY <1>5, <1>6, <1>7, <1>8 DEF Next

\* What an operation has made so far is what it was asked for.
THEOREM SuccessInvariance == Spec => []SInv
BY InitSInv, NextSInv, PTL DEF Spec

\* CreateFile returns the file it promises.
LEMMA CreatePromise ==
    ASSUME SInv, NamesFit, AddDirent, ret'.status = "ok" PROVE Promise(op)
<1>1. pc = "dirent" /\ IInv /\ ret.status = "none"
  BY DEF SInv, ResultHolds, AddDirent
<1>2. ~DirentRefused(op.in, op.name)
  BY DEF AddDirent, Refuse, CloseWith
<1>3. /\ image'.itab = image.itab
      /\ \A c \in BlockNums : c # op.in.raw.blk => image'.blk[c] = image.blk[c]
      /\ op.kind = "mkdir" => ret' = ret
      /\ op.kind # "mkdir" => Return(Sealed(image, NewInode))
      /\ op.in = ReadInode(image, op.in.num)
  BY <1>1, <1>2, DirentAdded
<1>4. op.kind = "create" /\ op.data \in Data
  BY <1>1, <1>3, MakingHolds DEF Making
<1>5. /\ loc.ino \in InodeNums /\ loc.blk \in BlockNums
      /\ NodeAt(image, loc.ino).blk = loc.blk /\ ~NodeAt(image, loc.ino).hole
      /\ NewInode \in Handle /\ NewInode.num = loc.ino /\ op.in.raw.blk # loc.blk
  BY <1>1, BlocksApart
<1>6. ret'.in = Sealed(image, NewInode)
  BY <1>3, <1>4 DEF Return
<1>7. ret'.in.num = loc.ino
  <2>1. image \in Image
    BY <1>1 DEF IInv, TypeOK
  <2> QED BY <1>5, <1>6, <2>1, SealedType
<1>8. Lookup(image', ReadInode(image', op.in.num), op.name) = loc.ino
  <2>1. ReadInode(image', op.in.num) = op.in
    BY <1>3 DEF ReadInode, NodeAt
  <2> QED BY <1>2, <2>1, DirentLeads
<1>9. NodeAt(image, loc.ino).size = DataLen[op.data]
  <2>1. NodeAt(image, loc.ino) = Sealed(image, NewInode).raw
    BY <1>1 DEF SInv, MadeHolds
  <2>2. NewInode.raw.size = DataLen[op.data]
    BY <1>4 DEF NewInode, InitInode
  <2> QED BY <1>5, <2>1, <2>2 DEF Sealed, Handle, Inode
<1>10. image'.blk[loc.blk].data = op.data
  BY <1>1, <1>3, <1>4, <1>5 DEF SInv, MadeHolds
<1>11. NodeAt(image', loc.ino) = NodeAt(image, loc.ino)
  BY <1>3 DEF NodeAt
<1>12. FileContent(image', loc.ino) = [data |-> op.data, size |-> DataLen[op.data]]
  BY <1>5, <1>9, <1>10, <1>11 DEF FileContent
<1> QED BY <1>4, <1>7, <1>8, <1>12 DEF Promise

\* A new directory has no children.
LEMMA NewDirEmpty ==
    ASSUME NEW img, NEW n, NEW parent, NEW b, NodeAt(img, n).owns = {b},
           img.blk[b].ents = NewDirBlock(img, n, parent).ents
    PROVE  Children(img, n) = {}
<1>1. ASSUME NEW e \in Entries(img, n) PROVE e.name \in {Dot, DotDot}
  <2>1. e \in ToSet(img.blk[b].ents)
    BY DEF Entries
  <2>2. PICK i \in DOMAIN img.blk[b].ents : e = img.blk[b].ents[i]
    BY <2>1 DEF ToSet
  <2> QED BY <2>2 DEF NewDirBlock
<1> QED BY <1>1 DEF Children

\* Mkdir returns the directory it promises, as the image has it.
LEMMA MkdirReturns ==
    ASSUME SInv, WriteParent
    PROVE  /\ op.kind = "mkdir" /\ ret'.in.num = loc.ino
           /\ ret'.in = ReadInode(image', ret'.in.num)
           /\ Children(image', ret'.in.num) = {}
           /\ NamesFit => Lookup(image', ReadInode(image', op.in.num), op.name) = ret'.in.num
           /\ image'.blk = image.blk
           /\ NodeAt(image', loc.ino) = NodeAt(image, loc.ino)
           /\ NodeAt(image', op.in.num).kind = NodeAt(image, op.in.num).kind
           /\ NodeAt(image', op.in.num).blk = NodeAt(image, op.in.num).blk
           /\ NodeAt(image', op.in.num).single = NodeAt(image, op.in.num).single
           /\ NodeAt(image', op.in.num).htree = NodeAt(image, op.in.num).htree
<1> DEFINE links == (op.in.raw.links + 1) % 65536
           in == [op.in EXCEPT !.raw.links = links]
           x == Sealed(image, in).raw
<1>1. /\ image \in Image /\ IInv /\ TypeOK /\ pc = "parent"
      /\ image' = WriteInodeTo(image, in)
      /\ ret'.in = Sealed(image, NewInode)
  BY DEF SInv, IInv, TypeOK, WriteParent, Return
<1>2. op.in.num \in DirsOf(image) /\ op.in.raw = NodeAt(image, op.in.num)
  BY <1>1, MakingHolds DEF Making
<1>3. op.in \in Handle /\ op.in.raw \in Inode /\ op.in.num \in InodeNums
  BY <1>1 DEF TypeOK, Operations, Handle
<1>4. links \in Nat
  <2>1. op.in.raw.links \in Nat
    BY <1>3 DEF Inode
  <2> QED BY <2>1, SMT
<1> HIDE DEF links
<1>5. /\ in \in Handle /\ in.num = op.in.num
      /\ in.raw.blk = op.in.raw.blk /\ in.raw.kind = op.in.raw.kind
      /\ in.raw.single = op.in.raw.single /\ in.raw.htree = op.in.raw.htree
  BY <1>3, <1>4 DEF Handle, Inode
<1> HIDE DEF in
<1>6. /\ x.blk = op.in.raw.blk /\ x.kind = op.in.raw.kind
      /\ x.single = op.in.raw.single /\ x.htree = op.in.raw.htree
  BY <1>5 DEF Sealed, Handle, Inode
<1>7. image' = [image EXCEPT !.itab[InodeSlot(op.in.num)] = x]
  BY <1>1, <1>5 DEF WriteInodeTo
<1> HIDE DEF x
<1>8. /\ op.kind = "mkdir" /\ loc.ino # op.in.num
      /\ NodeAt(image, loc.ino) = Sealed(image, NewInode).raw
      /\ image.blk[loc.blk].ents = NewDirBlock(image, loc.ino, op.in.num).ents
      /\ NamesFit => Lookup(image, op.in, op.name) = loc.ino
  BY <1>1 DEF SInv, MadeHolds
<1>9. /\ loc.ino \in InodeNums /\ NodeAt(image, loc.ino).owns = {loc.blk}
      /\ NewInode \in Handle /\ NewInode.num = loc.ino
  BY <1>1, BlocksApart
<1>10. /\ image'.blk = image.blk /\ image'.csum = image.csum
       /\ NodeAt(image', op.in.num) = x
  BY <1>1, <1>3, <1>7, SlotInTables DEF Image, NodeAt
<1>11. NodeAt(image', loc.ino) = NodeAt(image, loc.ino)
  <2>1. InodeSlot(loc.ino) \in Slots /\ InodeSlot(loc.ino) # InodeSlot(op.in.num)
    BY <1>3, <1>8, <1>9, SlotInTables, SlotInjective
  <2> QED BY <1>1, <1>7, <2>1 DEF Image, NodeAt
<1>12. ret'.in.num = loc.ino
  BY <1>1, <1>9, SealedType
<1>13. ret'.in = ReadInode(image', ret'.in.num)
  <2>1. ret'.in \in Handle
    BY <1>1, <1>9, SealedType
  <2>2. ret'.in.raw = NodeAt(image', loc.ino)
    BY <1>1, <1>8, <1>11
  <2> QED BY <1>12, <2>1, <2>2 DEF ReadInode, Handle
<1>14. Children(image', loc.ino) = {}
  <2>1. NodeAt(image', loc.ino).owns = {loc.blk}
    BY <1>9, <1>11
  <2>2. image'.blk[loc.blk].ents = NewDirBlock(image', loc.ino, op.in.num).ents
    BY <1>8, <1>10 DEF NewDirBlock, Limit, MetadataCsum
  <2> QED BY <2>1, <2>2, NewDirEmpty
<1>15. NamesFit => Lookup(image', ReadInode(image', op.in.num), op.name) = loc.ino
  BY <1>6, <1>8, <1>10 DEF Lookup, ReadInode
<1> QED BY <1>2, <1>6, <1>8, <1>10, <1>11, <1>12, <1>13, <1>14, <1>15

\* Overwrite leaves the file with the data it was given.
LEMMA OverwritePromise ==
    ASSUME SInv, StartsWithoutHoles, OverwriteInode PROVE Promise(op)
<1> DEFINE in == [op.in EXCEPT !.raw.size = DataLen[op.data]]
           n == op.in.num
           x == Sealed(image, in).raw
<1>1. /\ in \in Handle /\ in.num = n /\ n \in InodeNums
      /\ in.raw.hole = op.in.raw.hole /\ in.raw.blk = op.in.raw.blk
      /\ in.raw.size = DataLen[op.data]
      /\ op.in.raw = NodeAt(image, n) /\ n \in InUse(image)
      /\ op.in.raw.kind = "file" /\ op.in.raw.single
      /\ image \in Image
      /\ image' = WriteInodeTo(image, in) /\ ret'.in = Sealed(image, in)
  BY OverwriteInodeIs
<1>2. op.kind = "overwrite" /\ image.blk[op.in.raw.blk].data = op.data
  BY DEF SInv, ResultHolds, OverwriteInode, Overwriting
<1>3. ~op.in.raw.hole
  BY <1>1 DEF SInv, NoHoles
<1> HIDE DEF in
<1>4. x.blk = op.in.raw.blk /\ ~x.hole /\ x.size = DataLen[op.data]
  BY <1>1, <1>3 DEF Sealed, Handle, Inode
<1>5. ret'.in.num = n
  BY <1>1, SealedType
<1>6. image' = [image EXCEPT !.itab[InodeSlot(n)] = x]
  BY <1>1 DEF WriteInodeTo
<1> HIDE DEF x
<1>7. image'.blk = image.blk /\ NodeAt(image', n) = x
  BY <1>1, <1>6, SlotInTables DEF Image, NodeAt
<1>8. FileContent(image', n) = [data |-> op.data, size |-> DataLen[op.data]]
  BY <1>2, <1>4, <1>7 DEF FileContent
<1> QED BY <1>2, <1>5, <1>8 DEF Promise

\* When an operation returns no error, the name it was given leads to the inode
\* it returns: an empty directory, or a file with the data it was given.
THEOREM SuccessSafe == NamesFit /\ StartsWithoutHoles => (Spec => SuccessIsReal)
<1> SUFFICES ASSUME NamesFit, StartsWithoutHoles PROVE Spec => SuccessIsReal
  OBVIOUS
<1>1. ASSUME SInv, [Next]_vars, pc \notin {"closed", "idle"}, ret'.status = "ok"
      PROVE  Promise(op)
  <2>1. ret.status = "none"
    BY <1>1 DEF SInv, ResultHolds
  <2>2. ASSUME NEW status \in {"none", "exists", "refused", "killed"}, NEW k, NEW s,
               CloseWith(status, k, s)
        PROVE  FALSE
    BY <1>1, <2>2 DEF CloseWith
  <2>3. CASE Kill \/ Close \/ Caller
    BY <1>1, <2>2, <2>3 DEF Kill, Close, Caller, OpenFS, Sync, CallMkdir, CallCreateFile,
                            CallOverwrite, Call
  <2>4. CASE \/ LookupName \/ PickGroup \/ AllocInode \/ AllocBlock \/ WriteDesc
             \/ WriteBody \/ WriteInode \/ OverwriteData
    BY <1>1, <2>1, <2>2, <2>4 DEF LookupName, PickGroup, AllocInode, AllocBlock, WriteDesc,
                                  WriteBody, WriteInode, OverwriteData, Refuse
  <2>5. CASE AddDirent
    BY <1>1, <2>5, CreatePromise
  <2>6. CASE WriteParent
    <3>1. /\ op.kind = "mkdir" /\ ret'.in = ReadInode(image', ret'.in.num)
          /\ Children(image', ret'.in.num) = {}
          /\ Lookup(image', ReadInode(image', op.in.num), op.name) = ret'.in.num
      BY <1>1, <2>6, MkdirReturns
    <3> QED BY <3>1 DEF Promise
  <2>7. CASE OverwriteInode
    BY <1>1, <2>7, OverwritePromise
  <2>8. CASE UNCHANGED vars
    BY <1>1, <2>1, <2>8 DEF vars
  <2> QED BY <1>1, <2>3, <2>4, <2>5, <2>6, <2>7, <2>8 DEF Next, Step
<1>2. SInv /\ [Next]_vars =>
          [pc \notin {"closed", "idle"} /\ ret'.status = "ok" => Promise(op)]_vars
  BY <1>1
<1> QED BY <1>2, SuccessInvariance, PTL DEF Spec, SuccessIsReal

-----------------------------------------------------------------------------
(* The sum of a counter over the groups.                                   *)

\* A counter of each group, as a function.
PerGroup(img, field) == [g \in Group |-> img.gd[g][field]]

\* The choice MapThenSumSet makes.
AnyOf(G) == [s \in SUBSET G |-> CHOOSE x \in s : TRUE]

\* The choice picks members.
LEMMA AnyOfChooses == ASSUME NEW G PROVE Chooses(AnyOf(G), G)
  BY DEF Chooses, AnyOf

\* There are finitely many groups.
LEMMA GroupIsFinite == IsFiniteSet(Group) /\ Cardinality(Group) = NumGroups
<1>1. NumGroups \in Nat \ {0} /\ 0 \in Int /\ NumGroups - 1 \in Int
  BY GeometryAssumption
<1>2. /\ IsFiniteSet(0 .. NumGroups - 1)
      /\ Cardinality(0 .. NumGroups - 1) = IF 0 > NumGroups - 1 THEN 0 ELSE (NumGroups - 1) - 0 + 1
  BY <1>1, FS_Interval
<1> QED BY <1>1, <1>2 DEF Group

\* GroupSum is a sum.
LEMMA GroupSumIs ==
    ASSUME NEW img, NEW field, PerGroup(img, field) \in [Group -> Nat]
    PROVE  \E f : Adds(f, PerGroup(img, field), Group, AnyOf(Group)) /\ GroupSum(img, field) = f[Group]
<1> DEFINE iter[s \in SUBSET Group] ==
        IF s = {} THEN 0
        ELSE LET x == CHOOSE x \in s : TRUE
             IN  img.gd[x][field] + iter[s \ {x}]
           Eq(f) == f = [s \in SUBSET Group |->
                        IF s = {} THEN 0
                        ELSE LET x == CHOOSE x \in s : TRUE
                             IN  img.gd[x][field] + f[s \ {x}]]
<1>1. GroupSum(img, field) = iter[Group]
  BY DEF GroupSum, MapThenSumSet, MapThenFoldSet
<1>2. ASSUME NEW f PROVE Eq(f) <=> Adds(f, PerGroup(img, field), Group, AnyOf(Group))
  <2>1. ASSUME NEW s \in SUBSET Group
        PROVE  (IF s = {} THEN 0
                ELSE LET x == CHOOSE x \in s : TRUE IN  img.gd[x][field] + f[s \ {x}])
               = (IF s = {} THEN 0 ELSE PerGroup(img, field)[AnyOf(Group)[s]] + f[Less(AnyOf(Group), s)])
    <3>1. s # {} => AnyOf(Group)[s] \in Group
      BY LessIn, AnyOfChooses
    <3>2. s # {} => PerGroup(img, field)[AnyOf(Group)[s]] = img.gd[AnyOf(Group)[s]][field]
      BY <3>1 DEF PerGroup
    <3> QED BY <3>2 DEF AnyOf, Less
  <2> QED BY <2>1 DEF Adds
<1>3. \E f : Eq(f)
  <2>1. \E f : Adds(f, PerGroup(img, field), Group, AnyOf(Group))
    BY GroupIsFinite, AddsExists, AnyOfChooses
  <2> HIDE DEF Eq
  <2> QED BY <1>2, <2>1
<1>4. iter = CHOOSE f : Eq(f)
  OBVIOUS
<1>5. Eq(iter)
  <2> HIDE DEF Eq, iter
  <2> QED BY <1>3, <1>4
<1> HIDE DEF Eq, iter
<1> QED BY <1>1, <1>2, <1>5

-----------------------------------------------------------------------------
(* The shapes of the steps, as far as what is counted goes.                *)

\* What the counters count.
SameCounts ==
    /\ image'.gd = image.gd /\ image'.sb = image.sb
    /\ image'.ibm = image.ibm /\ image'.bbm = image.bbm
SameHistory ==
    /\ hist'.kills = hist.kills /\ hist'.strands = hist.strands
    /\ hist'.unsynced = hist.unsynced

\* A session ends; if nothing is disturbed, no bitmap was ahead of its descriptor.
Ends ==
    /\ pc # "closed" /\ pc' = "closed" /\ image' = image /\ hist'.before = image
    /\ Undisturbed' => Undisturbed /\ pc \notin {"balloc", "desc"}
    /\ ~hist'.unsynced =>
          ~hist.unsynced /\ sb.freeI = image.sb.freeI /\ sb.freeB = image.sb.freeB
    /\ hist'.kills = 0 => hist.kills = 0 /\ pc # "desc"
\* A step that writes contents or nothing.
Works ==
    /\ pc \notin {"closed", "ialloc", "balloc", "desc"}
    /\ pc' \notin {"closed", "ialloc", "balloc", "desc"}
    /\ SameCounts /\ SameHistory /\ sb' = sb
    /\ pc' \in {"idle", "lookup", "pick", "odata"} => image' = hist'.before
Picks(g) ==
    /\ pc = "pick" /\ pc' = "ialloc" /\ g \in Roomy
    /\ loc'.g = g /\ loc'.d = image.gd[g]
    /\ UNCHANGED <<image, sb, op, hist>>
TakesInode(i) ==
    /\ pc = "ialloc" /\ pc' = "balloc" /\ i \in InodeIdx \ image.ibm[loc.g]
    /\ image' = [image EXCEPT !.ibm[loc.g] = image.ibm[loc.g] \cup {i}]
    /\ loc'.g = loc.g /\ loc'.d.freeI = Minus1(loc.d.freeI) /\ loc'.d.freeB = loc.d.freeB
    /\ loc'.d.dirs \in {loc.d.dirs, loc.d.dirs + 1}
    /\ sb' = [sb EXCEPT !.freeI = Minus1(sb.freeI)]
    /\ UNCHANGED <<op, hist>>
TakesBlock(i) ==
    /\ pc = "balloc" /\ pc' = "desc" /\ i \in BlockIdx \ image.bbm[loc.g]
    /\ image' = [image EXCEPT !.bbm[loc.g] = image.bbm[loc.g] \cup {i}]
    /\ loc'.g = loc.g /\ loc'.d.freeB = Minus1(loc.d.freeB) /\ loc'.d.freeI = loc.d.freeI
    /\ loc'.d.dirs = loc.d.dirs
    /\ sb' = [sb EXCEPT !.freeB = Minus1(sb.freeB)]
    /\ UNCHANGED <<op, hist>>
DescWritten ==
    /\ pc = "desc" /\ pc' = "body"
    /\ \E s : image' = [image EXCEPT !.gd[loc.g] = [loc.d EXCEPT !.seal = s]]
    /\ UNCHANGED <<sb, op, loc, hist>>
Flushes ==
    /\ pc = "idle" /\ pc' = "idle"
    /\ \E s : image' = [image EXCEPT !.sb = [sb EXCEPT !.seal = s]]
    /\ sb' = image'.sb /\ SameHistory /\ image' = hist'.before
Opens == pc = "closed" /\ pc' = "idle" /\ sb' = image.sb /\ UNCHANGED <<image, hist>>

Shape ==
    \/ UNCHANGED vars \/ Ends \/ Opens \/ Flushes \/ Works
    \/ \E g \in Group : Picks(g)
    \/ \E i : TakesInode(i)
    \/ \E i : TakesBlock(i)
    \/ DescWritten

\* What the end of a session leaves.
LEMMA CloseLeaves ==
    ASSUME IInv, NEW status, NEW kills \in Nat, NEW strands \in Nat,
           CloseWith(status, kills, strands)
    PROVE  /\ pc' = "closed" /\ ret'.status = status /\ hist'.before = image
           /\ hist'.kills = hist.kills + kills /\ hist'.strands = hist.strands + strands
           /\ hist'.unsynced = (hist.unsynced \/ Unflushed(image, sb))
<1> DEFINE lost == hist.unsynced \/ Unflushed(image, sb)
<1>1. hist' = [hist EXCEPT !.kills = hist.kills + kills, !.strands = hist.strands + strands,
                           !.unsynced = lost, !.before = image]
  BY DEF CloseWith
<1>2. pc' = "closed" /\ ret'.status = status
  BY DEF CloseWith
<1> HIDE DEF lost
<1>3. hist \in Histories
  BY DEF IInv, TypeOK
<1>4. /\ hist'.kills = hist.kills + kills /\ hist'.strands = hist.strands + strands
      /\ hist'.unsynced = lost /\ hist'.before = image
  BY <1>1, <1>3 DEF Histories
<1> QED BY <1>2, <1>4 DEF lost

\* Counters that need no flushing are those on disk.
LEMMA FlushedSame ==
    ASSUME NEW img \in Image, NEW s \in Counters, ~Unflushed(img, s)
    PROVE  s.freeI = img.sb.freeI /\ s.freeB = img.sb.freeB
<1> DEFINE a == [img.sb EXCEPT !.seal = "stale"]
           b == [s EXCEPT !.seal = "stale"]
<1>1. a = b
  BY DEF Unflushed
<1>2. img.sb \in Counters
  BY DEF Image
<1>3. a.freeI = img.sb.freeI /\ a.freeB = img.sb.freeB /\ b.freeI = s.freeI /\ b.freeB = s.freeB
  BY <1>2 DEF Counters
<1> HIDE DEF a, b
<1> QED BY <1>1, <1>3

\* A session that ends with the image as it is, between two writes or counted.
LEMMA CloseEnds ==
    ASSUME IInv, NEW status, NEW kills \in Nat, NEW strands \in Nat, pc # "closed",
           CloseWith(status, kills, strands), image' = image,
           pc = "balloc" => kills # 0 \/ strands # 0,
           pc = "desc" => kills # 0
    PROVE  Ends
<1>1. /\ pc' = "closed" /\ hist'.before = image
      /\ hist'.kills = hist.kills + kills /\ hist'.strands = hist.strands + strands
      /\ hist'.unsynced = (hist.unsynced \/ Unflushed(image, sb))
  BY CloseLeaves
<1>2. hist.kills \in Nat /\ hist.strands \in Nat /\ image \in Image /\ sb \in Counters
  BY DEF IInv, TypeOK, Histories
<1>3. hist'.kills = 0 => hist.kills = 0 /\ kills = 0
  BY <1>1, <1>2, NoneOfEither
<1>4. hist'.strands = 0 => hist.strands = 0 /\ strands = 0
  BY <1>1, <1>2, NoneOfEither
<1>5. Undisturbed' => Undisturbed /\ pc \notin {"balloc", "desc"}
  BY <1>3, <1>4 DEF Undisturbed
<1>6. ~hist'.unsynced =>
          ~hist.unsynced /\ sb.freeI = image.sb.freeI /\ sb.freeB = image.sb.freeB
  BY <1>1, <1>2, FlushedSame
<1> QED BY <1>1, <1>3, <1>5, <1>6 DEF Ends

\* A refusal ends the session.
LEMMA RefuseEnds ==
    ASSUME IInv, BeforeHolds, NEW status, Refuse(status), pc \notin {"closed", "desc"}
    PROVE  Ends
<1> DEFINE strands == IF image = hist.before THEN 0 ELSE 1
<1>1. strands \in Nat /\ CloseWith(status, 0, strands) /\ image' = image
  BY DEF Refuse
<1>2. pc = "balloc" => strands # 0
  BY DEF BeforeHolds
<1> HIDE DEF strands
<1> QED BY <1>1, <1>2, CloseEnds

\* A step that writes a block, an inode or nothing and ends no session.
LEMMA WorksAlone ==
    ASSUME IInv, pc \notin {"closed", "ialloc", "balloc", "desc"},
           pc' \notin {"closed", "ialloc", "balloc", "desc"},
           SameCounts, sb' = sb,
           \/ hist' = hist /\ pc' \in {"body", "inode", "dirent", "parent", "oinode"}
           \/ hist' = hist /\ image' = image /\ image = hist.before
           \/ \E in : Return(in)
    PROVE  Works
<1>1. hist \in Histories
  BY DEF IInv, TypeOK
<1>2. SameHistory
  BY <1>1 DEF SameHistory, Return, Histories
<1>3. pc' \in {"idle", "lookup", "pick", "odata"} => image' = hist'.before
  BY <1>1 DEF Return, Histories
<1> QED BY <1>2, <1>3 DEF Works

-----------------------------------------------------------------------------
(* The shape of every step.                                                *)

\* allocInode refuses or takes one free bit.
LEMMA AllocInodeShape ==
    ASSUME IInv, BeforeHolds, AllocInode PROVE Ends \/ \E i : TakesInode(i)
<1>1. CASE Refuse("refused")
  BY <1>1, RefuseEnds DEF AllocInode
<1>2. CASE ~Refuse("refused")
  <2>1. PICK i \in FreeInodeBits(loc.g) :
            /\ image' = [image EXCEPT !.ibm[loc.g] = image.ibm[loc.g] \cup {i}]
            /\ loc' = [loc EXCEPT
                   !.ino = InoReturned(loc.g, i),
                   !.d = DescAfterInode(image, @, image.ibm[loc.g] \cup {i}, op.kind = "mkdir")]
            /\ sb' = SbAfterInode(sb)
            /\ pc' = "balloc" /\ UNCHANGED <<op, ret, hist>>
    BY <1>2 DEF AllocInode
  <2> DEFINE d == DescAfterInode(image, loc.d, image.ibm[loc.g] \cup {i}, op.kind = "mkdir")
  <2>2. /\ loc.d \in GroupDesc /\ loc \in Locals /\ sb \in Counters /\ pc = "ialloc"
        /\ i \in InodeIdx \ image.ibm[loc.g]
    BY DEF IInv, TypeOK, Locals, AllocInode, FreeInodeBits
  <2>3. /\ d.freeI = Minus1(loc.d.freeI) /\ d.freeB = loc.d.freeB
        /\ d.dirs \in {loc.d.dirs, loc.d.dirs + 1}
    BY <2>2 DEF DescAfterInode, GroupDesc
  <2> HIDE DEF d
  <2>4. loc'.g = loc.g /\ loc'.d = d
    BY <2>1, <2>2 DEF Locals, d
  <2>5. sb' = [sb EXCEPT !.freeI = Minus1(sb.freeI)]
    BY <2>1 DEF SbAfterInode
  <2>6. TakesInode(i)
    BY <2>1, <2>2, <2>3, <2>4, <2>5 DEF TakesInode
  <2> QED BY <2>6
<1> QED BY <1>1, <1>2

\* allocBlock refuses or takes one free bit.
LEMMA AllocBlockShape ==
    ASSUME IInv, BeforeHolds, AllocBlock PROVE Ends \/ \E i : TakesBlock(i)
<1>1. CASE Refuse("refused")
  BY <1>1, RefuseEnds DEF AllocBlock
<1>2. CASE ~Refuse("refused")
  <2>1. PICK i \in FreeBlockBits(loc.g) :
            /\ image' = [image EXCEPT !.bbm[loc.g] = image.bbm[loc.g] \cup {i}]
            /\ loc' = [loc EXCEPT !.blk = BlkReturned(loc.g, i),
                                  !.d = DescAfterBlock(image, @, image.bbm[loc.g] \cup {i})]
            /\ sb' = SbAfterBlock(sb)
            /\ pc' = "desc" /\ UNCHANGED <<op, ret, hist>>
    BY <1>2 DEF AllocBlock
  <2> DEFINE d == DescAfterBlock(image, loc.d, image.bbm[loc.g] \cup {i})
  <2>2. /\ loc.d \in GroupDesc /\ loc \in Locals /\ sb \in Counters /\ pc = "balloc"
        /\ i \in BlockIdx \ image.bbm[loc.g]
    BY DEF IInv, TypeOK, Locals, AllocBlock, FreeBlockBits
  <2>3. /\ d.freeI = loc.d.freeI /\ d.freeB = Minus1(loc.d.freeB) /\ d.dirs = loc.d.dirs
    BY <2>2 DEF DescAfterBlock, GroupDesc
  <2> HIDE DEF d
  <2>4. loc'.g = loc.g /\ loc'.d = d
    BY <2>1, <2>2 DEF Locals, d
  <2>5. sb' = [sb EXCEPT !.freeB = Minus1(sb.freeB)]
    BY <2>1 DEF SbAfterBlock
  <2>6. TakesBlock(i)
    BY <2>1, <2>2, <2>3, <2>4, <2>5 DEF TakesBlock
  <2> QED BY <2>6
<1> QED BY <1>1, <1>2

\* pickGroup finds no group with room or reads the descriptor of one.
LEMMA PickGroupShape ==
    ASSUME IInv, BeforeHolds, PickGroup PROVE Ends \/ \E g \in Group : Picks(g)
<1>1. CASE Refuse("refused")
  BY <1>1, RefuseEnds DEF PickGroup
<1>2. CASE ~Refuse("refused")
  <2>1. PICK g \in Roomy :
            /\ loc' = [loc EXCEPT !.g = g, !.d = image.gd[g]]
            /\ pc' = "ialloc" /\ UNCHANGED <<image, sb, op, ret, hist>>
    BY <1>2 DEF PickGroup
  <2>2. loc'.g = g /\ loc'.d = image.gd[g]
    BY <2>1 DEF IInv, TypeOK, Locals
  <2>3. g \in Group /\ Picks(g)
    BY <2>1, <2>2 DEF Picks, PickGroup, Roomy
  <2> QED BY <2>3
<1> QED BY <1>1, <1>2

\* Writing a block leaves what is counted.
LEMMA BlockWriteCounts ==
    ASSUME NEW b, NEW x, image \in Image, image' = [image EXCEPT !.blk[b] = x]
    PROVE  SameCounts
  BY DEF SameCounts, Image

\* An inode written changes nothing that is counted.
LEMMA InodeWriteCounts ==
    ASSUME NEW in, image \in Image, image' = WriteInodeTo(image, in) PROVE SameCounts
  BY InodeWriteLeaves DEF SameCounts

\* The other steps of an operation write contents or nothing.
LEMMA ContentsShape ==
    ASSUME IInv, BeforeHolds,
           \/ LookupName \/ WriteBody \/ WriteInode \/ AddDirent \/ WriteParent
           \/ OverwriteData \/ OverwriteInode
    PROVE  Ends \/ Works
<1>1. image \in Image
  BY DEF IInv, TypeOK
<1>2. CASE LookupName
  <2>1. CASE pc' = "pick" /\ UNCHANGED <<image, sb, op, loc, ret, hist>>
    <3>1. image = hist.before /\ SameCounts
      BY <1>2, <2>1 DEF LookupName, BeforeHolds, SameCounts
    <3> QED BY <1>2, <2>1, <3>1, WorksAlone DEF LookupName
  <2>2. CASE Refuse("refused") \/ Refuse("exists")
    BY <1>2, <2>2, RefuseEnds DEF LookupName
  <2> QED BY <1>2, <2>1, <2>2 DEF LookupName
<1>3. CASE WriteBody
  <2>1. SameCounts
    BY <1>1, <1>3, BlockWriteCounts DEF WriteBody
  <2> QED BY <1>3, <2>1, WorksAlone DEF WriteBody
<1>4. CASE WriteInode
  <2>1. SameCounts
    BY <1>1, <1>4, InodeWriteCounts DEF WriteInode
  <2> QED BY <1>4, <2>1, WorksAlone DEF WriteInode
<1>5. CASE AddDirent
  <2>1. CASE Refuse("refused")
    BY <1>5, <2>1, RefuseEnds DEF AddDirent
  <2>2. CASE ~Refuse("refused")
    <3>1. /\ \E x : image' = [image EXCEPT !.blk[op.in.raw.blk] = x]
          /\ pc = "dirent" /\ sb' = sb
          /\ \/ pc' = "parent" /\ hist' = hist
             \/ Return(Sealed(image, NewInode))
      BY <1>5, <2>2 DEF AddDirent
    <3>2. SameCounts
      BY <1>1, <3>1, BlockWriteCounts
    <3>3. pc' \in {"parent", "idle"}
      BY <3>1 DEF Return
    <3> QED BY <3>1, <3>2, <3>3, WorksAlone
  <2> QED BY <2>1, <2>2
<1>6. CASE WriteParent
  <2>1. SameCounts
    BY <1>1, <1>6, InodeWriteCounts DEF WriteParent
  <2>2. pc = "parent" /\ sb' = sb /\ Return(Sealed(image, NewInode))
    BY <1>6 DEF WriteParent
  <2>3. pc' = "idle"
    BY <2>2 DEF Return
  <2> QED BY <2>1, <2>2, <2>3, WorksAlone
<1>7. CASE OverwriteData
  <2>1. CASE Refuse("refused")
    BY <1>7, <2>1, RefuseEnds DEF OverwriteData
  <2>2. CASE ~Refuse("refused")
    <3>1. /\ \E x : image' = [image EXCEPT !.blk[op.in.raw.blk] = x]
          /\ pc = "odata" /\ pc' = "oinode" /\ UNCHANGED <<sb, hist>>
      BY <1>7, <2>2 DEF OverwriteData
    <3>2. SameCounts
      BY <1>1, <3>1, BlockWriteCounts
    <3> QED BY <3>1, <3>2, WorksAlone
  <2> QED BY <2>1, <2>2
<1>8. CASE OverwriteInode
  <2>1. SameCounts
    BY <1>1, <1>8, InodeWriteCounts DEF OverwriteInode
  <2>2. pc = "oinode" /\ pc' = "idle" /\ sb' = sb /\ \E in : Return(in)
    BY <1>8 DEF OverwriteInode, Return
  <2> QED BY <2>1, <2>2, WorksAlone
<1> QED BY <1>2, <1>3, <1>4, <1>5, <1>6, <1>7, <1>8

\* So do a session's calls, but for its end and Sync.
LEMMA CallerShape ==
    ASSUME IInv, BeforeHolds, Caller PROVE Shape
<1>1. hist \in Histories
  BY DEF IInv, TypeOK
<1>2. CASE OpenFS
  <2>1. Opens
    BY <1>2 DEF OpenFS, Opens
  <2> QED BY <2>1 DEF Shape
<1>3. CASE Sync
  <2> DEFINE t == SbSeal(image, sb.seal)
             s == [sb EXCEPT !.seal = t]
  <2>1. /\ pc = "idle" /\ pc' = "idle" /\ image' = [image EXCEPT !.sb = s] /\ sb' = s
        /\ hist' = [hist EXCEPT !.before = image']
    BY <1>3 DEF Sync
  <2>2. sb' = image'.sb /\ SameHistory /\ image' = hist'.before
    BY <1>1, <2>1 DEF SameHistory, Histories, IInv, TypeOK, Image
  <2> HIDE DEF t
  <2>3. Flushes
    BY <2>1, <2>2 DEF Flushes
  <2> QED BY <2>3 DEF Shape
<1>4. CASE Close
  <2>1. Ends
    BY <1>4, CloseEnds DEF Close
  <2> QED BY <2>1 DEF Shape
<1>5. ASSUME NEW kind, NEW in, NEW name, NEW data, NEW first \in {"lookup", "odata"},
             Call(kind, in, name, data, first)
      PROVE  Shape
  <2>1. /\ hist' = [hist EXCEPT !.calls = @ + 1] /\ image' = image
        /\ pc = "idle" /\ pc' = first /\ sb' = sb
    BY <1>5 DEF Call
  <2>2. SameHistory /\ hist'.before = hist.before /\ image = hist.before
    BY <1>1, <2>1 DEF Histories, SameHistory, BeforeHolds
  <2>3. Works
    BY <2>1, <2>2 DEF Works, SameCounts
  <2> QED BY <2>3 DEF Shape
<1> QED BY <1>2, <1>3, <1>4, <1>5 DEF Caller, CallMkdir, CallCreateFile, CallOverwrite

\* Every step has one of the shapes.
LEMMA NextShape == ASSUME IInv, BeforeHolds, [Next]_vars PROVE Shape
<1>1. CASE Step
  <2>1. ASSUME Ends \/ Works PROVE Shape
    BY <2>1 DEF Shape
  <2>2. CASE PickGroup
    BY <2>2, PickGroupShape DEF Shape
  <2>3. CASE AllocInode
    BY <2>3, AllocInodeShape DEF Shape
  <2>4. CASE AllocBlock
    BY <2>4, AllocBlockShape DEF Shape
  <2>5. CASE WriteDesc
    <3>1. DescWritten
      BY <2>5 DEF WriteDesc, DescWritten
    <3> QED BY <3>1 DEF Shape
  <2> QED BY <1>1, <2>1, <2>2, <2>3, <2>4, <2>5, ContentsShape DEF Step
<1>2. CASE Kill
  <2>1. Ends
    BY <1>2, CloseEnds DEF Kill
  <2> QED BY <2>1 DEF Shape
<1> QED BY <1>1, <1>2, CallerShape DEF Next, Shape

\* An operation knows the image it began with, until it writes.
LEMMA NextBefore == ASSUME IInv, BeforeHolds, [Next]_vars PROVE BeforeHolds'
<1>1. Shape
  BY NextShape
<1>2. CASE Ends \/ Opens \/ UNCHANGED vars \/ DescWritten \/ Flushes \/ Works
  BY <1>2 DEF Ends, Opens, vars, DescWritten, Flushes, Works, BeforeHolds
<1>3. ASSUME NEW g \in Group, Picks(g) PROVE BeforeHolds'
  BY <1>3 DEF Picks, BeforeHolds
<1>4. ASSUME NEW i, TakesInode(i) PROVE BeforeHolds'
  <2>1. loc.g \in Group /\ image \in Image
    BY DEF IInv, TypeOK, Locals
  <2>2. i \in image'.ibm[loc.g] /\ i \notin image.ibm[loc.g]
    BY <1>4, <2>1 DEF TakesInode, Image
  <2>3. image' # image
    BY <2>2
  <2> QED BY <1>4, <2>3 DEF TakesInode, BeforeHolds
<1>5. ASSUME NEW i, TakesBlock(i) PROVE BeforeHolds'
  BY <1>5 DEF TakesBlock, BeforeHolds
<1> QED BY <1>1, <1>2, <1>3, <1>4, <1>5 DEF Shape

-----------------------------------------------------------------------------
(* Bounds of the sum, and what a group changes in it.                      *)

GroupCounters == {"freeI", "freeB"}

\* The groups' counters are numbers.
LEMMA PerGroupType ==
    ASSUME NEW img \in Image, NEW field \in GroupCounters
    PROVE  PerGroup(img, field) \in [Group -> Nat]
  BY DEF PerGroup, Image, GroupDesc, GroupCounters

\* A sum is at least each of its terms and at most their number times the greatest.
LEMMA SumBounds ==
    ASSUME NEW img \in Image, NEW field \in GroupCounters
    PROVE  /\ GroupSum(img, field) \in Nat
           /\ \A g \in Group : img.gd[g][field] <= GroupSum(img, field)
           /\ \A b \in Nat : (\A g \in Group : img.gd[g][field] <= b) =>
                                GroupSum(img, field) <= NumGroups * b
<1> DEFINE v == PerGroup(img, field)
<1>1. v \in [Group -> Nat] /\ \A g \in Group : v[g] = img.gd[g][field]
  BY PerGroupType DEF PerGroup
<1>2. PICK f : Adds(f, v, Group, AnyOf(Group)) /\ GroupSum(img, field) = f[Group]
  BY <1>1, GroupSumIs
<1> HIDE DEF v
<1>3. IsFiniteSet(Group) /\ Cardinality(Group) = NumGroups /\ Chooses(AnyOf(Group), Group)
  BY GroupIsFinite, AnyOfChooses
<1>4. f[Group] \in Nat
  BY <1>1, <1>2, <1>3, AddsType
<1>5. ASSUME NEW g \in Group PROVE v[g] <= f[Group]
  BY <1>1, <1>2, <1>3, AddsAtLeast
<1>6. ASSUME NEW b \in Nat, \A g \in Group : v[g] <= b PROVE f[Group] <= NumGroups * b
  <2>1. f[Group] <= Cardinality(Group) * b
    BY <1>1, <1>2, <1>3, <1>6, AddsAtMost
  <2> QED BY <1>3, <2>1
<1> QED BY <1>1, <1>2, <1>4, <1>5, <1>6

\* Only one group's counter changes.
LEMMA SumChange ==
    ASSUME NEW img \in Image, NEW new \in Image, NEW field \in GroupCounters, NEW g \in Group,
           \A h \in Group \ {g} : new.gd[h][field] = img.gd[h][field]
    PROVE  GroupSum(new, field) + img.gd[g][field] = GroupSum(img, field) + new.gd[g][field]
<1> DEFINE v == PerGroup(img, field)
           w == PerGroup(new, field)
<1>1. /\ v \in [Group -> Nat] /\ \A h \in Group : v[h] = img.gd[h][field]
      /\ w \in [Group -> Nat] /\ \A h \in Group : w[h] = new.gd[h][field]
  BY PerGroupType DEF PerGroup
<1>2. PICK f : Adds(f, v, Group, AnyOf(Group)) /\ GroupSum(img, field) = f[Group]
  BY <1>1, GroupSumIs
<1>3. PICK k : Adds(k, w, Group, AnyOf(Group)) /\ GroupSum(new, field) = k[Group]
  BY <1>1, GroupSumIs
<1> HIDE DEF v, w
<1>4. IsFiniteSet(Group) /\ Chooses(AnyOf(Group), Group)
  BY GroupIsFinite, AnyOfChooses
<1>5. \A h \in Group \ {g} : w[h] = v[h]
  BY <1>1
<1>6. k[Group] + v[g] = f[Group] + w[g]
  BY <1>1, <1>2, <1>3, <1>4, <1>5, AddsChange
<1> QED BY <1>1, <1>2, <1>3, <1>6

\* No group's counter changes.
LEMMA SumSame ==
    ASSUME NEW img \in Image, NEW new \in Image, NEW field \in GroupCounters,
           new.gd = img.gd
    PROVE  GroupSum(new, field) = GroupSum(img, field)
<1>1. 0 \in Group
  BY GeometryAssumption DEF Group
<1>2. GroupSum(new, field) + img.gd[0][field] = GroupSum(img, field) + new.gd[0][field]
  BY <1>1, SumChange
<1>3. GroupSum(new, field) \in Nat /\ GroupSum(img, field) \in Nat /\ img.gd[0][field] \in Nat
  BY <1>1, SumBounds DEF Image, GroupDesc, GroupCounters
<1> QED BY <1>2, <1>3

-----------------------------------------------------------------------------
(* The counters.                                                           *)

InodesHeld == IF pc \in {"balloc", "desc"} THEN 1 ELSE 0
BlocksHeld == IF pc = "desc" THEN 1 ELSE 0

GroupBounded(img, g) ==
    LET d == img.gd[g] IN
    /\ d.freeI <= InodesPerGroup /\ d.freeB <= BlocksPerGroup
    /\ d.dirs <= InodesPerGroup
    /\ ~d.iUninit => d.dirs <= Cardinality(img.ibm[g])
GroupsBounded == \A g \in Group : GroupBounded(image, g)

\* The descriptor in memory is the one on disk less what has been taken.
DescHolds ==
    LET was == image.gd[loc.g] IN
    /\ pc = "ialloc" => loc.d = was
    /\ pc \in {"ialloc", "balloc", "desc"} => was.freeI # 0 /\ was.freeB # 0
    /\ pc \in {"balloc", "desc"} =>
          /\ loc.d.freeI = was.freeI - 1
          /\ loc.d.freeB = was.freeB - BlocksHeld
          /\ loc.d.dirs <= Cardinality(image.ibm[loc.g])

\* Totals, with those of i inodes and b blocks that are taken and not yet
\* subtracted in a group.
Covers(s, img, i, b) ==
    /\ s.freeI + i >= GroupSum(img, "freeI") /\ s.freeI <= NumGroups * InodesPerGroup
    /\ s.freeB + b >= GroupSum(img, "freeB") /\ s.freeB <= NumGroups * BlocksPerGroup
Agree(s, img, i, b) ==
    /\ s.freeI + i = GroupSum(img, "freeI")
    /\ s.freeB + b = GroupSum(img, "freeB")
TotalsHold ==
    /\ Covers(image.sb, image, 0, 0)
    /\ pc # "closed" => Covers(sb, image, InodesHeld, BlocksHeld)
    /\ Undisturbed /\ ~hist.unsynced =>
          IF pc = "closed" THEN Agree(image.sb, image, 0, 0)
          ELSE Agree(sb, image, InodesHeld, BlocksHeld)

GInv == IInv /\ BeforeHolds /\ GroupsBounded /\ DescHolds
NInv == GInv /\ TotalsHold

\* A subset of the inodes of a group has no more members than the group.
LEMMA InodeBits ==
    ASSUME NEW bits \in SUBSET InodeIdx
    PROVE  IsFiniteSet(bits) /\ Cardinality(bits) \in Nat /\ Cardinality(bits) <= InodesPerGroup
<1>1. 0 \in Int /\ InodesPerGroup - 1 \in Int /\ InodesPerGroup \in Nat \ {0}
  BY GeometryAssumption
<1>2. /\ IsFiniteSet(0 .. InodesPerGroup - 1)
      /\ Cardinality(0 .. InodesPerGroup - 1) =
            IF 0 > InodesPerGroup - 1 THEN 0 ELSE (InodesPerGroup - 1) - 0 + 1
  BY <1>1, FS_Interval
<1>3. IsFiniteSet(InodeIdx) /\ Cardinality(InodeIdx) = InodesPerGroup
  BY <1>1, <1>2 DEF InodeIdx
<1>4. IsFiniteSet(bits) /\ Cardinality(bits) <= Cardinality(InodeIdx)
  BY <1>3, FS_Subset
<1> QED BY <1>3, <1>4, FS_CardinalityType

\* The block bits of a group are at most its blocks.
LEMMA BlockBits ==
    ASSUME NEW bits \in SUBSET BlockIdx
    PROVE  IsFiniteSet(bits) /\ Cardinality(bits) \in Nat /\ Cardinality(bits) <= BlocksPerGroup
<1>1. 0 \in Int /\ BlocksPerGroup - 1 \in Int /\ BlocksPerGroup \in Nat \ {0}
  BY GeometryAssumption
<1>2. /\ IsFiniteSet(0 .. BlocksPerGroup - 1)
      /\ Cardinality(0 .. BlocksPerGroup - 1) =
            IF 0 > BlocksPerGroup - 1 THEN 0 ELSE (BlocksPerGroup - 1) - 0 + 1
  BY <1>1, FS_Interval
<1>3. IsFiniteSet(BlockIdx) /\ Cardinality(BlockIdx) = BlocksPerGroup
  BY <1>1, <1>2 DEF BlockIdx
<1>4. IsFiniteSet(bits) /\ Cardinality(bits) <= Cardinality(BlockIdx)
  BY <1>3, FS_Subset
<1> QED BY <1>3, <1>4, FS_CardinalityType

\* fsck's counters are within the groups.
LEMMA InitGInv == Init => GInv
<1> SUFFICES ASSUME Init PROVE GInv
  OBVIOUS
<1>1. /\ image \in InitialImages /\ pc = "closed" /\ hist.before = image /\ image \in Image
      /\ FsckClean(image)
  BY ImagesAssumption DEF Init
<1>2. InodesPerGroup \in Nat /\ BlocksPerGroup \in Nat
  BY GeometryAssumption
<1>3. ASSUME NEW g \in Group PROVE GroupBounded(image, g)
  <2> DEFINE used == UsedInodeBits(image, g)
             taken == UsedBlockBits(image, g)
             dirs == {i \in InodeIdx : InoNum(g, i) \in DirsOf(image)}
             d == image.gd[g]
  <2>1. /\ d.freeI = InodesPerGroup - Cardinality(used)
        /\ d.freeB = BlocksPerGroup - Cardinality(taken)
        /\ d.dirs = Cardinality(dirs)
        /\ ~d.iUninit => image.ibm[g] = used
    BY <1>1 DEF FsckClean, GroupCountsMatch, BitmapsMatch
  <2>2. used \in SUBSET InodeIdx /\ taken \in SUBSET BlockIdx /\ dirs \subseteq used
    BY DEF UsedInodeBits, UsedBlockBits, DirsOf
  <2> HIDE DEF used, taken, dirs, d
  <2>3. /\ IsFiniteSet(used) /\ Cardinality(used) \in Nat /\ Cardinality(used) <= InodesPerGroup
        /\ Cardinality(taken) \in Nat
    BY <2>2, InodeBits, BlockBits
  <2>4. Cardinality(dirs) <= Cardinality(used) /\ Cardinality(dirs) \in Nat
    BY <2>2, <2>3, FS_Subset, FS_CardinalityType
  <2>5. /\ d.freeI <= InodesPerGroup /\ d.freeB <= BlocksPerGroup
        /\ d.dirs <= InodesPerGroup
        /\ ~d.iUninit => d.dirs <= Cardinality(image.ibm[g])
    BY <1>2, <2>1, <2>3, <2>4
  <2> QED BY <2>5 DEF GroupBounded, d
<1> QED BY <1>1, <1>3, InitIInv DEF GInv, GroupsBounded, DescHolds, BeforeHolds

\* The first image's totals are the sums.
LEMMA InitNInv == ASSUME TotalsAgree, Init PROVE NInv
<1>1. /\ pc = "closed" /\ image \in Image /\ SuperblockAgrees(image)
  BY ImagesAssumption DEF Init, TotalsAgree
<1>2. InodesPerGroup \in Nat /\ BlocksPerGroup \in Nat
  BY GeometryAssumption
<1>3. GInv
  BY InitGInv
<1>4. Covers(image.sb, image, 0, 0) /\ Agree(image.sb, image, 0, 0)
  <2>1. image.sb.freeI = GroupSum(image, "freeI") /\ image.sb.freeB = GroupSum(image, "freeB")
    BY <1>1 DEF SuperblockAgrees
  <2>2. /\ \A g \in Group : image.gd[g]["freeI"] <= InodesPerGroup
        /\ \A g \in Group : image.gd[g]["freeB"] <= BlocksPerGroup
    BY <1>3 DEF GInv, GroupsBounded, GroupBounded
  <2>3. /\ GroupSum(image, "freeI") \in Nat /\ GroupSum(image, "freeB") \in Nat
        /\ GroupSum(image, "freeI") <= NumGroups * InodesPerGroup
        /\ GroupSum(image, "freeB") <= NumGroups * BlocksPerGroup
    BY <1>1, <1>2, <2>2, SumBounds DEF GroupCounters
  <2> QED BY <2>1, <2>3 DEF Covers, Agree
<1> QED BY <1>1, <1>3, <1>4 DEF NInv, TotalsHold

\* Counters that hold every group's fit each one's.
LEMMA FitFits == CountersFit => GroupsFit
<1>1. InodesPerGroup <= NumGroups * InodesPerGroup /\ NumGroups * InodesPerGroup \in Int
  BY GeometryAssumption, SMT
<1>2. BlocksPerGroup <= NumGroups * BlocksPerGroup /\ NumGroups * BlocksPerGroup \in Int
  BY GeometryAssumption, SMT
<1> QED BY <1>1, <1>2, GeometryAssumption DEF CountersFit, GroupsFit

\* Types of what is added up.
LEMMA CountTypes ==
    ASSUME IInv
    PROVE  /\ image \in Image /\ sb \in Counters /\ image.sb \in Counters /\ loc \in Locals
           /\ loc.g \in Group /\ loc.d \in GroupDesc
           /\ \A g \in Group : image.gd[g] \in GroupDesc /\ image.ibm[g] \in SUBSET InodeIdx
           /\ \A g \in Group : image.bbm[g] \in SUBSET BlockIdx
           /\ GroupSum(image, "freeI") \in Nat /\ GroupSum(image, "freeB") \in Nat
           /\ NumGroups * InodesPerGroup \in Nat /\ NumGroups * BlocksPerGroup \in Nat
<1>1. image \in Image /\ sb \in Counters /\ loc \in Locals
  BY DEF IInv, TypeOK
<1>2. GroupSum(image, "freeI") \in Nat /\ GroupSum(image, "freeB") \in Nat
  BY <1>1, SumBounds DEF GroupCounters
<1>3. NumGroups * InodesPerGroup \in Nat /\ NumGroups * BlocksPerGroup \in Nat
  BY GeometryAssumption, SMT
<1> QED BY <1>1, <1>2, <1>3 DEF Image, Locals

\* Both sums are as they were when no descriptor is written.
LEMMA SumsSame ==
    ASSUME IInv, IInv', image'.gd = image.gd
    PROVE  /\ GroupSum(image', "freeI") = GroupSum(image, "freeI")
           /\ GroupSum(image', "freeB") = GroupSum(image, "freeB")
  BY SumSame, CountTypes DEF GroupCounters, IInv, TypeOK

\* Between allocations nothing is held.
LEMMA QuietGInv ==
    ASSUME GInv, IInv', BeforeHolds', image'.gd = image.gd, image'.ibm = image.ibm,
           pc' \notin {"ialloc", "balloc", "desc"}
    PROVE  GInv'
<1>1. GroupsBounded'
  BY DEF GInv, GroupsBounded, GroupBounded
<1>2. DescHolds'
  BY DEF DescHolds
<1> QED BY <1>1, <1>2 DEF GInv

\* Without an allocation under way the totals cover the groups' sums as they are.
LEMMA QuietNInv ==
    ASSUME NInv, GInv', image'.gd = image.gd,
           pc' \notin {"balloc", "desc"},
           Covers(image'.sb, image, 0, 0),
           pc' # "closed" => Covers(sb', image, 0, 0),
           Undisturbed' /\ ~hist'.unsynced =>
              IF pc' = "closed" THEN Agree(image'.sb, image, 0, 0) ELSE Agree(sb', image, 0, 0)
    PROVE  NInv'
<1>1. /\ GroupSum(image', "freeI") = GroupSum(image, "freeI")
      /\ GroupSum(image', "freeB") = GroupSum(image, "freeB")
  BY SumsSame DEF NInv, GInv
<1>2. InodesHeld' = 0 /\ BlocksHeld' = 0
  BY DEF InodesHeld, BlocksHeld
<1>5. Covers(image'.sb, image', 0, 0) /\ (pc' # "closed" => Covers(sb', image', 0, 0))
  BY <1>1 DEF Covers
<1>6. Undisturbed' /\ ~hist'.unsynced =>
          IF pc' = "closed" THEN Agree(image'.sb, image', 0, 0) ELSE Agree(sb', image', 0, 0)
  BY <1>1 DEF Agree
<1>7. TotalsHold'
  BY <1>2, <1>5, <1>6 DEF TotalsHold
<1> QED BY <1>7 DEF NInv

\* A counter that is not zero and fits does not wrap.
LEMMA Minus1Is == ASSUME NEW x \in Nat, x # 0, x <= CounterMod PROVE Minus1(x) = x - 1
<1>1. CounterMod \in Nat \ {0}
  BY GeometryAssumption
<1>2. x - 1 \in Nat /\ x - 1 < CounterMod
  BY <1>1
<1>3. \A m \in Nat \ {0} : \A a \in Nat : a < m => a % m = a
  BY SMT
<1> QED BY <1>1, <1>2, <1>3 DEF Minus1

\* One more member.
LEMMA OneMore ==
    ASSUME NEW S, NEW x, IsFiniteSet(S), x \notin S
    PROVE  Cardinality(S \cup {x}) = Cardinality(S) + 1
  BY FS_AddElement

\* The descriptor in memory when an inode or a block is taken.
LEMMA TakesInodeDesc ==
    ASSUME GroupsFit, GInv, NEW i, TakesInode(i)
    PROVE  /\ loc'.d.freeI = loc.d.freeI - 1 /\ loc'.d.freeB = loc.d.freeB
           /\ loc.d.freeI \in Nat \ {0} /\ loc.d.freeB \in Nat \ {0} /\ loc.d = image.gd[loc.g]
           /\ loc'.g = loc.g /\ loc.g \in Group /\ image'.gd = image.gd /\ image'.sb = image.sb
           /\ image'.bbm = image.bbm /\ image'.ibm[loc.g] = image.ibm[loc.g] \cup {i}
           /\ \A h \in Group \ {loc.g} : image'.ibm[h] = image.ibm[h]
<1>1. /\ pc = "ialloc" /\ loc'.g = loc.g
      /\ loc'.d.freeI = Minus1(loc.d.freeI) /\ loc'.d.freeB = loc.d.freeB
      /\ image' = [image EXCEPT !.ibm[loc.g] = image.ibm[loc.g] \cup {i}]
  BY DEF TakesInode
<1>2. loc.g \in Group /\ loc.d \in GroupDesc /\ image \in Image
  BY CountTypes DEF GInv
<1>3. /\ loc.d = image.gd[loc.g] /\ loc.d.freeI # 0 /\ loc.d.freeB # 0
      /\ loc.d.freeI <= InodesPerGroup
  BY <1>1, <1>2 DEF GInv, DescHolds, GroupsBounded, GroupBounded
<1>4. loc.d.freeI \in Nat /\ loc.d.freeB \in Nat
  BY <1>2 DEF GroupDesc
<1>5. loc.d.freeI <= CounterMod
  BY <1>3, <1>4, GeometryAssumption DEF GroupsFit
<1>6. Minus1(loc.d.freeI) = loc.d.freeI - 1
  BY <1>3, <1>4, <1>5, Minus1Is
<1> QED BY <1>1, <1>2, <1>3, <1>4, <1>6 DEF Image

\* The descriptor in memory when a block is taken.
LEMMA TakesBlockDesc ==
    ASSUME GroupsFit, GInv, NEW i, TakesBlock(i)
    PROVE  /\ loc'.d.freeB = loc.d.freeB - 1 /\ loc'.d.freeI = loc.d.freeI
           /\ loc'.d.dirs = loc.d.dirs
           /\ loc.d.freeB \in Nat \ {0} /\ loc.d.freeB = image.gd[loc.g].freeB
           /\ loc'.g = loc.g /\ loc.g \in Group /\ image'.gd = image.gd /\ image'.sb = image.sb
           /\ image'.ibm = image.ibm /\ image'.bbm[loc.g] = image.bbm[loc.g] \cup {i}
           /\ \A h \in Group \ {loc.g} : image'.bbm[h] = image.bbm[h]
<1>1. /\ pc = "balloc" /\ loc'.g = loc.g /\ loc'.d.dirs = loc.d.dirs
      /\ loc'.d.freeB = Minus1(loc.d.freeB) /\ loc'.d.freeI = loc.d.freeI
      /\ image' = [image EXCEPT !.bbm[loc.g] = image.bbm[loc.g] \cup {i}]
  BY DEF TakesBlock
<1>2. /\ loc.g \in Group /\ loc.d \in GroupDesc /\ image \in Image
      /\ image.gd[loc.g] \in GroupDesc
  BY CountTypes DEF GInv
<1>3. /\ loc.d.freeB = image.gd[loc.g].freeB - 0 /\ image.gd[loc.g].freeB # 0
      /\ image.gd[loc.g].freeB <= BlocksPerGroup
  BY <1>1, <1>2 DEF GInv, DescHolds, GroupsBounded, GroupBounded, BlocksHeld
<1>4. loc.d.freeB \in Nat /\ image.gd[loc.g].freeB \in Nat
  BY <1>2 DEF GroupDesc
<1>5. loc.d.freeB <= CounterMod /\ loc.d.freeB # 0 /\ loc.d.freeB = image.gd[loc.g].freeB
  BY <1>3, <1>4, GeometryAssumption DEF GroupsFit
<1>6. Minus1(loc.d.freeB) = loc.d.freeB - 1
  BY <1>4, <1>5, Minus1Is
<1> QED BY <1>1, <1>2, <1>4, <1>5, <1>6 DEF Image

\* The descriptor on disk when it is written.
LEMMA DescWrittenDesc ==
    ASSUME GInv, DescWritten
    PROVE  LET d == image'.gd[loc.g] IN
           /\ loc.g \in Group /\ image'.sb = image.sb
           /\ image'.ibm = image.ibm /\ image'.bbm = image.bbm
           /\ \A h \in Group \ {loc.g} : image'.gd[h] = image.gd[h]
           /\ d.freeI = loc.d.freeI /\ d.freeB = loc.d.freeB /\ d.dirs = loc.d.dirs
           /\ d.iUninit = loc.d.iUninit /\ d.bUninit = loc.d.bUninit
           /\ d.freeI = image.gd[loc.g].freeI - 1 /\ d.freeB = image.gd[loc.g].freeB - 1
           /\ d.freeI \in Nat /\ d.freeB \in Nat
           /\ image.gd[loc.g].freeI \in Nat /\ image.gd[loc.g].freeB \in Nat
<1>1. PICK s : /\ pc = "desc"
               /\ image' = [image EXCEPT !.gd[loc.g] = [loc.d EXCEPT !.seal = s]]
  BY DEF DescWritten
<1> DEFINE d == [loc.d EXCEPT !.seal = s]
<1>2. /\ image \in Image /\ loc.g \in Group /\ loc.d \in GroupDesc
      /\ image.gd[loc.g] \in GroupDesc
  BY CountTypes DEF GInv
<1>3. /\ d.freeI = loc.d.freeI /\ d.freeB = loc.d.freeB /\ d.dirs = loc.d.dirs
      /\ d.iUninit = loc.d.iUninit /\ d.bUninit = loc.d.bUninit
  BY <1>2 DEF GroupDesc
<1> HIDE DEF d
<1>4. /\ image'.gd[loc.g] = d /\ \A h \in Group \ {loc.g} : image'.gd[h] = image.gd[h]
      /\ image'.sb = image.sb /\ image'.ibm = image.ibm /\ image'.bbm = image.bbm
  BY <1>1, <1>2 DEF Image, d
<1>5. loc.d.freeI = image.gd[loc.g].freeI - 1 /\ loc.d.freeB = image.gd[loc.g].freeB - 1
  BY <1>1 DEF GInv, DescHolds, BlocksHeld
<1>6. /\ loc.d.freeI \in Nat /\ loc.d.freeB \in Nat
      /\ image.gd[loc.g].freeI \in Nat /\ image.gd[loc.g].freeB \in Nat
  BY <1>2 DEF GroupDesc
<1> QED BY <1>2, <1>3, <1>4, <1>5, <1>6

-----------------------------------------------------------------------------
(* The groups' counters, step by step.                                     *)

\* The group chosen has a free inode and a free block; its descriptor is read.
LEMMA PicksGInv ==
    ASSUME GInv, IInv', BeforeHolds', NEW g \in Group, Picks(g) PROVE GInv'
  BY DEF Picks, Roomy, HasRoom, GInv, GroupsBounded, GroupBounded, DescHolds

\* One inode fewer: the descriptor in memory follows the bitmap.
LEMMA TakesInodeGInv ==
    ASSUME GroupsFit, GInv, IInv', BeforeHolds', NEW i, TakesInode(i) PROVE GInv'
<1> DEFINE g == loc.g
           bits == image.ibm[g] \cup {i}
<1>1. /\ pc = "ialloc" /\ pc' = "balloc" /\ i \in InodeIdx /\ i \notin image.ibm[g]
      /\ loc'.d.dirs \in {loc.d.dirs, loc.d.dirs + 1}
  BY DEF TakesInode
<1>2. /\ loc'.d.freeI = loc.d.freeI - 1 /\ loc'.d.freeB = loc.d.freeB
      /\ loc.d.freeI \in Nat \ {0} /\ loc.d.freeB \in Nat \ {0} /\ loc.d = image.gd[g]
      /\ loc'.g = g /\ g \in Group /\ image'.gd = image.gd
      /\ image'.ibm[g] = bits /\ \A h \in Group \ {g} : image'.ibm[h] = image.ibm[h]
  BY TakesInodeDesc
<1>3. loc.d.dirs <= Cardinality(image.ibm[g]) /\ loc.d.dirs \in Nat
  BY <1>1, <1>2, CountTypes DEF GInv, GroupsBounded, GroupBounded, IInv, GroupHolds, GroupDesc
<1>4. Cardinality(bits) = Cardinality(image.ibm[g]) + 1 /\ Cardinality(image.ibm[g]) \in Nat
  <2>1. image.ibm[g] \in SUBSET InodeIdx
    BY <1>2, CountTypes DEF GInv
  <2> QED BY <1>1, <2>1, InodeBits, OneMore
<1> HIDE DEF bits
<1>5. BlocksHeld' = 0
  BY <1>1 DEF BlocksHeld
<1>6. GroupsBounded'
  <2> SUFFICES ASSUME NEW h \in Group PROVE GroupBounded(image', h)
    BY DEF GroupsBounded
  <2>1. GroupBounded(image, h)
    BY DEF GInv, GroupsBounded
  <2>2. CASE h = g
    <3>1. image.gd[h].dirs <= Cardinality(image'.ibm[h])
      BY <1>2, <1>3, <1>4, <2>2
    <3> QED BY <1>2, <2>1, <3>1 DEF GroupBounded
  <2>3. CASE h # g
    BY <1>2, <2>1, <2>3 DEF GroupBounded
  <2> QED BY <2>2, <2>3
<1>7. DescHolds'
  <2>1. loc'.d.dirs <= Cardinality(bits)
    BY <1>1, <1>3, <1>4
  <2>2. loc'.d.freeI = image'.gd[g].freeI - 1 /\ loc'.d.freeB = image'.gd[g].freeB - 0
    BY <1>2
  <2> QED BY <1>1, <1>2, <1>5, <2>1, <2>2 DEF DescHolds
<1> QED BY <1>6, <1>7 DEF GInv

\* One block fewer: the descriptor in memory follows the bitmap.
LEMMA TakesBlockGInv ==
    ASSUME GroupsFit, GInv, IInv', BeforeHolds', NEW i, TakesBlock(i) PROVE GInv'
<1>1. pc = "balloc" /\ pc' = "desc"
  BY DEF TakesBlock
<1>2. /\ loc'.d.freeB = loc.d.freeB - 1 /\ loc'.d.freeI = loc.d.freeI
      /\ loc'.d.dirs = loc.d.dirs
      /\ loc.d.freeB \in Nat \ {0} /\ loc.d.freeB = image.gd[loc.g].freeB
      /\ loc'.g = loc.g /\ loc.g \in Group /\ image'.gd = image.gd /\ image'.ibm = image.ibm
  BY TakesBlockDesc
<1>3. /\ loc.d.freeI = image.gd[loc.g].freeI - 1 /\ image.gd[loc.g].freeI # 0
      /\ loc.d.dirs <= Cardinality(image.ibm[loc.g])
  BY <1>1 DEF GInv, DescHolds
<1>4. GroupsBounded'
  BY <1>2 DEF GInv, GroupsBounded, GroupBounded
<1>5. DescHolds'
  <2>1. loc'.d.freeI = image'.gd[loc.g].freeI - 1 /\ loc'.d.freeB = image'.gd[loc.g].freeB - 1
    BY <1>2, <1>3
  <2>2. BlocksHeld' = 1
    BY <1>1 DEF BlocksHeld
  <2> QED BY <1>1, <1>2, <1>3, <2>1, <2>2 DEF DescHolds
<1> QED BY <1>4, <1>5 DEF GInv

\* The descriptor written is the one the bitmaps were changed for.
LEMMA DescWrittenGInv ==
    ASSUME GInv, IInv', BeforeHolds', DescWritten PROVE GInv'
<1> DEFINE g == loc.g
           d == image'.gd[g]
<1>1. pc = "desc" /\ pc' = "body"
  BY DEF DescWritten
<1>2. /\ g \in Group /\ image'.ibm = image.ibm
      /\ \A h \in Group \ {g} : image'.gd[h] = image.gd[h]
      /\ d.dirs = loc.d.dirs /\ d.iUninit = loc.d.iUninit
      /\ d.freeI = image.gd[g].freeI - 1 /\ d.freeB = image.gd[g].freeB - 1
      /\ image.gd[g].freeI \in Nat /\ image.gd[g].freeB \in Nat
  BY DescWrittenDesc
<1>3. /\ loc.d.dirs <= Cardinality(image.ibm[g]) /\ loc.d \in GroupDesc
      /\ GroupBounded(image, g)
  BY <1>1, <1>2, CountTypes DEF GInv, DescHolds, GroupsBounded
<1>4. /\ Cardinality(image.ibm[g]) \in Nat /\ Cardinality(image.ibm[g]) <= InodesPerGroup
      /\ loc.d.dirs \in Nat /\ InodesPerGroup \in Nat /\ BlocksPerGroup \in Nat
  <2>1. image.ibm[g] \in SUBSET InodeIdx
    BY <1>2, CountTypes DEF GInv
  <2> QED BY <1>3, <2>1, InodeBits, GeometryAssumption DEF GroupDesc
<1>5. GroupsBounded'
  <2> SUFFICES ASSUME NEW h \in Group PROVE GroupBounded(image', h)
    BY DEF GroupsBounded
  <2>1. CASE h = g
    <3>1. image.gd[g].freeI <= InodesPerGroup /\ image.gd[g].freeB <= BlocksPerGroup
      BY <1>3 DEF GroupBounded
    <3>2. /\ d.freeI <= InodesPerGroup /\ d.freeB <= BlocksPerGroup /\ d.dirs <= InodesPerGroup
          /\ d.dirs <= Cardinality(image.ibm[g])
      BY <1>2, <1>3, <1>4, <3>1
    <3> QED BY <1>2, <2>1, <3>2 DEF GroupBounded
  <2>2. CASE h # g
    BY <1>2, <2>2 DEF GInv, GroupsBounded, GroupBounded
  <2> QED BY <2>1, <2>2
<1>6. DescHolds'
  BY <1>1 DEF DescHolds
<1> QED BY <1>5, <1>6 DEF GInv

\* Every step keeps the groups' counters.
LEMMA NextGInv == ASSUME GroupsFit, GInv, [Next]_vars PROVE GInv'
<1>1. IInv' /\ BeforeHolds' /\ Shape
  BY NextIInv, NextBefore, NextShape DEF GInv
<1>2. CASE UNCHANGED vars
  <2>1. BlocksHeld' = BlocksHeld
    BY <1>2 DEF vars, BlocksHeld
  <2> QED BY <1>1, <1>2, <2>1 DEF vars, GInv, GroupsBounded, GroupBounded, DescHolds
<1>3. CASE Ends \/ Opens \/ Works
  BY <1>1, <1>3, QuietGInv DEF Ends, Opens, Works, SameCounts
<1>4. CASE Flushes
  <2>1. image'.gd = image.gd /\ image'.ibm = image.ibm /\ pc' = "idle"
    BY <1>4, CountTypes DEF GInv, Flushes, Image
  <2> QED BY <1>1, <2>1, QuietGInv
<1> QED BY <1>1, <1>2, <1>3, <1>4, PicksGInv, TakesInodeGInv, TakesBlockGInv, DescWrittenGInv
        DEF Shape

\* After any calls, interruptions and reruns no group counts more free inodes or
\* blocks than it has or more directories than its bitmap has inodes, and the
\* descriptor an operation carries is the one
\* on disk less what the operation took: allocInode, allocBlock and writeGroupDesc.
THEOREM GroupsInvariance == GroupsFit => (Spec => []GInv)
<1> SUFFICES ASSUME GroupsFit PROVE Spec => []GInv
  OBVIOUS
<1>1. Init => GInv
  BY InitGInv
<1>2. GInv /\ [Next]_vars => GInv'
  BY NextGInv
<1> QED BY <1>1, <1>2, PTL DEF Spec

-----------------------------------------------------------------------------
(* The totals, step by step.                                               *)

\* The end of a session: only what was flushed counts.
LEMMA EndsNInv == ASSUME NInv, GInv', Ends PROVE NInv'
<1>1. /\ pc # "closed" /\ pc' = "closed" /\ image' = image
      /\ Undisturbed' => Undisturbed /\ pc \notin {"balloc", "desc"}
      /\ ~hist'.unsynced =>
            ~hist.unsynced /\ sb.freeI = image.sb.freeI /\ sb.freeB = image.sb.freeB
  BY DEF Ends
<1>2. Covers(image'.sb, image, 0, 0)
  BY <1>1 DEF NInv, TotalsHold
<1>3. Undisturbed' /\ ~hist'.unsynced => Agree(image'.sb, image, 0, 0)
  <2> SUFFICES ASSUME Undisturbed', ~hist'.unsynced PROVE Agree(image.sb, image, 0, 0)
    BY <1>1
  <2>1. InodesHeld = 0 /\ BlocksHeld = 0
    BY <1>1 DEF InodesHeld, BlocksHeld
  <2>2. Agree(sb, image, 0, 0)
    BY <1>1, <2>1 DEF NInv, TotalsHold
  <2> QED BY <1>1, <2>2 DEF Agree
<1> QED BY <1>1, <1>2, <1>3, QuietNInv

\* OpenFS reads the totals of the superblock.
LEMMA OpensNInv == ASSUME NInv, GInv', Opens PROVE NInv'
<1>1. /\ pc = "closed" /\ pc' = "idle" /\ image' = image /\ sb' = image.sb /\ hist' = hist
  BY DEF Opens
<1>2. Undisturbed' = Undisturbed
  BY <1>1 DEF Undisturbed
<1> QED BY <1>1, <1>2, QuietNInv DEF NInv, TotalsHold

\* Contents are not counted.
LEMMA WorksNInv == ASSUME NInv, GInv', Works PROVE NInv'
<1>1. /\ pc \notin {"closed", "ialloc", "balloc", "desc"}
      /\ pc' \notin {"closed", "ialloc", "balloc", "desc"}
      /\ image'.gd = image.gd /\ image'.sb = image.sb /\ sb' = sb
      /\ hist'.unsynced = hist.unsynced
  BY DEF Works, SameCounts, SameHistory
<1>2. Undisturbed' = Undisturbed
  BY DEF Works, SameHistory, Undisturbed
<1>3. InodesHeld = 0 /\ BlocksHeld = 0
  BY <1>1 DEF InodesHeld, BlocksHeld
<1> QED BY <1>1, <1>2, <1>3, QuietNInv DEF NInv, TotalsHold

\* flushSuper writes the totals in memory.
LEMMA FlushesNInv == ASSUME NInv, GInv', Flushes PROVE NInv'
<1>1. PICK s : /\ pc = "idle" /\ pc' = "idle"
               /\ image' = [image EXCEPT !.sb = [sb EXCEPT !.seal = s]] /\ sb' = image'.sb
               /\ hist'.unsynced = hist.unsynced
  BY DEF Flushes, SameHistory
<1>2. Undisturbed' = Undisturbed
  BY DEF Flushes, SameHistory, Undisturbed
<1>3. /\ image'.gd = image.gd /\ sb'.freeI = sb.freeI /\ sb'.freeB = sb.freeB
  BY <1>1, CountTypes DEF NInv, GInv, Image, Counters
<1>4. InodesHeld = 0 /\ BlocksHeld = 0
  BY <1>1 DEF InodesHeld, BlocksHeld
<1>5. Covers(sb', image, 0, 0)
  BY <1>1, <1>3, <1>4 DEF NInv, TotalsHold, Covers
<1>6. Undisturbed' /\ ~hist'.unsynced => Agree(sb', image, 0, 0)
  BY <1>1, <1>2, <1>3, <1>4 DEF NInv, TotalsHold, Agree
<1> QED BY <1>1, <1>3, <1>5, <1>6, QuietNInv

\* Choosing a group counts nothing.
LEMMA PicksNInv == ASSUME NInv, GInv', NEW g \in Group, Picks(g) PROVE NInv'
<1>1. pc = "pick" /\ pc' = "ialloc" /\ image' = image /\ sb' = sb /\ hist' = hist
  BY DEF Picks
<1>2. Undisturbed' = Undisturbed
  BY <1>1 DEF Undisturbed
<1>3. InodesHeld = 0 /\ BlocksHeld = 0
  BY <1>1 DEF InodesHeld, BlocksHeld
<1> QED BY <1>1, <1>2, <1>3, QuietNInv DEF NInv, TotalsHold

\* The total goes down before the group's counter does.
LEMMA TakesInodeNInv ==
    ASSUME CountersFit, NInv, GInv', NEW i, TakesInode(i) PROVE NInv'
<1> DEFINE NI == NumGroups * InodesPerGroup
           NB == NumGroups * BlocksPerGroup
           SI == GroupSum(image, "freeI")
           SB == GroupSum(image, "freeB")
<1>1. /\ pc = "ialloc" /\ pc' = "balloc" /\ hist' = hist
      /\ sb' = [sb EXCEPT !.freeI = Minus1(sb.freeI)]
  BY DEF TakesInode
<1>2. /\ sb \in Counters /\ loc.d.freeI \in Nat \ {0}
      /\ SI \in Nat /\ SB \in Nat /\ NI \in Nat /\ NB \in Nat
      /\ NI <= CounterMod /\ CounterMod \in Nat
      /\ image'.gd = image.gd /\ image'.sb = image.sb
  BY CountTypes, TakesInodeDesc, FitFits, GeometryAssumption DEF NInv, GInv, CountersFit
<1>3. GroupSum(image', "freeI") = SI /\ GroupSum(image', "freeB") = SB
  BY <1>2, SumsSame DEF NInv, GInv
<1>4. loc.d.freeI <= SI
  <2>1. image.gd[loc.g]["freeI"] <= SI
    BY CountTypes, SumBounds DEF GroupCounters, NInv, GInv
  <2> QED BY <2>1, TakesInodeDesc, FitFits DEF NInv
<1>5. Covers(image.sb, image, 0, 0) /\ Covers(sb, image, 0, 0)
      /\ (Undisturbed /\ ~hist.unsynced => Agree(sb, image, 0, 0))
  BY <1>1 DEF NInv, TotalsHold, InodesHeld, BlocksHeld
<1>6. /\ sb.freeI + 0 >= SI /\ sb.freeI <= NI /\ sb.freeB + 0 >= SB /\ sb.freeB <= NB
      /\ sb.freeI \in Nat /\ sb.freeB \in Nat
  BY <1>2, <1>5 DEF Covers, Counters
<1>7. InodesHeld' = 1 /\ BlocksHeld' = 0
  BY <1>1 DEF InodesHeld, BlocksHeld
<1>8. Covers(image'.sb, image', 0, 0)
  BY <1>2, <1>3, <1>5 DEF Covers
<1> HIDE DEF NI, NB, SI, SB
<1>9. sb.freeI # 0 /\ sb.freeI <= CounterMod
  BY <1>2, <1>4, <1>6
<1>10. sb'.freeI = sb.freeI - 1 /\ sb'.freeB = sb.freeB
  BY <1>1, <1>2, <1>6, <1>9, Minus1Is DEF Counters
<1>11. Covers(sb', image', 1, 0)
  <2>1. /\ sb'.freeI + 1 >= SI /\ sb'.freeI <= NI /\ sb'.freeB + 0 >= SB /\ sb'.freeB <= NB
    BY <1>2, <1>6, <1>9, <1>10
  <2> QED BY <1>3, <2>1 DEF Covers, NI, NB
<1>12. Undisturbed /\ ~hist.unsynced => Agree(sb', image', 1, 0)
  <2>1. Agree(sb, image, 0, 0) => sb'.freeI + 1 = SI /\ sb'.freeB + 0 = SB
    BY <1>6, <1>10 DEF Agree, SI, SB
  <2> QED BY <1>3, <1>5, <2>1 DEF Agree
<1>13. Undisturbed' = Undisturbed /\ hist'.unsynced = hist.unsynced
  BY <1>1 DEF Undisturbed
<1> QED BY <1>1, <1>7, <1>8, <1>11, <1>12, <1>13 DEF NInv, TotalsHold

\* The total goes down before the group's counter does.
LEMMA TakesBlockNInv ==
    ASSUME CountersFit, NInv, GInv', NEW i, TakesBlock(i) PROVE NInv'
<1> DEFINE NI == NumGroups * InodesPerGroup
           NB == NumGroups * BlocksPerGroup
           SI == GroupSum(image, "freeI")
           SB == GroupSum(image, "freeB")
<1>1. /\ pc = "balloc" /\ pc' = "desc" /\ hist' = hist
      /\ sb' = [sb EXCEPT !.freeB = Minus1(sb.freeB)]
  BY DEF TakesBlock
<1>2. /\ sb \in Counters /\ loc.d.freeB \in Nat \ {0}
      /\ SI \in Nat /\ SB \in Nat /\ NI \in Nat /\ NB \in Nat
      /\ NB <= CounterMod /\ CounterMod \in Nat
      /\ image'.gd = image.gd /\ image'.sb = image.sb
  BY CountTypes, TakesBlockDesc, FitFits, GeometryAssumption DEF NInv, GInv, CountersFit
<1>3. GroupSum(image', "freeI") = SI /\ GroupSum(image', "freeB") = SB
  BY <1>2, SumsSame DEF NInv, GInv
<1>4. loc.d.freeB <= SB
  <2>1. image.gd[loc.g]["freeB"] <= SB
    BY CountTypes, SumBounds DEF GroupCounters, NInv, GInv
  <2> QED BY <2>1, TakesBlockDesc, FitFits DEF NInv
<1>5. Covers(image.sb, image, 0, 0) /\ Covers(sb, image, 1, 0)
      /\ (Undisturbed /\ ~hist.unsynced => Agree(sb, image, 1, 0))
  BY <1>1 DEF NInv, TotalsHold, InodesHeld, BlocksHeld
<1>6. /\ sb.freeI + 1 >= SI /\ sb.freeI <= NI /\ sb.freeB + 0 >= SB /\ sb.freeB <= NB
      /\ sb.freeI \in Nat /\ sb.freeB \in Nat
  BY <1>2, <1>5 DEF Covers, Counters
<1>7. InodesHeld' = 1 /\ BlocksHeld' = 1
  BY <1>1 DEF InodesHeld, BlocksHeld
<1>8. Covers(image'.sb, image', 0, 0)
  BY <1>2, <1>3, <1>5 DEF Covers
<1> HIDE DEF NI, NB, SI, SB
<1>9. sb.freeB # 0 /\ sb.freeB <= CounterMod
  BY <1>2, <1>4, <1>6
<1>10. sb'.freeB = sb.freeB - 1 /\ sb'.freeI = sb.freeI
  BY <1>1, <1>2, <1>6, <1>9, Minus1Is DEF Counters
<1>11. Covers(sb', image', 1, 1)
  <2>1. /\ sb'.freeI + 1 >= SI /\ sb'.freeI <= NI /\ sb'.freeB + 1 >= SB /\ sb'.freeB <= NB
    BY <1>2, <1>6, <1>9, <1>10
  <2> QED BY <1>3, <2>1 DEF Covers, NI, NB
<1>12. Undisturbed /\ ~hist.unsynced => Agree(sb', image', 1, 1)
  <2>1. Agree(sb, image, 1, 0) => sb'.freeI + 1 = SI /\ sb'.freeB + 1 = SB
    BY <1>6, <1>10 DEF Agree, SI, SB
  <2> QED BY <1>3, <1>5, <2>1 DEF Agree
<1>13. Undisturbed' = Undisturbed /\ hist'.unsynced = hist.unsynced
  BY <1>1 DEF Undisturbed
<1> QED BY <1>1, <1>7, <1>8, <1>11, <1>12, <1>13 DEF NInv, TotalsHold

\* The group's counters come down to the totals.
LEMMA DescWrittenNInv == ASSUME NInv, GInv', DescWritten PROVE NInv'
<1> DEFINE g == loc.g
           SI == GroupSum(image, "freeI")
           SB == GroupSum(image, "freeB")
           TI == GroupSum(image', "freeI")
           TB == GroupSum(image', "freeB")
<1>1. pc = "desc" /\ pc' = "body" /\ sb' = sb /\ hist' = hist
  BY DEF DescWritten
<1>2. /\ image \in Image /\ sb \in Counters /\ image.sb \in Counters
      /\ SI \in Nat /\ SB \in Nat
  BY CountTypes DEF NInv, GInv
<1>3. TI \in Nat /\ TB \in Nat /\ image' \in Image
  <2>1. image' \in Image
    BY DEF GInv, IInv, TypeOK
  <2> QED BY <2>1, SumBounds DEF GroupCounters
<1>4. /\ g \in Group /\ image'.sb = image.sb
      /\ \A h \in Group \ {g} : image'.gd[h] = image.gd[h]
      /\ image'.gd[g].freeI = image.gd[g].freeI - 1
      /\ image'.gd[g].freeB = image.gd[g].freeB - 1
      /\ image.gd[g].freeI \in Nat /\ image.gd[g].freeB \in Nat
  BY DescWrittenDesc DEF NInv
<1>5. TI + 1 = SI /\ TB + 1 = SB
  <2>1. TI + image.gd[g]["freeI"] = SI + image'.gd[g]["freeI"]
    BY <1>2, <1>3, <1>4, SumChange DEF GroupCounters
  <2>2. TB + image.gd[g]["freeB"] = SB + image'.gd[g]["freeB"]
    BY <1>2, <1>3, <1>4, SumChange DEF GroupCounters
  <2> DEFINE x == image.gd[g].freeI
             y == image.gd[g].freeB
  <2>3. /\ TI + x = SI + (x - 1) /\ TB + y = SB + (y - 1) /\ x \in Nat /\ y \in Nat
    BY <1>4, <2>1, <2>2
  <2> HIDE DEF TI, SI, TB, SB, x, y
  <2> QED BY <1>2, <1>3, <2>3
<1>6. Covers(image.sb, image, 0, 0) /\ Covers(sb, image, 1, 1)
      /\ (Undisturbed /\ ~hist.unsynced => Agree(sb, image, 1, 1))
  BY <1>1 DEF NInv, TotalsHold, InodesHeld, BlocksHeld
<1>7. InodesHeld' = 0 /\ BlocksHeld' = 0
  BY <1>1 DEF InodesHeld, BlocksHeld
<1>8. /\ sb.freeI \in Nat /\ sb.freeB \in Nat
      /\ image.sb.freeI \in Nat /\ image.sb.freeB \in Nat
  BY <1>2 DEF Counters
<1>9. /\ image.sb.freeI + 0 >= SI /\ image.sb.freeB + 0 >= SB
      /\ sb.freeI + 1 >= SI /\ sb.freeB + 1 >= SB
      /\ Agree(sb, image, 1, 1) => sb.freeI + 1 = SI /\ sb.freeB + 1 = SB
  BY <1>6 DEF Covers, Agree
<1> HIDE DEF SI, SB, TI, TB
<1>10. /\ image.sb.freeI + 0 >= TI /\ image.sb.freeB + 0 >= TB
       /\ sb.freeI + 0 >= TI /\ sb.freeB + 0 >= TB
       /\ Agree(sb, image, 1, 1) => sb.freeI + 0 = TI /\ sb.freeB + 0 = TB
  BY <1>2, <1>3, <1>5, <1>8, <1>9
<1>11. Covers(image'.sb, image', 0, 0) /\ Covers(sb', image', 0, 0)
  BY <1>1, <1>4, <1>6, <1>10 DEF Covers, TI, TB
<1>12. Undisturbed /\ ~hist.unsynced => Agree(sb', image', 0, 0)
  BY <1>1, <1>6, <1>10 DEF Agree, TI, TB
<1>13. Undisturbed' = Undisturbed /\ hist'.unsynced = hist.unsynced
  BY <1>1 DEF Undisturbed
<1> QED BY <1>1, <1>7, <1>11, <1>12, <1>13 DEF NInv, TotalsHold

\* Every step keeps it.
LEMMA NextNInv == ASSUME CountersFit, NInv, [Next]_vars PROVE NInv'
<1>1. GInv' /\ Shape
  BY NextGInv, NextShape, FitFits DEF NInv, GInv
<1>2. CASE UNCHANGED vars
  <2>1. Undisturbed' = Undisturbed /\ InodesHeld' = InodesHeld /\ BlocksHeld' = BlocksHeld
    BY <1>2 DEF vars, Undisturbed, InodesHeld, BlocksHeld
  <2> QED BY <1>1, <1>2, <2>1 DEF vars, NInv, TotalsHold, Covers, Agree
<1> QED BY <1>1, <1>2, EndsNInv, OpensNInv, FlushesNInv, WorksNInv, PicksNInv,
        TakesInodeNInv, TakesBlockNInv, DescWrittenNInv DEF Shape

\* The live and the written totals are never below the sums over the groups, and equal
\* to them while nothing was killed, stranded or left unflushed.
THEOREM CountsInvariance == CountersFit /\ TotalsAgree => (Spec => []NInv)
<1> SUFFICES ASSUME CountersFit, TotalsAgree PROVE Spec => []NInv
  OBVIOUS
<1>1. Init => NInv
  BY InitNInv
<1>2. NInv /\ [Next]_vars => NInv'
  BY NextNInv
<1> QED BY <1>1, <1>2, PTL DEF Spec

\* No counter of free inodes or blocks ever wraps below zero or exceeds what there is,
\* in a group, in the superblock or in memory, however many runs are interrupted.
THEOREM CountsSafe == CountersFit /\ TotalsAgree => (Spec => []CountersBounded)
<1>1. NInv => CountersBounded
  <2> SUFFICES ASSUME NInv PROVE CountersBounded
    OBVIOUS
  <2>1. /\ image.sb.freeI + 0 >= GroupSum(image, "freeI")
        /\ image.sb.freeI <= NumGroups * InodesPerGroup
        /\ image.sb.freeB + 0 >= GroupSum(image, "freeB")
        /\ image.sb.freeB <= NumGroups * BlocksPerGroup
    BY DEF NInv, TotalsHold, Covers
  <2>2. image.sb.freeI + 0 = image.sb.freeI /\ image.sb.freeB + 0 = image.sb.freeB
    BY CountTypes DEF NInv, GInv, Counters
  <2> QED BY <2>1, <2>2 DEF CountersBounded, NInv, GInv, GroupsBounded, GroupBounded
<1> QED BY <1>1, CountsInvariance, PTL

\* Where nothing is in progress no inode or block is held.
LEMMA TotalsBetween == NInv => TotalsFollowGroups
<1> SUFFICES ASSUME NInv, Undisturbed, ~hist.unsynced
             PROVE  /\ pc = "closed" => SuperblockAgrees(image)
                    /\ pc = "idle" => /\ sb.freeI = GroupSum(image, "freeI")
                                      /\ sb.freeB = GroupSum(image, "freeB")
  BY DEF TotalsFollowGroups
<1>1. /\ pc = "closed" => Agree(image.sb, image, 0, 0)
      /\ pc = "idle" => Agree(sb, image, 0, 0)
  BY DEF NInv, TotalsHold, InodesHeld, BlocksHeld
<1>2. /\ image.sb.freeI + 0 = image.sb.freeI /\ image.sb.freeB + 0 = image.sb.freeB
      /\ sb.freeI + 0 = sb.freeI /\ sb.freeB + 0 = sb.freeB
  BY CountTypes DEF NInv, GInv, Counters
<1> QED BY <1>1, <1>2 DEF Agree, SuperblockAgrees

\* Between operations that all succeeded and flushed, the superblock's totals are the
\* sums of the groups'.
THEOREM TotalsSafe == CountersFit /\ TotalsAgree => (Spec => []TotalsFollowGroups)
BY TotalsBetween, CountsInvariance, PTL

-----------------------------------------------------------------------------
(* The length of the records of a directory block.                         *)

\* The greatest member of a set of positions, which TotalRec takes first.
Latest(G) == [s \in SUBSET G |-> Max(s)]

\* It is one.
LEMMA LatestChooses == ASSUME NEW n \in Nat PROVE Chooses(Latest(1 .. n), 1 .. n)
<1> SUFFICES ASSUME NEW s \in SUBSET (1 .. n), s # {} PROVE Max(s) \in s
  BY DEF Chooses, Latest
<1>1. \E m \in s : \A k \in s : k <= m
  <2>1. s \in SUBSET Nat /\ n \in Nat /\ \A k \in s : k <= n
    OBVIOUS
  <2> QED BY <2>1, Greatest
<1> QED BY <1>1 DEF Max

\* The last position of a sequence.
LEMMA LatestIs == ASSUME NEW n \in Nat PROVE Max(1 .. n + 1) = n + 1
<1> DEFINE m == Max(1 .. n + 1)
<1>1. /\ n + 1 \in 1 .. n + 1
      /\ \A k \in 1 .. n + 1 : k <= n + 1
  OBVIOUS
<1>2. m \in 1 .. n + 1 /\ \A k \in 1 .. n + 1 : k <= m
  BY <1>1 DEF Max
<1> HIDE DEF m
<1>3. m = n + 1
  BY <1>1, <1>2
<1> QED BY <1>3 DEF m

\* The lengths of records.
Recs(ents) == [i \in DOMAIN ents |-> ents[i].rec]

\* A sequence of records and its positions.
LEMMA RecsType ==
    ASSUME NEW ents \in Seq(Dirent)
    PROVE  /\ DOMAIN ents = 1 .. Len(ents) /\ Len(ents) \in Nat
           /\ Recs(ents) \in [DOMAIN ents -> Nat]
           /\ IsFiniteSet(DOMAIN ents) /\ Chooses(Latest(DOMAIN ents), DOMAIN ents)
<1>1. DOMAIN ents = 1 .. Len(ents) /\ Len(ents) \in Nat
  BY LenProperties
<1>2. \A i \in DOMAIN ents : ents[i] \in Dirent
  BY <1>1, ElementOfSeq
<1>3. Recs(ents) \in [DOMAIN ents -> Nat]
  BY <1>2 DEF Recs, Dirent
<1>4. IsFiniteSet(1 .. Len(ents))
  BY <1>1, FS_Interval
<1> QED BY <1>1, <1>3, <1>4, LatestChooses

\* TotalRec is a sum.
LEMMA TotalRecIs ==
    ASSUME NEW ents \in Seq(Dirent)
    PROVE  \E f : /\ Adds(f, Recs(ents), DOMAIN ents, Latest(DOMAIN ents))
                  /\ TotalRec(ents) = f[DOMAIN ents]
<1> DEFINE G == DOMAIN ents
           c == Latest(G)
           iter[s \in SUBSET G] ==
              IF s = {} THEN 0
              ELSE LET x == Max(s) IN iter[s \ {x}] + ents[x].rec
           Eq(f) == f = [s \in SUBSET G |->
                          IF s = {} THEN 0
                          ELSE LET x == Max(s) IN f[s \ {x}] + ents[x].rec]
<1>1. TotalRec(ents) = iter[G]
  BY DEF TotalRec, FoldLeft, MapThenFoldSet
<1>2. iter = CHOOSE f : Eq(f)
  OBVIOUS
<1>3. IsFiniteSet(G) /\ Chooses(c, G) /\ Recs(ents) \in [G -> Nat]
  BY RecsType
<1>4. ASSUME NEW s \in SUBSET G, s # {}
      PROVE  /\ c[s] = Max(s) /\ c[s] \in G /\ Less(c, s) = s \ {Max(s)} /\ Less(c, s) \in SUBSET G
             /\ Recs(ents)[c[s]] = ents[Max(s)].rec /\ Recs(ents)[c[s]] \in Nat
  <2>1. c[s] = Max(s) /\ c[s] \in G /\ Less(c, s) \in SUBSET G
    BY <1>3, <1>4, LessIn DEF Latest
  <2>2. Recs(ents)[c[s]] = ents[c[s]].rec
    BY <2>1 DEF Recs
  <2> QED BY <1>3, <2>1, <2>2 DEF Less
<1> HIDE DEF iter, c
<1>5. \E f : Eq(f)
  <2> HIDE DEF G
  <2>1. PICK f : Adds(f, Recs(ents), G, c)
    BY <1>3, AddsExists
  <2>2. \A s \in SUBSET G : f[s] \in Nat
    BY <1>3, <2>1, AddsType
  <2>3. ASSUME NEW s \in SUBSET G
        PROVE  f[s] = IF s = {} THEN 0 ELSE f[s \ {Max(s)}] + ents[Max(s)].rec
    <3>1. f[s] = IF s = {} THEN 0 ELSE Recs(ents)[c[s]] + f[Less(c, s)]
      BY <2>1 DEF Adds
    <3>2. CASE s = {}
      BY <3>1, <3>2
    <3>3. CASE s # {}
      <4>1. f[s] = Recs(ents)[c[s]] + f[Less(c, s)] /\ f[Less(c, s)] \in Nat
        BY <1>4, <2>2, <3>1, <3>3
      <4>2. f[s] = f[Less(c, s)] + Recs(ents)[c[s]]
        BY <1>4, <3>3, <4>1
      <4> QED BY <1>4, <3>3, <4>2
    <3> QED BY <3>2, <3>3
  <2>4. f = [s \in SUBSET G |-> f[s]]
    BY <2>1 DEF Adds
  <2>5. Eq(f)
    BY <2>3, <2>4
  <2> QED BY <2>5
<1>6. Eq(iter)
  <2> HIDE DEF Eq
  <2> QED BY <1>2, <1>5
<1>7. \A s \in SUBSET G : iter[s] \in Nat
  <2> DEFINE T == {s \in SUBSET G : iter[s] \in Nat}
  <2>1. {} \in T
    BY <1>6
  <2>2. ASSUME NEW s \in SUBSET G, s # {}, Less(c, s) \in T PROVE s \in T
    <3>1. iter[s] = iter[Less(c, s)] + Recs(ents)[c[s]]
      BY <1>4, <1>6, <2>2
    <3> QED BY <1>4, <2>2, <3>1
  <2> HIDE DEF T, G
  <2>3. SUBSET G \subseteq T
    BY <1>3, <2>1, <2>2, SubsetByElement
  <2> QED BY <2>3 DEF T
<1>8. ASSUME NEW s \in SUBSET G
      PROVE  iter[s] = IF s = {} THEN 0 ELSE Recs(ents)[c[s]] + iter[Less(c, s)]
  <2>1. CASE s = {}
    BY <1>6, <2>1
  <2>2. CASE s # {}
    <3>1. iter[s] = iter[Less(c, s)] + Recs(ents)[c[s]] /\ iter[Less(c, s)] \in Nat
      BY <1>4, <1>6, <1>7, <2>2
    <3> QED BY <1>4, <2>2, <3>1
  <2> QED BY <2>1, <2>2
<1>9. Adds(iter, Recs(ents), G, c)
  <2>1. iter = [s \in SUBSET G |-> iter[s]]
    BY <1>6
  <2> HIDE DEF G
  <2> QED BY <1>8, <2>1 DEF Adds
<1> QED BY <1>1, <1>9 DEF c

\* No records have no length.
LEMMA TotalRecEmpty == TotalRec(<<>>) = 0
<1>1. <<>> \in Seq(Dirent) /\ DOMAIN <<>> = {}
  OBVIOUS
<1>2. PICK f : Adds(f, Recs(<<>>), {}, Latest({})) /\ TotalRec(<<>>) = f[{}]
  BY <1>1, TotalRecIs
<1> QED BY <1>2, AddsNone

\* A record more adds its length.
LEMMA TotalRecMore ==
    ASSUME NEW a \in Seq(Dirent), NEW b \in Seq(Dirent), Len(b) = Len(a) + 1,
           \A i \in 1 .. Len(a) : b[i].rec = a[i].rec
    PROVE  TotalRec(b) = b[Len(b)].rec + TotalRec(a)
<1> DEFINE n == Len(a)
           G == 1 .. n
           H == 1 .. n + 1
<1>1. n \in Nat /\ DOMAIN a = G /\ DOMAIN b = H
  BY RecsType
<1>2. PICK f : Adds(f, Recs(a), G, Latest(G)) /\ TotalRec(a) = f[G]
  BY <1>1, TotalRecIs
<1>3. PICK h : Adds(h, Recs(b), H, Latest(H)) /\ TotalRec(b) = h[H]
  BY <1>1, TotalRecIs
<1>4. /\ Recs(a) \in [G -> Nat] /\ IsFiniteSet(G) /\ Chooses(Latest(G), G)
      /\ Recs(b) \in [H -> Nat]
  BY <1>1, RecsType
<1>5. G \subseteq H /\ n + 1 \in H /\ H \ {n + 1} = G
  BY <1>1
<1>6. \A i \in G : Recs(a)[i] = a[i].rec /\ Recs(b)[i] = b[i].rec
  BY <1>1, <1>5 DEF Recs
<1>7. \A i \in G : Recs(b)[i] = Recs(a)[i]
  BY <1>6
<1>8. \A s \in SUBSET G : s # {} => Latest(H)[s] = Latest(G)[s]
  BY <1>5 DEF Latest
<1>9. h[G] = f[G]
  <2> HIDE DEF G, H
  <2> QED BY <1>2, <1>3, <1>4, <1>5, <1>7, <1>8, AddsAgree
<1>10. Latest(H)[H] = n + 1
  BY <1>1, LatestIs DEF Latest
<1>11. Less(Latest(H), H) = G /\ H # {}
  BY <1>5, <1>10 DEF Less
<1>12. h[H] = Recs(b)[n + 1] + h[G]
  <2> HIDE DEF G, H
  <2> QED BY <1>3, <1>10, <1>11 DEF Adds
<1>13. Recs(b)[n + 1] = b[n + 1].rec
  BY <1>1, <1>5 DEF Recs
<1> QED BY <1>2, <1>3, <1>9, <1>12, <1>13

\* The total length is a number.
LEMMA TotalRecNat == ASSUME NEW ents \in Seq(Dirent) PROVE TotalRec(ents) \in Nat
<1>1. PICK f : /\ Adds(f, Recs(ents), DOMAIN ents, Latest(DOMAIN ents))
               /\ TotalRec(ents) = f[DOMAIN ents]
  BY TotalRecIs
<1> DEFINE G == DOMAIN ents
           c == Latest(G)
           v == Recs(ents)
<1>2. IsFiniteSet(G) /\ Chooses(c, G) /\ v \in [G -> Nat] /\ Adds(f, v, G, c)
  BY <1>1, RecsType
<1>3. TotalRec(ents) = f[G] /\ G \in SUBSET G
  BY <1>1
<1> HIDE DEF G, c, v
<1> QED BY <1>2, <1>3, AddsType

\* A record has room for its header.
LEMMA DirentLenRoom == ASSUME NEW n \in Nat PROVE DirentLen(n) \in Nat /\ DirentLen(n) >= 8
<1>1. \A k \in Nat : ((k + 11) \div 4) * 4 >= 8
  BY SMT
<1> QED BY <1>1, DirentLenNat DEF DirentLen

\* The lengths of a record are numbers.
LEMMA DirentFields == ASSUME NEW e \in Dirent PROVE e.nlen \in Nat /\ e.rec \in Nat
  BY DEF Dirent

\* A record is added out of the last one's slack: the chain ends where it did.
LEMMA WithDirentWellFormed ==
    ASSUME NEW img, NEW ents \in Seq(Dirent), WellFormed(img, ents), NEW ino \in InodeNums,
           NEW name \in Names, NEW ftype \in {"dir", "file"},
           Last(ents).rec - UsedLen(Last(ents)) >= DirentLen(NameLen[name])
    PROVE  WellFormed(img, WithDirent(ents, ino, name, ftype))
<1> DEFINE last == Last(ents)
           used == UsedLen(last)
           slack == last.rec - used
           new == NewDirent(ino, name, slack, ftype)
           shrunk == [last EXCEPT !.rec = used]
           front == Front(ents)
           after == WithDirent(ents, ino, name, ftype)
           n == Len(ents) - 1
<1>1. /\ n \in Nat /\ Len(ents) = n + 1 /\ last = ents[n + 1] /\ last \in Dirent
      /\ \A i \in 1 .. n + 1 : ents[i].rec >= 8
      /\ TotalRec(ents) = Limit(img)
  <2>1. Len(ents) \in Nat /\ Len(ents) > 0 /\ DOMAIN ents = 1 .. Len(ents)
    BY LenProperties DEF WellFormed
  <2>2. last = ents[Len(ents)] /\ ents[Len(ents)] \in Dirent
    BY <2>1, ElementOfSeq DEF Last
  <2> QED BY <2>1, <2>2 DEF WellFormed
<1>2. /\ front \in Seq(Dirent) /\ Len(front) = n
      /\ \A k \in 1 .. n : front[k] = ents[k]
  <2>1. \A k \in 1 .. n : ents[k] \in Dirent
    BY <1>1, ElementOfSeq
  <2>2. front = SubSeq(ents, 1, n)
    BY DEF Front
  <2> HIDE DEF n
  <2>3. /\ SubSeq(ents, 1, n) \in Seq(Dirent)
        /\ Len(SubSeq(ents, 1, n)) = IF 1 <= n THEN n - 1 + 1 ELSE 0
        /\ \A k \in 1 .. n - 1 + 1 : SubSeq(ents, 1, n)[k] = ents[1 + k - 1]
    BY <1>1, <2>1, SubSeqProperties
  <2> QED BY <1>1, <2>2, <2>3
<1>3. used \in Nat /\ (used # 0 => used >= 8) /\ slack >= 8 /\ slack \in Nat /\ last.rec \in Nat
  <2>1. NameLen[name] \in Nat /\ last.nlen \in Nat /\ last.rec \in Nat
    <3>1. NameLen[name] \in Nat
      BY NamesAssumption
    <3>2. last \in Dirent
      BY <1>1
    <3> HIDE DEF last
    <3> QED BY <3>1, <3>2, DirentFields
  <2>2. DirentLen(NameLen[name]) \in Nat /\ DirentLen(NameLen[name]) >= 8
    BY <2>1, DirentLenRoom
  <2>3. DirentLen(last.nlen) \in Nat /\ DirentLen(last.nlen) >= 8
    BY <2>1, DirentLenRoom
  <2>4. used \in Nat /\ (used # 0 => used >= 8)
    BY <2>3 DEF UsedLen
  <2>5. slack >= DirentLen(NameLen[name])
    OBVIOUS
  <2> HIDE DEF used
  <2>6. slack \in Int
    BY <2>1, <2>4
  <2> HIDE DEF slack
  <2> QED BY <2>1, <2>2, <2>4, <2>5, <2>6
<1>4. slack + used = last.rec
  <2> HIDE DEF used
  <2> QED BY <1>3
<1>5. new \in Dirent /\ new.rec = slack
  <2>1. NameLen[name] % 256 \in 0 .. 255
    BY NamesAssumption, ByteLemma
  <2> HIDE DEF slack
  <2> QED BY <1>3, <2>1 DEF NewDirent, Dirent
<1>6. shrunk \in Dirent /\ shrunk.rec = used
  <2> HIDE DEF used
  <2> QED BY <1>1, <1>3 DEF Dirent
<1>7. after = IF used = 0 THEN front \o <<new>> ELSE front \o <<shrunk, new>>
  BY DEF WithDirent
<1>8. TotalRec(ents) = last.rec + TotalRec(front) /\ TotalRec(front) \in Nat
  <2>1. TotalRec(ents) = ents[Len(ents)].rec + TotalRec(front)
    BY <1>1, <1>2, TotalRecMore
  <2> QED BY <1>1, <1>2, <2>1, TotalRecNat
<1> HIDE DEF new, shrunk, n, used, last, slack, front, after
<1>9. CASE used = 0
  <2>1. after = front \o <<new>> /\ <<new>> \in Seq(Dirent)
    BY <1>5, <1>7, <1>9
  <2>2. /\ after \in Seq(Dirent) /\ Len(after) = n + 1 /\ after[n + 1] = new
        /\ \A i \in 1 .. n : after[i] = ents[i]
    <3>1. after \in Seq(Dirent)
      BY <1>2, <2>1
    <3>2. Len(after) = n + 1 /\ after[n + 1] = new
      BY <1>1, <1>2, <2>1
    <3>3. \A i \in 1 .. n : after[i] = ents[i]
      BY <1>1, <1>2, <2>1
    <3> QED BY <3>1, <3>2, <3>3
  <2>3. TotalRec(after) = slack + TotalRec(front)
    <3>1. \A i \in 1 .. Len(front) : after[i].rec = front[i].rec
      BY <1>2, <2>2
    <3>2. TotalRec(after) = after[Len(after)].rec + TotalRec(front)
      BY <1>1, <1>2, <2>2, <3>1, TotalRecMore
    <3> QED BY <1>5, <2>2, <3>2
  <2>4. TotalRec(after) = Limit(img)
    BY <1>1, <1>3, <1>4, <1>8, <1>9, <2>3
  <2>5. ASSUME NEW i \in DOMAIN after PROVE after[i].rec >= 8
    <3>1. i \in 1 .. n + 1
      BY <2>2, LenProperties
    <3>2. CASE i = n + 1
      BY <1>3, <1>5, <2>2, <3>2
    <3>3. CASE i # n + 1
      <4>1. i \in 1 .. n
        BY <1>1, <3>1, <3>3
      <4> QED BY <1>1, <2>2, <3>1, <4>1
    <3> QED BY <3>2, <3>3
  <2> QED BY <1>1, <2>2, <2>4, <2>5 DEF WellFormed, after
<1>10. CASE used # 0
  <2> DEFINE mid == front \o <<shrunk>>
  <2>1. after = front \o <<shrunk, new>> /\ <<shrunk>> \in Seq(Dirent) /\ <<shrunk, new>> \in Seq(Dirent)
    BY <1>5, <1>6, <1>7, <1>10
  <2>2. /\ after \in Seq(Dirent) /\ Len(after) = n + 2
        /\ after[n + 1] = shrunk /\ after[n + 2] = new
        /\ \A i \in 1 .. n : after[i] = ents[i]
    BY <1>1, <1>2, <2>1
  <2>3. /\ mid \in Seq(Dirent) /\ Len(mid) = n + 1 /\ mid[n + 1] = shrunk
        /\ \A i \in 1 .. n : mid[i] = ents[i]
    <3>1. mid = front \o <<shrunk>>
      OBVIOUS
    <3> HIDE DEF mid
    <3>2. mid \in Seq(Dirent)
      BY <1>2, <2>1, <3>1
    <3>3. Len(mid) = n + 1 /\ mid[n + 1] = shrunk
      BY <1>1, <1>2, <1>6, <3>1
    <3>4. \A i \in 1 .. n : mid[i] = ents[i]
      BY <1>1, <1>2, <2>1, <3>1
    <3> QED BY <3>2, <3>3, <3>4
  <2> HIDE DEF mid
  <2>4. TotalRec(mid) = used + TotalRec(front)
    <3>1. \A i \in 1 .. Len(front) : mid[i].rec = front[i].rec
      BY <1>2, <2>3
    <3>2. TotalRec(mid) = mid[Len(mid)].rec + TotalRec(front)
      BY <1>1, <1>2, <2>3, <3>1, TotalRecMore
    <3> QED BY <1>6, <2>3, <3>2
  <2>5. TotalRec(after) = slack + TotalRec(mid)
    <3>1. \A i \in 1 .. Len(mid) : after[i].rec = mid[i].rec
      <4>1. ASSUME NEW i \in 1 .. n + 1 PROVE after[i] = mid[i]
        <5>1. CASE i = n + 1
          BY <2>2, <2>3, <5>1
        <5>2. CASE i # n + 1
          <6>1. i \in 1 .. n
            BY <1>1, <5>2
          <6> QED BY <2>2, <2>3, <6>1
        <5> QED BY <5>1, <5>2
      <4> QED BY <2>3, <4>1
    <3>2. Len(after) = Len(mid) + 1
      BY <1>1, <2>2, <2>3
    <3>3. TotalRec(after) = after[Len(after)].rec + TotalRec(mid)
      BY <2>2, <2>3, <3>1, <3>2, TotalRecMore
    <3> QED BY <1>5, <2>2, <3>3
  <2>6. TotalRec(after) = Limit(img)
    BY <1>1, <1>3, <1>4, <1>8, <2>4, <2>5
  <2>7. ASSUME NEW i \in DOMAIN after PROVE after[i].rec >= 8
    <3>1. i \in 1 .. n + 2
      BY <2>2, LenProperties
    <3>2. CASE i = n + 2
      BY <1>3, <1>5, <2>2, <3>2
    <3>3. CASE i = n + 1
      BY <1>3, <1>6, <1>10, <2>2, <3>3
    <3>4. CASE i # n + 1 /\ i # n + 2
      <4>1. i \in 1 .. n /\ i \in 1 .. n + 1
        BY <1>1, <3>1, <3>4
      <4> QED BY <1>1, <2>2, <4>1
    <3> QED BY <3>2, <3>3, <3>4
  <2> QED BY <1>1, <2>2, <2>6, <2>7 DEF WellFormed, after
<1> QED BY <1>9, <1>10

\* The records Mkdir gives a directory fill its block.
LEMMA NewDirBlockWellFormed ==
    ASSUME NEW img, NEW self \in InodeNums, NEW parent \in InodeNums
    PROVE  WellFormed(img, NewDirBlock(img, self, parent).ents)
<1> DEFINE e1 == [ino |-> self, name |-> Dot, nlen |-> 1, rec |-> 12, ftype |-> "dir"]
           rest == Limit(img) - 12
           e2 == [ino |-> parent, name |-> DotDot, nlen |-> 2, rec |-> rest, ftype |-> "dir"]
           a == <<e1>>
           b == <<e1, e2>>
<1>1. NewDirBlock(img, self, parent).ents = b
  BY DEF NewDirBlock
<1>2. rest \in Nat /\ rest >= 8 /\ Limit(img) = rest + 12
  BY GeometryAssumption DEF Limit, DirentTail
<1> HIDE DEF rest
<1>3. e1 \in Dirent /\ e1.rec = 12
  BY NamesDots DEF Dirent
<1>4. e2 \in Dirent /\ e2.rec = rest
  BY <1>2, NamesDots DEF Dirent
<1> HIDE DEF e1, e2
<1>5. /\ a \in Seq(Dirent) /\ Len(a) = 1 /\ a[1] = e1
      /\ b \in Seq(Dirent) /\ Len(b) = 2 /\ b[1] = e1 /\ b[2] = e2 /\ DOMAIN b = 1 .. 2
  BY <1>3, <1>4
<1> HIDE DEF a, b
<1>6. TotalRec(a) = 12
  <2>1. <<>> \in Seq(Dirent) /\ Len(<<>>) = 0 /\ Len(a) = Len(<<>>) + 1
    BY <1>5
  <2>2. \A i \in 1 .. Len(<<>>) : a[i].rec = <<>>[i].rec
    BY <2>1
  <2>3. TotalRec(a) = a[Len(a)].rec + TotalRec(<<>>)
    BY <1>5, <2>1, <2>2, TotalRecMore
  <2> QED BY <1>3, <1>5, <2>3, TotalRecEmpty
<1>7. TotalRec(b) = rest + 12
  <2>1. \A i \in 1 .. Len(a) : b[i].rec = a[i].rec
    BY <1>5
  <2>2. Len(b) = Len(a) + 1
    BY <1>5
  <2>3. TotalRec(b) = b[Len(b)].rec + TotalRec(a)
    BY <1>5, <2>1, <2>2, TotalRecMore
  <2> QED BY <1>4, <1>5, <1>6, <2>3
<1>8. \A i \in DOMAIN b : b[i].rec >= 8
  BY <1>2, <1>3, <1>4, <1>5
<1> QED BY <1>1, <1>2, <1>5, <1>7, <1>8 DEF WellFormed

-----------------------------------------------------------------------------
(* Directories chain, whatever is interrupted.                             *)

DirsFormed(img) ==
    \A n \in DirsOf(img) : \A b \in NodeAt(img, n).owns : WellFormed(img, img.blk[b].ents)

\* What chains depends on the records and the end they chain to.
LEMMA FormedSame ==
    ASSUME NEW img, NEW new, NEW ents, new.csum = img.csum
    PROVE  WellFormed(new, ents) <=> WellFormed(img, ents)
  BY DEF WellFormed, Limit, MetadataCsum

\* Writes that leave inodes and blocks leave it.
LEMMA QuietFormed ==
    ASSUME NEW img, NEW new, DirsFormed(img), new.csum = img.csum, new.itab = img.itab,
           new.blk = img.blk
    PROVE  DirsFormed(new)
<1>1. \A n : NodeAt(new, n) = NodeAt(img, n)
  BY DEF NodeAt
<1>2. DirsOf(new) = DirsOf(img)
  BY <1>1 DEF DirsOf, InUse
<1> QED BY <1>1, <1>2, FormedSame DEF DirsFormed

\* A block written that chains where a directory maps it.
LEMMA BlockWriteFormed ==
    ASSUME NEW img \in Image, DirsFormed(img), NEW b, NEW x,
           \A d \in DirsOf(img) : b \in NodeAt(img, d).owns => WellFormed(img, x.ents)
    PROVE  DirsFormed([img EXCEPT !.blk[b] = x])
<1> DEFINE new == [img EXCEPT !.blk[b] = x]
<1>1. /\ new.itab = img.itab /\ new.csum = img.csum
      /\ \A c \in BlockNums : new.blk[c] = IF c = b THEN x ELSE img.blk[c]
  BY DEF Image
<1>2. (\A n : NodeAt(new, n) = NodeAt(img, n)) /\ DirsOf(new) = DirsOf(img)
  BY <1>1 DEF NodeAt, InUse, DirsOf
<1>3. \A n \in DirsOf(img) : NodeAt(img, n).owns \subseteq BlockNums
  BY NodeType DEF DirsOf, InUse, Inode
<1> HIDE DEF new
<1>4. ASSUME NEW n \in DirsOf(img), NEW c \in NodeAt(img, n).owns
      PROVE  WellFormed(img, new.blk[c].ents)
  <2>1. c \in BlockNums
    BY <1>3
  <2>2. CASE c = b
    BY <1>1, <2>1, <2>2
  <2>3. CASE c # b
    BY <1>1, <2>1, <2>3 DEF DirsFormed
  <2> QED BY <2>2, <2>3
<1>5. DirsFormed(new)
  BY <1>1, <1>2, <1>4, FormedSame DEF DirsFormed
<1> QED BY <1>5 DEF new

\* An inode written, over none or over itself.
LEMMA InodeWriteFormed ==
    ASSUME NEW img \in Image, DirsFormed(img), NEW n \in InodeNums, NEW y,
           y.kind = "dir" => \A b \in y.owns : WellFormed(img, img.blk[b].ents)
    PROVE  DirsFormed([img EXCEPT !.itab[InodeSlot(n)] = y])
<1> DEFINE new == [img EXCEPT !.itab[InodeSlot(n)] = y]
<1>1. /\ new.blk = img.blk /\ new.csum = img.csum
      /\ \A s \in Slots : new.itab[s] = IF s = InodeSlot(n) THEN y ELSE img.itab[s]
  BY DEF Image
<1> HIDE DEF new
<1>2. \A m \in InodeNums : NodeAt(new, m) = IF m = n THEN y ELSE NodeAt(img, m)
  BY <1>1, SlotInTables, SlotInjective DEF NodeAt
<1>3. ASSUME NEW m \in DirsOf(new), NEW b \in NodeAt(new, m).owns
      PROVE  WellFormed(img, new.blk[b].ents)
  <2>1. m \in InodeNums
    BY DEF DirsOf, InUse
  <2>2. CASE m = n
    BY <1>1, <1>2, <1>3, <2>2 DEF DirsOf
  <2>3. CASE m # n
    <3>1. NodeAt(new, m) = NodeAt(img, m) /\ m \in DirsOf(img)
      BY <1>2, <2>1, <2>3 DEF DirsOf, InUse
    <3> QED BY <1>1, <1>3, <3>1 DEF DirsFormed
  <2> QED BY <2>2, <2>3
<1>4. DirsFormed(new)
  BY <1>1, <1>3, FormedSame DEF DirsFormed
<1> QED BY <1>4 DEF new

\* Sealing a handle changes its checksum.
LEMMA SealedKeeps ==
    ASSUME NEW img, NEW in \in Handle
    PROVE  /\ Sealed(img, in).raw.kind = in.raw.kind /\ Sealed(img, in).raw.owns = in.raw.owns
           /\ Sealed(img, in).num = in.num
  BY DEF Sealed, Handle, Inode

\* An inode in use written over itself.
LEMMA RewriteFormed ==
    ASSUME NEW img \in Image, DirsFormed(img), NEW in, NEW n, RewroteInode(img, in, n)
    PROVE  DirsFormed(WriteInodeTo(img, in))
<1> DEFINE y == Sealed(img, in).raw
<1>1. in \in Handle /\ in.num = n /\ n \in InUse(img) /\ n \in InodeNums
  BY DEF RewroteInode, InUse
<1>2. y.kind = NodeAt(img, n).kind /\ y.owns = NodeAt(img, n).owns
  BY <1>1, SealedKeeps DEF RewroteInode
<1>3. WriteInodeTo(img, in) = [img EXCEPT !.itab[InodeSlot(n)] = y]
  BY <1>1 DEF WriteInodeTo
<1> HIDE DEF y
<1>4. y.kind = "dir" => \A b \in y.owns : WellFormed(img, img.blk[b].ents)
  BY <1>1, <1>2 DEF DirsFormed, DirsOf
<1> QED BY <1>1, <1>3, <1>4, InodeWriteFormed

\* The new block is nobody's yet.
LEMMA WriteBodyFormed == ASSUME IInv, DirsFormed(image), WriteBody PROVE DirsFormed(image')
<1>1. /\ image \in Image /\ pc = "body"
      /\ \E x : image' = [image EXCEPT !.blk[loc.blk] = x]
  BY DEF IInv, TypeOK, WriteBody
<1>2. \A n \in DirsOf(image) : loc.blk \notin NodeAt(image, n).owns
  BY <1>1 DEF IInv, BlockHolds, OwnedBy, DirsOf
<1>3. PICK x : image' = [image EXCEPT !.blk[loc.blk] = x]
  BY <1>1
<1>4. DirsFormed([image EXCEPT !.blk[loc.blk] = x])
  BY <1>1, <1>2, BlockWriteFormed
<1> QED BY <1>3, <1>4

\* A new directory's block chains before its inode is there.
LEMMA WriteInodeFormed == ASSUME IInv, DirsFormed(image), WriteInode PROVE DirsFormed(image')
<1> DEFINE n == loc.ino
           y == Sealed(image, NewInode).raw
<1>1. /\ TypeOK /\ image \in Image /\ pc = "inode" /\ op.in.num \in InodeNums
      /\ image' = WriteInodeTo(image, NewInode)
  BY DEF IInv, TypeOK, WriteInode, Operations, Handle
<1>2. /\ n \in InodeNums /\ loc.blk \in BlockNums
      /\ op.kind = "mkdir" \/ (op.kind = "create" /\ op.data \in Data)
  BY <1>1, MakingHolds DEF Making
<1>3. /\ NewInode \in Handle /\ NewInode.num = n
      /\ NewInode.raw.kind = IF op.kind = "mkdir" THEN "dir" ELSE "file"
      /\ NewInode.raw.owns = {loc.blk}
  BY <1>1, <1>2, NewInodeType
<1>4. image' = [image EXCEPT !.itab[InodeSlot(n)] = y]
  BY <1>1, <1>3 DEF WriteInodeTo
<1>5. y.kind = NewInode.raw.kind /\ y.owns = {loc.blk}
  BY <1>3, SealedKeeps
<1> HIDE DEF y
<1>6. op.kind = "mkdir" => WellFormed(image, image.blk[loc.blk].ents)
  BY <1>1, <1>2, NewDirBlockWellFormed DEF IInv, BlockHolds
<1>7. y.kind = "dir" => \A b \in y.owns : WellFormed(image, image.blk[b].ents)
  BY <1>3, <1>5, <1>6
<1> QED BY <1>1, <1>2, <1>4, <1>7, InodeWriteFormed

\* What addDirent writes when it writes.
LEMMA AddDirentWrites ==
    ASSUME IInv, AddDirent, ~Refuse("refused")
    PROVE  LET b == op.in.raw.blk
               old == image.blk[b]
               ents == WithDirent(old.ents, loc.ino, op.name, NewInode.raw.kind) IN
           /\ op.in.num \in DirsOf(image) /\ op.in.raw.single /\ b \in BlockNums
           /\ old.ents \in Seq(Dirent) /\ old \in Block /\ image \in Image
           /\ WellFormed(image, ents)
           /\ \E tail : image' = [image EXCEPT !.blk[b] = [old EXCEPT !.ents = ents, !.tail = tail]]
<1> DEFINE b == op.in.raw.blk
           old == image.blk[b]
           kind == NewInode.raw.kind
           ents == WithDirent(old.ents, loc.ino, op.name, kind)
           tail == TailSeal(image, old.tail, op.in.num)
<1>1. /\ TypeOK /\ image \in Image /\ pc = "dirent" /\ op.name \in Names
      /\ ~DirentRefused(op.in, op.name)
      /\ image' = [image EXCEPT !.blk[b] = [old EXCEPT !.ents = ents, !.tail = tail]]
  BY DEF IInv, TypeOK, AddDirent, Operations
<1>2. /\ op.in.num \in DirsOf(image) /\ op.in.raw = NodeAt(image, op.in.num)
      /\ loc.ino \in InodeNums /\ loc.blk \in BlockNums
      /\ op.kind = "mkdir" \/ (op.kind = "create" /\ op.data \in Data)
  BY <1>1, MakingHolds DEF Making
<1>3. op.in.raw.single /\ b \in BlockNums
  <2>1. op.in.raw.single
    BY <1>1 DEF IInv, ArgumentsHold, Making
  <2>2. b \in NodeAt(image, op.in.num).owns /\ op.in.num \in InodeNums
    BY <1>2, <2>1 DEF IInv, ExtentsOwned, DirsOf, InUse
  <2> QED BY <2>1, <2>2, <1>1, NodeType DEF Inode
<1>4. old \in Block /\ old.ents \in Seq(Dirent)
  <2>1. old \in Block
    BY <1>1, <1>3 DEF Image
  <2> QED BY <2>1 DEF Block
<1>5. kind \in {"dir", "file"}
  BY <1>1, <1>2, NewInodeType
<1> HIDE DEF kind, tail
<1>6. /\ WellFormed(image, old.ents)
      /\ Last(old.ents).rec - UsedLen(Last(old.ents)) >= DirentLen(NameLen[op.name])
  <2> DEFINE last == Last(old.ents)
             slack == last.rec - UsedLen(last)
             need == DirentLen(NameLen[op.name])
  <2>1. WellFormed(image, old.ents) /\ ~(slack < need)
    BY <1>1 DEF DirentRefused
  <2>2. last \in Dirent
    <3>1. Len(old.ents) \in Nat /\ Len(old.ents) > 0
      BY <1>4, <2>1, LenProperties DEF WellFormed
    <3> HIDE DEF old
    <3> QED BY <1>4, <3>1, ElementOfSeq DEF Last
  <2>3. need \in Nat
    <3>1. NameLen[op.name] \in Nat
      BY <1>1, NamesAssumption
    <3> QED BY <3>1, DirentLenNat
  <2>4. UsedLen(last) \in Nat /\ last.rec \in Nat
    BY <2>2, UsedLenNat, DirentFields
  <2> HIDE DEF last, need
  <2>5. slack >= need
    BY <2>1, <2>3, <2>4
  <2> QED BY <2>1, <2>5 DEF last, need
<1>7. WellFormed(image, ents)
  <2> HIDE DEF old
  <2> QED BY <1>1, <1>2, <1>4, <1>5, <1>6, WithDirentWellFormed
<1> HIDE DEF ents
<1>8. \E t : image' = [image EXCEPT !.blk[b] = [old EXCEPT !.ents = ents, !.tail = t]]
  BY <1>1
<1> QED BY <1>1, <1>2, <1>3, <1>4, <1>7, <1>8 DEF ents, kind

\* A record is added to the block of the directory and no other.
LEMMA AddDirentFormed ==
    ASSUME IInv, DirsFormed(image), AddDirent PROVE DirsFormed(image')
<1>1. CASE Refuse("refused")
  BY <1>1 DEF Refuse
<1>2. CASE ~Refuse("refused")
  <2> DEFINE b == op.in.raw.blk
             old == image.blk[b]
             ents == WithDirent(old.ents, loc.ino, op.name, NewInode.raw.kind)
  <2>1. /\ old \in Block /\ image \in Image /\ WellFormed(image, ents)
        /\ \E tail : image' = [image EXCEPT !.blk[b] = [old EXCEPT !.ents = ents, !.tail = tail]]
    BY <1>2, AddDirentWrites
  <2> HIDE DEF ents
  <2>2. PICK tail : image' = [image EXCEPT !.blk[b] = [old EXCEPT !.ents = ents, !.tail = tail]]
    BY <2>1
  <2> DEFINE x == [old EXCEPT !.ents = ents, !.tail = tail]
  <2>3. x.ents = ents
    BY <2>1 DEF Block
  <2> HIDE DEF x
  <2>4. DirsFormed([image EXCEPT !.blk[b] = x])
    BY <2>1, <2>3, BlockWriteFormed
  <2> QED BY <2>2, <2>4 DEF x
<1> QED BY <1>1, <1>2

\* A file's block is no directory's.
LEMMA OverwriteDataFormed ==
    ASSUME IInv, DirsFormed(image), OverwriteData PROVE DirsFormed(image')
<1>1. CASE Refuse("refused")
  BY <1>1 DEF Refuse
<1>2. CASE ~Refuse("refused")
  <2> DEFINE b == op.in.raw.blk
  <2>1. /\ image \in Image /\ pc = "odata" /\ ~OverwriteRefused
        /\ \E x : image' = [image EXCEPT !.blk[b] = x]
    BY <1>2 DEF IInv, TypeOK, OverwriteData
  <2>2. op.in.raw.single /\ op.in.num \notin DirsOf(image)
    <3>1. op.in.raw = NodeAt(image, op.in.num)
      BY <2>1 DEF IInv, ArgumentsHold, Overwriting, ReadInode
    <3> QED BY <2>1, <3>1 DEF OverwriteRefused, DirsOf
  <2>3. \A d \in DirsOf(image) : b \notin NodeAt(image, d).owns
    BY <2>1, <2>2, HandleBlockIsOurs DEF DirsOf
  <2>4. PICK x : image' = [image EXCEPT !.blk[b] = x]
    BY <2>1
  <2>5. DirsFormed([image EXCEPT !.blk[b] = x])
    BY <2>1, <2>3, BlockWriteFormed
  <2> QED BY <2>4, <2>5
<1> QED BY <1>1, <1>2

\* An inode rewritten keeps its kind and its blocks.
LEMMA WriteParentRewrites ==
    ASSUME IInv, WriteParent
    PROVE  \E in, n : RewroteInode(image, in, n) /\ image' = WriteInodeTo(image, in)
<1> DEFINE links == (op.in.raw.links + 1) % 65536
           in == [op.in EXCEPT !.raw.links = links]
<1>1. pc = "parent" /\ image' = WriteInodeTo(image, in)
  BY DEF WriteParent
<1>2. op.in.num \in InUse(image) /\ op.in.raw = NodeAt(image, op.in.num)
  BY <1>1, MakingHolds DEF Making, DirsOf
<1>3. op.in \in Handle /\ op.in.raw \in Inode
  BY DEF IInv, TypeOK, Operations, Handle
<1>4. links \in Nat
  <2>1. op.in.raw.links \in Nat
    BY <1>3 DEF Inode
  <2> QED BY <2>1, SMT
<1> HIDE DEF links
<1>5. RewroteInode(image, in, op.in.num)
  BY <1>2, <1>3, <1>4 DEF RewroteInode, Handle, Inode
<1> QED BY <1>1, <1>5

\* So does Overwrite.
LEMMA OverwriteInodeRewrites ==
    ASSUME IInv, OverwriteInode
    PROVE  \E in, n : RewroteInode(image, in, n) /\ image' = WriteInodeTo(image, in)
<1> DEFINE in == [op.in EXCEPT !.raw.size = DataLen[op.data]]
<1>1. pc = "oinode" /\ image' = WriteInodeTo(image, in)
  BY DEF OverwriteInode
<1>2. op.in = ReadInode(image, op.in.num) /\ op.in.raw.kind # "free" /\ op.data \in Data
  BY <1>1 DEF IInv, ArgumentsHold, Overwriting
<1>3. op.in \in Handle /\ op.in.raw \in Inode /\ op.in.num \in InodeNums
  BY DEF IInv, TypeOK, Operations, Handle
<1>4. op.in.raw = NodeAt(image, op.in.num) /\ op.in.num \in InUse(image)
      /\ DataLen[op.data] \in Nat
  BY <1>2, <1>3, NamesAssumption DEF ReadInode, InUse
<1>5. RewroteInode(image, in, op.in.num)
  BY <1>3, <1>4 DEF RewroteInode, Handle, Inode
<1> QED BY <1>1, <1>5

\* The steps that write the tree.
WritesTree ==
    \/ WriteBody \/ WriteInode \/ AddDirent \/ WriteParent \/ OverwriteData \/ OverwriteInode

\* The others leave it.
LEMMA LeavesTree ==
    ASSUME IInv, [Next]_vars, ~WritesTree
    PROVE  image'.csum = image.csum /\ image'.itab = image.itab /\ image'.blk = image.blk
<1>1. image \in Image
  BY DEF IInv, TypeOK
<1>2. CASE Step
  <2>1. CASE AllocInode \/ AllocBlock \/ WriteDesc
    BY <1>1, <2>1 DEF AllocInode, AllocBlock, WriteDesc, Refuse, Image
  <2>2. CASE LookupName \/ PickGroup
    BY <2>2 DEF LookupName, PickGroup, Refuse
  <2> QED BY <1>2, <2>1, <2>2 DEF Step, WritesTree
<1>3. CASE Caller
  <2>1. CASE Sync
    BY <1>1, <2>1 DEF Sync, Image
  <2> QED BY <1>3, <2>1 DEF Caller, OpenFS, Close, CallMkdir, CallCreateFile, CallOverwrite, Call
<1> QED BY <1>2, <1>3 DEF Next, Kill, vars

\* Every step keeps the chains.
LEMMA NextFormed == ASSUME IInv, DirsFormed(image), [Next]_vars PROVE DirsFormed(image')
<1>1. CASE ~WritesTree
  BY <1>1, LeavesTree, QuietFormed
<1>2. CASE WriteParent \/ OverwriteInode
  <2>1. image \in Image
    BY DEF IInv, TypeOK
  <2> QED BY <1>2, <2>1, WriteParentRewrites, OverwriteInodeRewrites, RewriteFormed
<1> QED BY <1>1, <1>2, WriteBodyFormed, WriteInodeFormed, AddDirentFormed, OverwriteDataFormed
        DEF WritesTree

-----------------------------------------------------------------------------
(* Refusals.                                                               *)

\* While nothing was killed, a group's free count is what its bitmap leaves,
\* and what a descriptor in memory already subtracted.
Promised ==
    hist.kills = 0 =>
        \A g \in Group : ~image.gd[g].bUninit =>
            image.gd[g].freeB + Cardinality(image.bbm[g])
                = BlocksPerGroup + (IF g = loc.g THEN BlocksHeld ELSE 0)

\* What lookup found out stays so until the record is added.
Unclashed ==
    pc \in {"pick", "ialloc", "balloc", "desc", "body", "inode", "dirent"} =>
        /\ ~op.in.raw.htree
        /\ \A i \in DOMAIN image.blk[op.in.raw.blk].ents :
                ~Named(image.blk[op.in.raw.blk].ents[i], op.name)

RInv == GInv /\ DirsFormed(image) /\ Promised /\ Unclashed

\* A clean start.
LEMMA InitRInv == Init => RInv
<1> SUFFICES ASSUME Init PROVE RInv
  OBVIOUS
<1>1. pc = "closed" /\ image \in Image /\ FsckClean(image)
  BY ImagesAssumption DEF Init
<1>2. GInv
  BY InitGInv
<1>3. DirsFormed(image)
  BY <1>1 DEF FsckClean, DirectorySound, DirectoryBlockSound, DirsFormed
<1>4. ASSUME NEW g \in Group, ~image.gd[g].bUninit
      PROVE  image.gd[g].freeB + Cardinality(image.bbm[g]) = BlocksPerGroup + 0
  <2> DEFINE taken == UsedBlockBits(image, g)
  <2>1. image.gd[g].freeB = BlocksPerGroup - Cardinality(taken) /\ image.bbm[g] = taken
    BY <1>1, <1>4 DEF FsckClean, GroupCountsMatch, BitmapsMatch
  <2>2. taken \in SUBSET BlockIdx
    BY DEF UsedBlockBits
  <2> HIDE DEF taken
  <2>3. Cardinality(taken) \in Nat /\ BlocksPerGroup \in Nat
    BY <2>2, BlockBits, GeometryAssumption
  <2> QED BY <2>1, <2>3
<1>5. Promised
  <2>1. BlocksHeld = 0
    BY <1>1 DEF BlocksHeld
  <2> QED BY <1>4, <2>1 DEF Promised
<1> QED BY <1>1, <1>2, <1>3, <1>5 DEF RInv, Unclashed

\* Nothing held, nothing counted.
LEMMA QuietPromised ==
    ASSUME Promised, image'.gd = image.gd, image'.bbm = image.bbm,
           BlocksHeld = 0, BlocksHeld' = 0, hist'.kills = 0 => hist.kills = 0
    PROVE  Promised'
  BY DEF Promised

\* A block taken is counted in the descriptor in memory.
LEMMA TakesBlockPromised ==
    ASSUME GroupsFit, GInv, Promised, NEW i, TakesBlock(i) PROVE Promised'
<1> DEFINE g == loc.g
<1>1. /\ pc = "balloc" /\ pc' = "desc" /\ i \in BlockIdx /\ i \notin image.bbm[g]
      /\ hist' = hist
  BY DEF TakesBlock
<1>2. /\ loc'.g = g /\ g \in Group /\ image'.gd = image.gd
      /\ image'.bbm[g] = image.bbm[g] \cup {i}
      /\ \A h \in Group \ {g} : image'.bbm[h] = image.bbm[h]
  BY TakesBlockDesc
<1>3. BlocksHeld = 0 /\ BlocksHeld' = 1
  BY <1>1 DEF BlocksHeld
<1>4. /\ Cardinality(image'.bbm[g]) = Cardinality(image.bbm[g]) + 1
      /\ Cardinality(image.bbm[g]) \in Nat
  <2>1. image.bbm[g] \in SUBSET BlockIdx
    BY <1>2, CountTypes DEF GInv
  <2> QED BY <1>1, <1>2, <2>1, BlockBits, OneMore
<1>5. /\ image.gd[g].freeB \in Nat /\ BlocksPerGroup \in Nat
  BY <1>2, CountTypes, GeometryAssumption DEF GInv, GroupDesc
<1> SUFFICES ASSUME hist.kills = 0, NEW h \in Group, ~image.gd[h].bUninit
             PROVE  image.gd[h].freeB + Cardinality(image'.bbm[h])
                       = BlocksPerGroup + (IF h = g THEN 1 ELSE 0)
  BY <1>1, <1>2, <1>3 DEF Promised
<1>6. image.gd[h].freeB + Cardinality(image.bbm[h]) = BlocksPerGroup + 0
  BY <1>3 DEF Promised
<1>7. CASE h = g
  BY <1>4, <1>5, <1>6, <1>7
<1>8. CASE h # g
  BY <1>2, <1>6, <1>8
<1> QED BY <1>7, <1>8

\* The descriptor is written.
LEMMA DescWrittenPromised == ASSUME GInv, Promised, DescWritten PROVE Promised'
<1> DEFINE g == loc.g
<1>1. pc = "desc" /\ pc' = "body" /\ hist' = hist
  BY DEF DescWritten
<1>2. /\ g \in Group /\ image'.bbm = image.bbm
      /\ \A h \in Group \ {g} : image'.gd[h] = image.gd[h]
      /\ image'.gd[g].freeB = image.gd[g].freeB - 1 /\ image.gd[g].freeB \in Nat
  BY DescWrittenDesc
<1>3. BlocksHeld = 1 /\ BlocksHeld' = 0
  BY <1>1 DEF BlocksHeld
<1>4. ~image.gd[g].bUninit
  BY <1>1 DEF GInv, IInv, GroupHolds
<1>5. Cardinality(image.bbm[g]) \in Nat /\ BlocksPerGroup \in Nat
  <2>1. image.bbm[g] \in SUBSET BlockIdx
    BY <1>2, CountTypes DEF GInv
  <2> QED BY <2>1, BlockBits, GeometryAssumption
<1> SUFFICES ASSUME hist.kills = 0, NEW h \in Group, ~image'.gd[h].bUninit
             PROVE  image'.gd[h].freeB + Cardinality(image.bbm[h]) = BlocksPerGroup + 0
  BY <1>1, <1>2, <1>3 DEF Promised
<1>6. CASE h = g
  <2>1. image.gd[g].freeB + Cardinality(image.bbm[g]) = BlocksPerGroup + 1
    BY <1>2, <1>3, <1>4 DEF Promised
  <2> QED BY <1>2, <1>5, <1>6, <2>1
<1>7. CASE h # g
  BY <1>2, <1>3, <1>7 DEF Promised
<1> QED BY <1>6, <1>7

\* Every step keeps the promise.
LEMMA NextPromised == ASSUME GroupsFit, GInv, Promised, [Next]_vars PROVE Promised'
<1>1. Shape
  BY NextShape DEF GInv
<1>2. CASE UNCHANGED vars
  <2>1. BlocksHeld' = BlocksHeld
    BY <1>2 DEF vars, BlocksHeld
  <2> QED BY <1>2, <2>1 DEF vars, Promised
<1>3. CASE Ends
  <2>1. pc' = "closed" /\ image' = image /\ (hist'.kills = 0 => hist.kills = 0 /\ pc # "desc")
    BY <1>3 DEF Ends
  <2>2. BlocksHeld' = 0 /\ (pc # "desc" => BlocksHeld = 0)
    BY <2>1 DEF BlocksHeld
  <2>3. hist'.kills # 0 => Promised'
    BY DEF Promised
  <2> QED BY <2>1, <2>2, <2>3, QuietPromised
<1>4. CASE Opens \/ Works
  <2>1. /\ pc # "desc" /\ pc' # "desc" /\ image'.gd = image.gd /\ image'.bbm = image.bbm
        /\ hist'.kills = hist.kills
    BY <1>4 DEF Opens, Works, SameCounts, SameHistory
  <2> QED BY <2>1, QuietPromised DEF BlocksHeld
<1>5. CASE Flushes
  <2>1. /\ image'.gd = image.gd /\ image'.bbm = image.bbm /\ pc = "idle" /\ pc' = "idle"
        /\ hist'.kills = hist.kills
    BY <1>5, CountTypes DEF GInv, Flushes, SameHistory, Image
  <2> QED BY <2>1, QuietPromised DEF BlocksHeld
<1>6. ASSUME NEW g \in Group, Picks(g) PROVE Promised'
  <2>1. pc # "desc" /\ pc' # "desc" /\ image' = image /\ hist' = hist
    BY <1>6 DEF Picks
  <2> QED BY <2>1, QuietPromised DEF BlocksHeld
<1>7. ASSUME NEW i, TakesInode(i) PROVE Promised'
  <2>1. /\ pc # "desc" /\ pc' # "desc" /\ image'.gd = image.gd /\ image'.bbm = image.bbm
        /\ hist' = hist
    BY <1>7, TakesInodeDesc DEF TakesInode
  <2> QED BY <2>1, QuietPromised DEF BlocksHeld
<1> QED BY <1>1, <1>2, <1>3, <1>4, <1>5, <1>6, <1>7, TakesBlockPromised, DescWrittenPromised
        DEF Shape

\* lookup finds nothing when no record has the name.
LEMMA NothingNamed ==
    ASSUME NEW img \in Image, NEW dir \in Handle, dir.raw.blk \in BlockNums, NEW name,
           Lookup(img, dir, name) = 0
    PROVE  \A i \in DOMAIN img.blk[dir.raw.blk].ents : ~Named(img.blk[dir.raw.blk].ents[i], name)
<1> DEFINE ents == img.blk[dir.raw.blk].ents
           hits == {i \in DOMAIN ents : Named(ents[i], name)}
<1>1. ents \in Seq(Dirent)
  BY DEF Image, Block
<1> HIDE DEF ents
<1>2. hits \in SUBSET Nat
  BY <1>1, LenProperties
<1>3. hits = {} \/ ents[Min(hits)].ino = 0
  BY DEF Lookup, ents
<1>4. hits # {} => Min(hits) \in hits
  <2> HIDE DEF hits
  <2> QED BY <1>2, MinIn
<1>5. hits = {}
  BY <1>3, <1>4 DEF Named
<1> QED BY <1>5 DEF ents

\* Every step keeps what lookup found out.
LEMMA NextUnclashed == ASSUME IInv, Unclashed, [Next]_vars PROVE Unclashed'
<1> DEFINE Ahead == {"pick", "ialloc", "balloc", "desc", "body", "inode", "dirent"}
<1>1. /\ image \in Image /\ op.in \in Handle
  BY DEF IInv, TypeOK, Operations
<1>2. CASE LookupName
  <2>1. CASE Refuse("refused") \/ Refuse("exists")
    BY <2>1 DEF Refuse, CloseWith, Unclashed
  <2>2. CASE ~(Refuse("refused") \/ Refuse("exists"))
    <3>1. /\ pc = "lookup" /\ ~NotLookedUp /\ Lookup(image, op.in, op.name) = 0
          /\ UNCHANGED <<image, op>>
      BY <1>2, <2>2 DEF LookupName
    <3>2. ~op.in.raw.htree /\ op.in.raw.single
      BY <3>1 DEF NotLookedUp, LookupRefused
    <3>3. op.in.raw.blk \in BlockNums
      <4>1. op.in.num \in InUse(image) /\ op.in.raw = NodeAt(image, op.in.num)
        BY <3>1, MakingHolds DEF Making, DirsOf
      <4>2. op.in.raw.blk \in NodeAt(image, op.in.num).owns /\ op.in.num \in InodeNums
        BY <3>2, <4>1 DEF IInv, ExtentsOwned, InUse
      <4> QED BY <1>1, <4>2, NodeType DEF Inode
    <3> QED BY <1>1, <3>1, <3>2, <3>3, NothingNamed DEF Unclashed
  <2> QED BY <2>1, <2>2
<1>3. CASE WriteBody
  <2>1. /\ pc = "body" /\ UNCHANGED op /\ \E x : image' = [image EXCEPT !.blk[loc.blk] = x]
    BY <1>3 DEF WriteBody
  <2>2. op.in.num \in InUse(image) /\ op.in.raw = NodeAt(image, op.in.num)
    BY <2>1, MakingHolds DEF Making, DirsOf
  <2>3. op.in.raw.single
    BY <2>1 DEF IInv, ArgumentsHold, Making
  <2>4. op.in.raw.blk \in NodeAt(image, op.in.num).owns
    BY <2>2, <2>3 DEF IInv, ExtentsOwned
  <2>5. op.in.raw.blk # loc.blk
    BY <2>1, <2>2, <2>4 DEF IInv, BlockHolds, OwnedBy
  <2>6. image'.blk[op.in.raw.blk] = image.blk[op.in.raw.blk]
    BY <1>1, <2>1, <2>5 DEF Image
  <2> QED BY <2>1, <2>6 DEF Unclashed
<1>4. CASE PickGroup \/ AllocInode \/ AllocBlock \/ WriteDesc \/ WriteInode
  <2>1. CASE pc' = "closed"
    BY <2>1 DEF Unclashed
  <2>2. CASE pc' # "closed"
    <3>1. pc \in Ahead /\ op' = op
      BY <1>4, <2>2 DEF PickGroup, AllocInode, AllocBlock, WriteDesc, WriteInode, Refuse, CloseWith
    <3>2. image'.blk = image.blk
      BY <1>1, <1>4, InodeWriteLeaves
         DEF PickGroup, AllocInode, AllocBlock, WriteDesc, WriteInode, Refuse, Image
    <3> QED BY <3>1, <3>2 DEF Unclashed
  <2> QED BY <2>1, <2>2
<1>5. CASE AddDirent \/ WriteParent \/ OverwriteData \/ OverwriteInode \/ Caller \/ Kill
  <2>1. pc' \notin Ahead
    BY <1>5 DEF AddDirent, WriteParent, OverwriteData, OverwriteInode, Caller, Kill, Return,
       Refuse, CloseWith, OpenFS, Sync, Close, CallMkdir, CallCreateFile, CallOverwrite, Call
  <2> QED BY <2>1 DEF Unclashed
<1>6. CASE UNCHANGED vars
  BY <1>6 DEF vars, Unclashed
<1> QED BY <1>2, <1>3, <1>4, <1>5, <1>6 DEF Next, Step

\* Every step keeps it.
LEMMA NextRInv == ASSUME GroupsFit, RInv, [Next]_vars PROVE RInv'
  BY NextGInv, NextFormed, NextPromised, NextUnclashed DEF RInv, GInv

\* A full group promises no block, unless something was killed.
LEMMA FullGroup ==
    ASSUME RInv, pc = "balloc", FreeBlockBits(loc.g) = {}
    PROVE  hist.kills > 0 /\ BlockIdx \subseteq image.bbm[loc.g]
<1> DEFINE g == loc.g
<1>1. /\ g \in Group /\ image.gd[g].freeB \in Nat /\ image.bbm[g] \in SUBSET BlockIdx
      /\ hist.kills \in Nat
  BY CountTypes DEF RInv, GInv, GroupDesc, IInv, TypeOK, Histories
<1>2. image.bbm[g] = BlockIdx
  BY <1>1 DEF FreeBlockBits
<1>3. ~image.gd[g].bUninit /\ image.gd[g].freeB # 0 /\ BlocksHeld = 0
  BY DEF RInv, GInv, IInv, GroupHolds, DescHolds, BlocksHeld
<1>4. Cardinality(BlockIdx) = BlocksPerGroup /\ BlocksPerGroup \in Nat
  <2>1. 0 \in Int /\ BlocksPerGroup - 1 \in Int /\ BlocksPerGroup \in Nat \ {0}
    BY GeometryAssumption
  <2>2. Cardinality(0 .. BlocksPerGroup - 1)
           = IF 0 > BlocksPerGroup - 1 THEN 0 ELSE (BlocksPerGroup - 1) - 0 + 1
    BY <2>1, FS_Interval
  <2> QED BY <2>1, <2>2 DEF BlockIdx
<1>5. hist.kills = 0 => image.gd[g].freeB + BlocksPerGroup = BlocksPerGroup + 0
  BY <1>1, <1>2, <1>3, <1>4 DEF RInv, Promised
<1> HIDE DEF g
<1>6. hist.kills # 0
  BY <1>1, <1>3, <1>4, <1>5
<1> QED BY <1>1, <1>2, <1>6 DEF g

\* addDirent refuses for want of room, and for nothing lookup has settled.
LEMMA DirentRefusal ==
    ASSUME RInv, pc = "dirent", DirentRefused(op.in, op.name)
    PROVE  /\ op.kind \in {"mkdir", "create"} /\ ~op.in.raw.htree
           /\ NoRoomIn(op.in, op.name)
<1> DEFINE ents == image.blk[op.in.raw.blk].ents
           last == Last(ents)
           need == DirentLen(NameLen[op.name])
<1>1. /\ op.in.num \in DirsOf(image) /\ op.in.raw = NodeAt(image, op.in.num)
      /\ op.kind = "mkdir" \/ op.kind = "create"
      /\ image \in Image /\ op.name \in Names /\ op.in.num \in InodeNums
  BY MakingHolds DEF Making, RInv, GInv, IInv, TypeOK, Operations, Handle
<1>2. op.in.raw.single
  BY DEF RInv, GInv, IInv, ArgumentsHold, Making
<1>3. op.in.raw.blk \in NodeAt(image, op.in.num).owns
  BY <1>1, <1>2 DEF RInv, GInv, IInv, ExtentsOwned, DirsOf
<1>4. WellFormed(image, ents)
  BY <1>1, <1>3 DEF RInv, DirsFormed
<1>5. ~op.in.raw.htree /\ \A i \in DOMAIN ents : ~Named(ents[i], op.name)
  BY DEF RInv, Unclashed
<1>6. op.in.raw.size > BlockSize \/ last.rec - UsedLen(last) < need
  BY <1>2, <1>4, <1>5 DEF DirentRefused
<1>7. ents \in Seq(Dirent)
  <2>1. op.in.raw.blk \in BlockNums
    BY <1>1, <1>3, NodeType DEF Inode
  <2> QED BY <1>1, <2>1 DEF Image, Block
<1>8. last \in Dirent
  <2>1. Len(ents) \in Nat /\ Len(ents) > 0
    BY <1>4, <1>7, LenProperties DEF WellFormed
  <2> HIDE DEF ents
  <2> QED BY <1>7, <2>1, ElementOfSeq DEF Last
<1>9. need \in Nat
  <2>1. NameLen[op.name] \in Nat
    BY <1>1, NamesAssumption
  <2> QED BY <2>1, DirentLenNat
<1> HIDE DEF last, need
<1>10. UsedLen(last) \in Nat /\ last.rec \in Nat
  BY <1>8, UsedLenNat, DirentFields
<1>11. last.rec - UsedLen(last) < need => last.rec < need + UsedLen(last)
  BY <1>9, <1>10
<1> QED BY <1>1, <1>5, <1>6, <1>11 DEF NoRoomIn, UsedLen, last, need

\* What refusals do, in every step.
Settled ==
    pc' = "closed" /\ ret'.status \in {"exists", "refused"} /\ op.kind # "none" =>
        \/ image' = hist.before
        \/ op.kind \in {"mkdir", "create"} /\ ~op.in.raw.htree /\ NoRoomIn(op.in, op.name)
        \/ hist.kills > 0 /\ BlockIdx \subseteq image.bbm[loc.g]

\* Every step does.
LEMMA RefusalsSettled == ASSUME RInv, Next PROVE Settled
<1> SUFFICES ASSUME pc' = "closed", ret'.status \in {"exists", "refused"}
             PROVE  \/ image' = hist.before
                    \/ /\ op.kind \in {"mkdir", "create"} /\ ~op.in.raw.htree
                       /\ NoRoomIn(op.in, op.name)
                    \/ hist.kills > 0 /\ BlockIdx \subseteq image.bbm[loc.g]
  BY DEF Settled
<1>1. BeforeHolds
  BY DEF RInv, GInv
<1>2. CASE LookupName \/ PickGroup \/ AllocInode \/ OverwriteData
  <2>1. /\ pc \in {"lookup", "pick", "ialloc", "odata"} /\ image' = image
    BY <1>2 DEF LookupName, PickGroup, AllocInode, OverwriteData, Refuse
  <2> QED BY <1>1, <2>1 DEF BeforeHolds
<1>3. CASE AllocBlock
  <2>1. pc = "balloc" /\ FreeBlockBits(loc.g) = {}
    BY <1>3 DEF AllocBlock
  <2> QED BY <2>1, FullGroup
<1>4. CASE AddDirent
  <2>1. pc = "dirent" /\ DirentRefused(op.in, op.name)
    BY <1>4 DEF AddDirent, Return
  <2> QED BY <2>1, DirentRefusal
<1>5. ~(WriteDesc \/ WriteBody \/ WriteInode \/ WriteParent \/ OverwriteInode)
  BY DEF WriteDesc, WriteBody, WriteInode, WriteParent, OverwriteInode, Return
<1>6. ~(Kill \/ Caller)
  BY DEF Kill, Caller, CloseWith, OpenFS, Sync, Close, CallMkdir, CallCreateFile, CallOverwrite,
     Call
<1> QED BY <1>2, <1>3, <1>4, <1>5, <1>6 DEF Next, Step

\* The group counters hold what they count; then directories chain and groups
\* keep their promises after any calls, interruptions and reruns.
THEOREM RefusalsInvariance == GroupsFit => (Spec => []RInv)
<1> SUFFICES ASSUME GroupsFit PROVE Spec => []RInv
  OBVIOUS
<1>1. Init => RInv
  BY InitRInv
<1>2. RInv /\ [Next]_vars => RInv'
  BY NextRInv
<1> QED BY <1>1, <1>2, PTL DEF Spec

\* A refusal leaves the image as the operation found it, but for want of room
\* in the directory or after an interruption left a group that promises too
\* much (Mkdir, CreateFile, Overwrite).
THEOREM RefusalsSafe == GroupsFit => (Spec => RefusalsLeaveNothing)
<1> SUFFICES ASSUME GroupsFit PROVE Spec => RefusalsLeaveNothing
  OBVIOUS
<1>1. RInv /\ [Next]_vars => [Settled]_vars
  BY RefusalsSettled
<1>2. RInv /\ [Next]_vars =>
        [ pc' = "closed" /\ ret'.status \in {"exists", "refused"} /\ op.kind # "none" =>
          \/ image' = hist.before
          \/ op.kind \in {"mkdir", "create"} /\ ~op.in.raw.htree /\ NoRoomIn(op.in, op.name)
          \/ hist.kills > 0 /\ BlockIdx \subseteq image.bbm[loc.g] ]_vars
  BY <1>1 DEF Settled
<1> QED BY <1>2, RefusalsInvariance, PTL DEF Spec, RefusalsLeaveNothing
=============================================================================
