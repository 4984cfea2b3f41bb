---------------------------- MODULE Ext4Writer ----------------------------
(***************************************************************************)
(* The ext4 writer of ext4.go: Mkdir, CreateFile, Overwrite and Sync, one  *)
(* action for each write they make to the image, so that the program may   *)
(* be killed, or a write may fail, between any two of them.                *)
(*                                                                         *)
(* The callers are left free: an open session may make any directory,      *)
(* create any file or overwrite any file, and may Sync at any time.  What  *)
(* they all do is kept: a handle is read from the image right before it    *)
(* is used, and after an error they return without Sync (inject.go,        *)
(* ext4_test.go), which closes the session.                                *)
(***************************************************************************)
EXTENDS Ext4Image

CONSTANTS
    InitialImages,  \* the images the writer may be given
    MaxCalls,       \* bound: operations called
    MaxKills        \* bound: interruptions

\* "an existing, cleanly-unmounted ext4 filesystem" (ext4.go:5)
ASSUME ImagesAssumption ==
    /\ InitialImages \subseteq Image
    /\ \A img \in InitialImages : FsckClean(img)
    /\ MaxCalls \in Nat /\ MaxKills \in Nat

VARIABLES
    image,   \* the filesystem on disk
    sb,      \* fs.sb: the live copy of the superblock counters
    pc,      \* the next write of the operation in progress
    op,      \* its arguments
    loc,     \* its local variables g, d, ino, blk
    ret,     \* what the last operation returned
    hist     \* history: not program state, the properties speak of it

vars == <<image, sb, pc, op, loc, ret, hist>>

-----------------------------------------------------------------------------
NoHandle == [num |-> RootIno, raw |-> FreeInode]
NoBitmapSum == [seal |-> "stale", of |-> {}]
NoDesc == [freeI |-> 0, freeB |-> 0, dirs |-> 0, unused |-> 0,
           iUninit |-> FALSE, bUninit |-> FALSE,
           ibSum |-> NoBitmapSum, bbSum |-> NoBitmapSum, seal |-> "stale"]
NoCounters == [freeI |-> 0, freeB |-> 0, seal |-> "stale"]
NoOp  == [kind |-> "none", in |-> NoHandle, name |-> Dot, data |-> Zeros]
NoLoc == [g |-> 0, d |-> NoDesc, ino |-> 0, blk |-> 0]

OpKinds  == {"mkdir", "create", "overwrite"}
Statuses == {"none", "ok", "exists", "refused", "killed"}
PCs == {"closed", "idle", "lookup", "pick", "ialloc", "balloc", "desc", "body",
        "inode", "dirent", "parent", "odata", "oinode"}

\* The history: interruptions inside an operation, refusals after a write,
\* calls made, whether a session ended with counters it had not flushed, and
\* the image the operation in progress started from.
Histories == [kills: Nat, strands: Nat, calls: Nat, unsynced: BOOLEAN, before: Image]

Operations == [kind: OpKinds \cup {"none"}, in: Handle, name: Names, data: Data \cup {Zeros}]
Locals == [g: Group, d: GroupDesc, ino: InodeNums \cup {0}, blk: BlockNums \cup {0}]
Results == [status: Statuses, in: Handle]

\* Every variable has its type; the numbers the allocators return are numbers
\* of the filesystem (allocInode, allocBlock).
TypeOK ==
    /\ image \in Image
    /\ sb \in Counters
    /\ pc \in PCs
    /\ op \in Operations
    /\ loc \in Locals
    /\ ret \in Results
    /\ hist \in Histories

Init ==
    /\ image \in InitialImages
    /\ sb = NoCounters
    /\ pc = "closed"
    /\ op = NoOp
    /\ loc = NoLoc
    /\ ret = [status |-> "none", in |-> NoHandle]
    /\ hist = [kills |-> 0, strands |-> 0, calls |-> 0, unsynced |-> FALSE,
               before |-> image]

-----------------------------------------------------------------------------
(* Checksums as the code makes them: crc32c seeded from the UUID, always.  *)
(* Only the superblock's own checksum has no seed.                         *)

DescSeal(img, old)  == IF img.csum = "none" THEN old ELSE "uuid"
MetaSeal(img, old)  == IF MetadataCsum(img) THEN "uuid" ELSE old
SbSeal(img, old)    == IF MetadataCsum(img) THEN img.csum ELSE old
BitmapSeal(img, old, bits) ==
    IF MetadataCsum(img) THEN [seal |-> "uuid", of |-> bits] ELSE old
TailSealForgotten(img, old, num) == old
TailSeal(img, old, num) ==
    IF MetadataCsum(img) THEN [seal |-> "uuid", ino |-> num] ELSE old

Minus1(x) == (x - 1) % CounterMod

\* What allocInode and allocBlock do to the descriptor they were given and to
\* the superblock counters.
DescAfterInodeUnscanned(img, d, bits, isDir) ==
    [d EXCEPT !.ibSum = BitmapSeal(img, @, bits), !.freeI = Minus1(@),
              !.dirs = IF isDir THEN @ + 1 ELSE @, !.iUninit = FALSE]
DescAfterInode(img, d, bits, isDir) ==
    [d EXCEPT !.ibSum = BitmapSeal(img, @, bits),
              !.freeI = Minus1(@),
              !.dirs = IF isDir THEN @ + 1 ELSE @,
              !.unused = 0,
              !.iUninit = FALSE]

DescAfterBlockUncounted(img, d, bits) == [d EXCEPT !.bbSum = BitmapSeal(img, @, bits)]
DescAfterBlock(img, d, bits) ==
    [d EXCEPT !.bbSum = BitmapSeal(img, @, bits),
              !.freeB = Minus1(@),
              !.bUninit = FALSE]

SbAfterInode(s) == [s EXCEPT !.freeI = Minus1(@)]
SbAfterBlockUncounted(s) == s
SbAfterBlock(s) == [s EXCEPT !.freeB = Minus1(@)]

\* The numbers they return.
InoReturned(g, i) == InoNum(g, i)
BlkReturnedFromOne(g, i) == FirstDataBlock + (g + 1) * BlocksPerGroup + i
BlkReturned(g, i) == BlkNum(g, i)

\* writeInode: setInodeCsum changes the caller's raw copy, then it is written.
Sealed(img, in) == [in EXCEPT !.raw.seal = MetaSeal(img, @)]
WriteInodeTo(img, in) ==
    [img EXCEPT !.itab[InodeSlot(in.num)] = Sealed(img, in).raw]

\* initInode: the raw inode is cleared, then one extent of one block is set.
InitInode(kind, links, size, b) ==
    [kind |-> kind, htree |-> FALSE, single |-> TRUE, hole |-> FALSE, blk |-> b,
     owns |-> {b}, links |-> links, size |-> size, seal |-> "stale"]

NewDirBlock(img, self, parent) ==
    [ents |-> <<[ino |-> self, name |-> Dot, nlen |-> 1, rec |-> 12, ftype |-> "dir"],
                [ino |-> parent, name |-> DotDot, nlen |-> 2,
                 rec |-> Limit(img) - 12, ftype |-> "dir"]>>,
     data |-> Zeros,
     tail |-> TailSeal(img, NoTail, self)]

NewFileBlock(data) == [ents |-> <<>>, data |-> data, tail |-> NoTail]

-----------------------------------------------------------------------------
(* How an operation ends.  An error closes the session: no caller goes on  *)
(* after one, and none of them calls Sync.                                 *)

Unflushed(i, s) == [i.sb EXCEPT !.seal = "stale"] # [s EXCEPT !.seal = "stale"]

\* The session is over and whatever fs.sb held is lost.
CloseWith(status, kills, strands) ==
    /\ pc' = "closed"
    /\ op' = NoOp /\ loc' = NoLoc /\ sb' = NoCounters
    /\ ret' = [status |-> status, in |-> NoHandle]
    /\ hist' = [hist EXCEPT !.kills = @ + kills, !.strands = @ + strands,
                            !.unsynced = @ \/ Unflushed(image, sb),
                            !.before = image]

\* An error return.  Nothing is undone: what was written stays written.
Refuse(status) ==
    /\ CloseWith(status, 0, IF image = hist.before THEN 0 ELSE 1)
    /\ UNCHANGED image

Return(in) ==
    /\ pc' = "idle"
    /\ op' = NoOp /\ loc' = NoLoc
    /\ ret' = [status |-> "ok", in |-> in]
    /\ hist' = [hist EXCEPT !.before = image']

-----------------------------------------------------------------------------
(* Sessions.                                                               *)

\* OpenFS keeps the superblock it read.
OpenFS ==
    /\ pc = "closed"
    /\ pc' = "idle"
    /\ sb' = image.sb
    /\ ret' = [status |-> "none", in |-> NoHandle]
    /\ UNCHANGED <<image, op, loc, hist>>

\* flushSuperblock, then fsync.
Sync ==
    /\ pc = "idle"
    /\ LET s == [sb EXCEPT !.seal = SbSeal(image, @)] IN
       /\ image' = [image EXCEPT !.sb = s]
       /\ sb' = s
    /\ ret' = [status |-> "none", in |-> NoHandle]
    /\ hist' = [hist EXCEPT !.before = image']
    /\ UNCHANGED <<pc, op, loc>>

\* The caller is done with the file.
Close ==
    /\ pc = "idle"
    /\ CloseWith("none", 0, 0)
    /\ UNCHANGED image

\* The process is killed, or the next write fails: a failed write is returned up to
\* Inject, which writes nothing more and closes the file, so to the image it is a
\* kill.
Kill ==
    /\ pc \notin {"closed", "idle"} /\ hist.kills < MaxKills
    /\ CloseWith("killed", 1, 0)
    /\ UNCHANGED image

-----------------------------------------------------------------------------
(* Calls.                                                                  *)

Call(kind, in, name, data, first) ==
    /\ pc = "idle" /\ hist.calls < MaxCalls
    /\ pc' = first
    /\ op' = [kind |-> kind, in |-> in, name |-> name, data |-> data]
    /\ ret' = [status |-> "none", in |-> NoHandle]
    /\ hist' = [hist EXCEPT !.calls = @ + 1]
    /\ UNCHANGED <<image, sb, loc>>

CallMkdir(dir, name) == Call("mkdir", dir, name, Zeros, "lookup")

CallCreateFile(dir, name, data) == Call("create", dir, name, data, "lookup")

CallOverwrite(in, data) == Call("overwrite", in, Dot, data, "odata")

-----------------------------------------------------------------------------
(* Mkdir and CreateFile: the same steps in the same order.                 *)

TooBig(data) == DataLen[data] > BlockSize

\* CreateFile's check of the size, then lookup.
NotLookedUp == (op.kind = "create" /\ TooBig(op.data)) \/ LookupRefused(op.in)

LookupName ==
    /\ pc = "lookup"
    /\ \/ NotLookedUp /\ Refuse("refused")
       \/ /\ ~NotLookedUp
          /\ Lookup(image, op.in, op.name) # 0
          /\ Refuse("exists")
       \/ /\ ~NotLookedUp
          /\ Lookup(image, op.in, op.name) = 0
          /\ pc' = "pick"
          /\ UNCHANGED <<image, sb, op, loc, ret, hist>>

\* pickGroup(true, true): the first group mkfs initialised that has room.
HasRoom(d) == ~d.iUninit /\ ~d.bUninit /\ d.freeI # 0 /\ d.freeB # 0
Roomy == {g \in Group : HasRoom(image.gd[g])}

PickGroup ==
    /\ pc = "pick"
    /\ \/ Roomy = {} /\ Refuse("refused")
       \/ \E g \in Roomy :
            /\ \A h \in Roomy : g <= h
            /\ loc' = [loc EXCEPT !.g = g, !.d = image.gd[g]]
            /\ pc' = "ialloc"
            /\ UNCHANGED <<image, sb, op, ret, hist>>

\* allocInode: the first clear bit past the reserved inodes.
FreeInodeBitsShifted(g) ==
    {i \in InodeIdx : InoNum(g, i) >= FirstIno /\ i + 1 \notin image.ibm[g]}
FreeInodeBits(g) == {i \in InodeIdx : InoNum(g, i) >= FirstIno /\ i \notin image.ibm[g]}

AllocInode ==
    /\ pc = "ialloc"
    /\ \/ FreeInodeBits(loc.g) = {} /\ Refuse("refused")
       \/ \E i \in FreeInodeBits(loc.g) :
            LET bits == image.ibm[loc.g] \cup {i} IN
            /\ \A j \in FreeInodeBits(loc.g) : i <= j
            /\ image' = [image EXCEPT !.ibm[loc.g] = bits]
            /\ loc' = [loc EXCEPT
                    !.ino = InoReturned(loc.g, i),
                    !.d = DescAfterInode(image, @, bits, op.kind = "mkdir")]
            /\ sb' = SbAfterInode(sb)
            /\ pc' = "balloc"
            /\ UNCHANGED <<op, ret, hist>>

\* allocBlock: the first clear bit; when there is none the inode stays taken.
FreeBlockBitsShifted(g) == {i \in BlockIdx : i + 1 \notin image.bbm[g]}
FreeBlockBits(g) == BlockIdx \ image.bbm[g]

AllocBlock ==
    /\ pc = "balloc"
    /\ \/ FreeBlockBits(loc.g) = {} /\ Refuse("refused")
       \/ \E i \in FreeBlockBits(loc.g) :
            LET bits == image.bbm[loc.g] \cup {i} IN
            /\ \A j \in FreeBlockBits(loc.g) : i <= j
            /\ image' = [image EXCEPT !.bbm[loc.g] = bits]
            /\ loc' = [loc EXCEPT !.blk = BlkReturned(loc.g, i),
                                  !.d = DescAfterBlock(image, @, bits)]
            /\ sb' = SbAfterBlock(sb)
            /\ pc' = "desc"
            /\ UNCHANGED <<op, ret, hist>>

WriteDesc ==
    /\ pc = "desc"
    /\ image' = [image EXCEPT !.gd[loc.g] =
                    [loc.d EXCEPT !.seal = DescSeal(image, @)]]
    /\ pc' = "body"
    /\ UNCHANGED <<sb, op, loc, ret, hist>>

\* The directory block of Mkdir, the data block of CreateFile.
WriteBody ==
    /\ pc = "body"
    /\ image' = [image EXCEPT !.blk[loc.blk] =
                    IF op.kind = "mkdir" THEN NewDirBlock(image, loc.ino, op.in.num)
                    ELSE NewFileBlock(op.data)]
    /\ pc' = "inode"
    /\ UNCHANGED <<sb, op, loc, ret, hist>>

NewInodePadded ==
    [num |-> loc.ino,
     raw |-> InitInode(IF op.kind = "mkdir" THEN "dir" ELSE "file", 2, BlockSize, loc.blk)]
NewInode ==
    [num |-> loc.ino,
     raw |-> IF op.kind = "mkdir" THEN InitInode("dir", 2, BlockSize, loc.blk)
             ELSE InitInode("file", 1, DataLen[op.data], loc.blk)]

WriteInode ==
    /\ pc = "inode"
    /\ image' = WriteInodeTo(image, NewInode)
    /\ pc' = "dirent"
    /\ UNCHANGED <<sb, op, loc, ret, hist>>

\* addDirent: the slack of the last record becomes the new one; an unused
\* last record is taken over whole.
UsedLenZero(e) == 0
UsedLen(e) == IF e.ino = 0 THEN 0 ELSE DirentLen(e.nlen)

DirentRefused(dir, name) ==
    LET ents == image.blk[dir.raw.blk].ents
        last == Last(ents)
    IN  \/ dir.raw.htree
        \/ dir.raw.size > BlockSize
        \/ ~dir.raw.single
        \/ ~WellFormed(image, ents)
        \/ \E i \in DOMAIN ents : Named(ents[i], name)
        \/ last.rec - UsedLen(last) < DirentLen(NameLen[name])

\* byte(len(name)): the length is stored in eight bits.
NewDirent(ino, name, rec, ftype) ==
    [ino |-> ino, name |-> name, nlen |-> NameLen[name] % 256, rec |-> rec,
     ftype |-> ftype]

WithDirentLost(ents, ino, name, ftype) ==
    Front(ents) \o <<[Last(ents) EXCEPT !.rec = @]>>
WithDirent(ents, ino, name, ftype) ==
    LET last == Last(ents)
        used == UsedLen(last)
        new  == NewDirent(ino, name, last.rec - used, ftype)
    IN  IF used = 0 THEN Front(ents) \o <<new>>
        ELSE Front(ents) \o <<[last EXCEPT !.rec = used], new>>

AddDirent ==
    /\ pc = "dirent"
    /\ \/ DirentRefused(op.in, op.name) /\ Refuse("refused")
       \/ LET b   == op.in.raw.blk
              old == image.blk[b]
          IN
          /\ ~DirentRefused(op.in, op.name)
          /\ image' = [image EXCEPT !.blk[b] = [old EXCEPT
                !.ents = WithDirent(old.ents, loc.ino, op.name, NewInode.raw.kind),
                !.tail = TailSeal(image, @, op.in.num)]]
          /\ IF op.kind = "mkdir"
             THEN pc' = "parent" /\ UNCHANGED <<op, loc, ret, hist>>
             ELSE Return(Sealed(image, NewInode))
          /\ UNCHANGED sb

\* The new directory's ".." is a link to its parent.
WriteParent ==
    /\ pc = "parent"
    /\ image' = WriteInodeTo(image,
                    [op.in EXCEPT !.raw.links = (@ + 1) % 65536])
    /\ Return(Sealed(image, NewInode))
    /\ UNCHANGED sb

-----------------------------------------------------------------------------
(* Overwrite: the data block, then the size in the inode.                  *)

OverwriteRefused == op.in.raw.kind = "dir" \/ TooBig(op.data) \/ ~op.in.raw.single

OverwriteData ==
    /\ pc = "odata"
    /\ \/ OverwriteRefused /\ Refuse("refused")
       \/ /\ ~OverwriteRefused
          /\ image' = [image EXCEPT !.blk[op.in.raw.blk] = NewFileBlock(op.data)]
          /\ pc' = "oinode"
          /\ UNCHANGED <<sb, op, loc, ret, hist>>

OverwriteInode ==
    LET in == [op.in EXCEPT !.raw.size = DataLen[op.data]] IN
    /\ pc = "oinode"
    /\ image' = WriteInodeTo(image, in)
    /\ Return(Sealed(image, in))
    /\ UNCHANGED sb

-----------------------------------------------------------------------------
Step ==
    \/ LookupName \/ PickGroup \/ AllocInode \/ AllocBlock \/ WriteDesc
    \/ WriteBody \/ WriteInode \/ AddDirent \/ WriteParent
    \/ OverwriteData \/ OverwriteInode

\* Directories a path from the root leads to.
DirHandles == {ReadInode(image, n) : n \in Reachable(image) \cap DirsOf(image)}
Handles    == {ReadInode(image, n) : n \in Reachable(image) \cap InUse(image)}

\* Callers pass the parts of a cleaned path: never "." or "..".
PathNames == Names \ {Dot, DotDot}

Caller ==
    \/ OpenFS \/ Sync \/ Close
    \/ \E dir \in DirHandles, name \in PathNames :
          \/ CallMkdir(dir, name)
          \/ \E data \in Data : CallCreateFile(dir, name, data)
    \/ \E in \in Handles, data \in Data : CallOverwrite(in, data)

Next == Step \/ Caller \/ Kill

\* Once called an operation runs; nobody must call, and nothing must kill.
Spec == Init /\ [][Next]_vars /\ WF_vars(Step)

-----------------------------------------------------------------------------
(* Properties.                                                             *)

\* "Everything is validated with e2fsck -fn" (ext4.go:22): between
\* operations the filesystem is clean, unless an operation was interrupted or
\* was refused after it had begun to write.
Undisturbed == hist.kills = 0 /\ hist.strands = 0
CleanBetweenOperations ==
    pc \in {"closed", "idle"} /\ Undisturbed => FsckClean(image)

\* "will refuse anything it cannot do correctly rather than guess"
\* (ext4.go:7): a refusal leaves a clean filesystem too.
RefusalsKeepClean ==
    pc = "closed" /\ hist.kills = 0 => FsckClean(image)

\* The superblock totals: the live copy follows the groups through every
\* operation, and the disk has them once a session that wrote has synced.
TotalsFollowGroups ==
    Undisturbed /\ ~hist.unsynced =>
        /\ pc = "closed" => SuperblockAgrees(image)
        /\ pc = "idle" => /\ sb.freeI = GroupSum(image, "freeI")
                          /\ sb.freeB = GroupSum(image, "freeB")

\* Every inode in use is marked used in a bitmap that counts.
InodesMarked(img) ==
    \A g \in Group, i \in InodeIdx :
        img.itab[<<g, i>>].kind # "free" => ~img.gd[g].iUninit /\ i \in img.ibm[g]

\* So is every block an inode maps.
BlocksMarked(img) ==
    \A g \in Group, i \in BlockIdx :
        BlkNum(g, i) \in MetaBlocks \cup OwnedBy(img, InUse(img)) =>
            img.gd[g].bUninit \/ i \in img.bbm[g]

\* Every directory record leads to an inode in use of the kind it says.
RecordsLead(img) ==
    \A d \in DirsOf(img) : \A e \in Entries(img, d) :
        e.ino \in InUse(img) /\ NodeAt(img, e.ino).kind = e.ftype

\* In every state, after any kills and reruns, what the tree refers to is there
\* and every block in use has one owner: the order of the writes in Mkdir and
\* CreateFile (ext4.go) may leak what an interruption leaves, never dangle.
ReferencesResolve ==
    /\ InodesMarked(image)
    /\ BlocksMarked(image)
    /\ BlocksOwnedOnce(image)
    /\ RecordsLead(image)

\* No counter of a group wraps below zero, however many runs are interrupted
\* and rerun, and the totals on disk never fall below what the groups still
\* promise.
CountersBounded ==
    /\ \A g \in Group :
        LET d == image.gd[g] IN
        /\ d.freeI <= InodesPerGroup /\ d.freeB <= BlocksPerGroup
        /\ d.dirs <= InodesPerGroup
    /\ image.sb.freeI >= GroupSum(image, "freeI")
    /\ image.sb.freeB >= GroupSum(image, "freeB")
    /\ image.sb.freeI <= NumGroups * InodesPerGroup
    /\ image.sb.freeB <= NumGroups * BlocksPerGroup

\* What is lost is bounded: each interruption, and each refusal after the
\* first write, strands at most one inode and one block; an operation in
\* progress holds at most one more of each.  A bit in a bitmap that does not
\* count yet is not lost.
StrandedInodes(img) ==
    {s \in Slots : /\ ~img.gd[s[1]].iUninit /\ s[2] \in img.ibm[s[1]]
                   /\ InoNum(s[1], s[2]) >= FirstIno
                   /\ InoNum(s[1], s[2]) \notin Reachable(img)}
StrandedBlocks(img) ==
    {b \in BlockNums \ MetaBlocks :
        /\ \E g \in Group, i \in BlockIdx :
              b = BlkNum(g, i) /\ ~img.gd[g].bUninit /\ i \in img.bbm[g]
        /\ b \notin OwnedBy(img, InUse(img) \cap Reachable(img))}
InProgress == IF pc \in {"closed", "idle"} THEN 0 ELSE 1
LeaksBounded ==
    LET lost == hist.kills + hist.strands + InProgress IN
    /\ Cardinality(StrandedInodes(image)) <= lost
    /\ Cardinality(StrandedBlocks(image)) <= lost

\* A refusal costs nothing - a clash, a hashed directory, a full filesystem,
\* oversized data leave the image as the operation found it (ext4.go:758) -
\* but for two: addDirent finds no room in the directory's block, or an
\* earlier interruption left a group that promises a block it does not have.
\* In particular addDirent's own checks for a clash and a hashed directory
\* never fire: lookup settled them.
NoRoomIn(dir, name) ==
    LET last == Last(image.blk[dir.raw.blk].ents)
    IN  \/ dir.raw.size > BlockSize
        \/ last.rec < DirentLen(NameLen[name])
                        + (IF last.ino = 0 THEN 0 ELSE DirentLen(last.nlen))
RefusalsLeaveNothing ==
    [][ pc' = "closed" /\ ret'.status \in {"exists", "refused"} /\ op.kind # "none" =>
          \/ image' = hist.before
          \/ op.kind \in {"mkdir", "create"} /\ ~op.in.raw.htree /\ NoRoomIn(op.in, op.name)
          \/ hist.kills > 0 /\ BlockIdx \subseteq image.bbm[loc.g] ]_vars

\* Whatever happens, nothing but the inode the operation was called on, and
\* what that inode maps, is ever rewritten: other files keep their inode,
\* their blocks and their contents.
BystandersKept ==
    [][ \A n \in InUse(image) \ {op.in.num} :
            /\ NodeAt(image', n) = NodeAt(image, n)
            /\ \A b \in NodeAt(image, n).owns : image'.blk[b] = image.blk[b] ]_vars

\* A directory never loses a name it had, nor does a name change its inode.
NamesKept ==
    [][ \A d \in DirsOf(image) :
          /\ d \in DirsOf(image')
          /\ \A e \in Entries(image, d) :
                \E f \in Entries(image', d) :
                    f.name = e.name /\ f.ino = e.ino /\ f.nlen = e.nlen ]_vars

\* Every checksum the features ask for is right between operations.
ChecksumsBetweenOperations ==
    pc \in {"closed", "idle"} /\ Undisturbed => ChecksumsValid(image)

\* What an operation promises when it returns no error: the name it was given
\* now leads to the inode it returns.
Promise(o) ==
    /\ o.kind \in {"mkdir", "create"} =>
          Lookup(image', ReadInode(image', o.in.num), o.name) = ret'.in.num
    /\ o.kind = "mkdir" =>
          /\ ret'.in = ReadInode(image', ret'.in.num)
          /\ Children(image', ret'.in.num) = {}
    /\ o.kind \in {"create", "overwrite"} =>
          FileContent(image', ret'.in.num) = [data |-> o.data, size |-> DataLen[o.data]]
SuccessIsReal ==
    [][ pc \notin {"closed", "idle"} /\ ret'.status = "ok" => Promise(op) ]_vars

-----------------------------------------------------------------------------
(* Why ReferencesResolve holds: what an operation in progress may rely on. *)

Making      == {"lookup", "pick", "ialloc", "balloc", "desc", "body", "inode",
                "dirent", "parent"}
Overwriting == {"odata", "oinode"}

\* The handle is a fresh copy of an inode in use, a directory to make
\* something in, and later steps rely on what earlier ones checked.
ArgumentsHold ==
    /\ pc \in Making \cup Overwriting =>
          op.in = ReadInode(image, op.in.num) /\ op.in.raw.kind # "free"
    /\ pc \in Making =>
          /\ op.in.raw.kind = "dir"
          /\ op.kind = "mkdir" \/ (op.kind = "create" /\ op.data \in Data)
    /\ pc \in Making \ {"lookup"} => op.in.raw.single
    /\ pc \in Overwriting => op.data \in Data
    /\ pc = "oinode" => ~OverwriteRefused

\* The group chosen is one mkfs initialised, in memory and on disk.
GroupHolds ==
    pc \in {"ialloc", "balloc", "desc", "body", "inode"} =>
        /\ ~image.gd[loc.g].iUninit /\ ~image.gd[loc.g].bUninit
        /\ ~loc.d.iUninit /\ ~loc.d.bUninit

\* The inode taken is marked and nobody's until it is written, then it is
\* there for the directory record.
InodeHolds ==
    /\ pc \in {"balloc", "desc", "body", "inode"} =>
          /\ \E i \in image.ibm[loc.g] : loc.ino = InoNum(loc.g, i)
          /\ NodeAt(image, loc.ino).kind = "free"
    /\ pc \in {"dirent", "parent"} =>
          /\ loc.ino \in InUse(image)
          /\ NodeAt(image, loc.ino).kind = NewInode.raw.kind

\* The block taken is marked and nobody's until the inode is written, and
\* holds the directory by then.
BlockHolds ==
    /\ pc \in {"desc", "body", "inode"} =>
          /\ \E i \in image.bbm[loc.g] : loc.blk = BlkNum(loc.g, i)
          /\ loc.blk \notin MetaBlocks \cup OwnedBy(image, InUse(image))
    /\ pc = "inode" /\ op.kind = "mkdir" =>
          image.blk[loc.blk].ents = NewDirBlock(image, loc.ino, op.in.num).ents
    /\ pc \in {"dirent", "parent"} => loc.blk \in BlockNums

IInv ==
    /\ TypeOK
    /\ ReferencesResolve
    /\ ExtentsOwned(image)
    /\ ArgumentsHold
    /\ GroupHolds
    /\ InodeHolds
    /\ BlockHolds

-----------------------------------------------------------------------------
(* What some theorems suppose of names and initial images.                 *)

\* Checksums are valid, and made from the UUID or not at all.
StartsSealed ==
    \A img \in InitialImages : img.csum \in {"none", "uuid"} /\ ChecksumsValid(img)

\* A record keeps eight bits of a name's length.
NamesFit == \A name \in Names : NameLen[name] < 256

\* No file of one extent reads as zeros.
NoHoles(img) ==
    \A n \in InUse(img) :
        NodeAt(img, n).kind = "file" /\ NodeAt(img, n).single => ~NodeAt(img, n).hole
StartsWithoutHoles == \A img \in InitialImages : NoHoles(img)

\* The fields hold what they count.
GroupsFit == InodesPerGroup <= CounterMod /\ BlocksPerGroup <= CounterMod
CountersFit ==
    NumGroups * InodesPerGroup <= CounterMod /\ NumGroups * BlocksPerGroup <= CounterMod

\* The superblock's totals are right, which fsck does not insist on.
TotalsAgree == \A img \in InitialImages : SuperblockAgrees(img)

\* A file of one extent maps one block; a directory may map several.
NoLongFiles(img) ==
    \A n \in InUse(img) :
        LET i == NodeAt(img, n) IN i.kind = "file" /\ i.single => i.owns = {i.blk}
StartsWithoutLongFiles == \A img \in InitialImages : NoLongFiles(img)

\* A record in use holds the whole of its name.
WholeNames(img) ==
    \A d \in DirsOf(img) : \A e \in Children(img, d) : e.nlen = NameLen[e.name]
StartsWithWholeNames == \A img \in InitialImages : WholeNames(img)

\* No directory has so many subdirectories that its link count could wrap.
LinksFit ==
    /\ MaxCalls + 2 < 65536
    /\ \A img \in InitialImages : \A n \in InUse(img) :
            NodeAt(img, n).links + MaxCalls < 65536
=============================================================================
