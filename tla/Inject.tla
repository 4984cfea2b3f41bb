------------------------------ MODULE Inject ------------------------------
(***************************************************************************)
(* Inject of inject.go over the ext4 writer: look for the target, report   *)
(* on a dry run, replace in place with --force, or else walk down making   *)
(* the directories that are missing, create the file and Sync.             *)
(*                                                                         *)
(* Runs follow one another on the same image, as when an operator runs the *)
(* command again after an interruption.  Opening may fail; what ReadGPT    *)
(* and FindPartition do is in Gpt.  The target is a cleaned path.          *)
(***************************************************************************)
EXTENDS Ext4Writer

CONSTANTS
    Target,    \* o.Target: its directories and its base name
    MaxRuns    \* bound: runs of Inject

\* path.Clean leaves neither "." nor ".." in an absolute path; there is some
\* config to inject.
ASSUME TargetAssumption ==
    Target \in Seq(PathNames) /\ Len(Target) > 0 /\ Data # {} /\ MaxRuns \in Nat

VARIABLES
    at,        \* where Inject is
    opt,       \* o.Data, o.Force, o.DryRun
    depth,     \* i of the walk: directories passed
    cur,       \* the inode the walk is at
    outcome,   \* what Inject returned
    runs       \* history: runs started

injectVars == <<at, opt, depth, cur, outcome, runs>>
allVars == <<vars, injectVars>>

dirParts == Front(Target)
base     == Last(Target)

Options == [data: Data, force: BOOLEAN, dry: BOOLEAN]
Places  == {"out", "open", "resolve", "overwriting", "walk", "making", "creating",
            "sync", "return"}

\* Inject keeps its place in the path, its handle and its result in range: a
\* descent never goes deeper than the parts of the target (inject.go).
InjectTypeOK ==
    /\ at \in Places
    /\ opt \in Options
    /\ depth \in 0 .. Len(dirParts)
    /\ cur \in Handle
    /\ outcome \in {"none", "running", "ok", "error", "killed"}
    /\ runs \in 0 .. MaxRuns

InjectInit ==
    /\ Init
    /\ at = "out" /\ depth = 0 /\ cur = NoHandle /\ outcome = "none" /\ runs = 0
    /\ opt = CHOOSE o \in Options : ~o.force /\ ~o.dry

-----------------------------------------------------------------------------
(* Returning.                                                              *)

\* Inject returns: the file is closed, and nothing was synced on an error.
Finish(result) ==
    /\ at' = "out" /\ outcome' = result
    /\ depth' = 0 /\ cur' = NoHandle
    /\ UNCHANGED <<opt, runs>>

Fail == Close /\ Finish("error")

\* An operation of the writer was called and has not returned.
Calling == at \in {"overwriting", "making", "creating"}

\* It returned an error, which Inject returns.
CallFailed ==
    /\ Calling /\ pc = "closed"
    /\ Finish("error")
    /\ UNCHANGED vars

\* The process is killed: inside an operation, or between two.  MaxKills counts
\* the first kind only; the runs, and so their ends, are bounded by MaxRuns.
Killed ==
    \/ Kill /\ Finish("killed")
    \/ at # "out" /\ Close /\ Finish("killed")
    \/ at = "open" /\ Finish("killed") /\ UNCHANGED vars

-----------------------------------------------------------------------------
(* The run.                                                                *)

Start ==
    /\ at = "out" /\ runs < MaxRuns
    /\ at' = "open" /\ opt' \in Options /\ outcome' = "running"
    /\ runs' = runs + 1
    /\ UNCHANGED <<vars, depth, cur>>

\* The file is opened and the partition found; then OpenFS.
OpenImage ==
    /\ at = "open"
    /\ OpenFS
    /\ at' = "resolve"
    /\ UNCHANGED <<opt, depth, cur, outcome, runs>>

\* No such file, no partition table, no partition of the name, or no
\* filesystem that OpenFS takes.
OpenFails ==
    /\ at = "open"
    /\ Finish("error")
    /\ UNCHANGED vars

Existing == Resolve(image, Target)
TargetFails == ResolveFails(image, Target)

\* What the flags allow.
WritesAlways == TRUE
MayWrite == ~opt.dry
ForceIgnored == TRUE
ForceDenied == FALSE
MayReplace == opt.force

\* A dry run reports what it found and writes nothing.
DryRun ==
    /\ at = "resolve" /\ opt.dry /\ ~TargetFails
    /\ Close /\ Finish("ok")

RefuseExisting ==
    /\ at = "resolve" /\ MayWrite /\ ~TargetFails
    /\ Existing # {} /\ ~MayReplace
    /\ Fail

ReplaceExisting ==
    /\ at = "resolve" /\ MayWrite /\ ~TargetFails
    /\ MayReplace
    /\ \E n \in Existing : CallOverwrite(ReadInode(image, n), opt.data)
    /\ at' = "overwriting"
    /\ UNCHANGED <<opt, depth, cur, outcome, runs>>

StartWalk ==
    /\ at = "resolve" /\ MayWrite /\ ~TargetFails
    /\ Existing = {}
    /\ at' = "walk" /\ depth' = 0 /\ cur' = ReadInode(image, RootIno)
    /\ UNCHANGED <<vars, opt, outcome, runs>>

\* One turn of the loop over dirParts.
Passed == depth + 1
NextParts == SubSeq(dirParts, 1, depth + 1)

\* Resolve returned an error, for the target or for a part of it.
ResolveFailed ==
    /\ at \in {"resolve", "walk"}
    /\ at = "walk" => depth < Len(dirParts)
    /\ ResolveFails(image, IF at = "walk" THEN NextParts ELSE Target)
    /\ Fail

Descend ==
    /\ at = "walk" /\ depth < Len(dirParts)
    /\ ~ResolveFails(image, NextParts)
    /\ \E n \in Resolve(image, NextParts) : cur' = ReadInode(image, n)
    /\ depth' = Passed
    /\ UNCHANGED <<vars, at, opt, outcome, runs>>

MakeDir ==
    /\ at = "walk" /\ depth < Len(dirParts)
    /\ ~ResolveFails(image, NextParts)
    /\ Resolve(image, NextParts) = {}
    /\ CallMkdir(cur, dirParts[depth + 1])
    /\ at' = "making"
    /\ UNCHANGED <<opt, depth, cur, outcome, runs>>

Create ==
    /\ at = "walk" /\ depth = Len(dirParts)
    /\ CallCreateFile(cur, base, opt.data)
    /\ at' = "creating"
    /\ UNCHANGED <<opt, depth, cur, outcome, runs>>

\* The writer's own steps, and what Inject does with their result.
Write == Step /\ UNCHANGED injectVars

MadeHandleStale == cur
MadeHandleShadowed == [num |-> 0, raw |-> FreeInode]
MadeHandle == ret.in
Made ==
    /\ at = "making" /\ pc = "idle"
    /\ cur' = MadeHandle /\ depth' = Passed /\ at' = "walk"
    /\ UNCHANGED <<vars, opt, outcome, runs>>

AfterWriteReturn == "return"
AfterWrite == "sync"
Written ==
    /\ at \in {"overwriting", "creating"} /\ pc = "idle"
    /\ at' = AfterWrite
    /\ UNCHANGED <<vars, opt, depth, cur, outcome, runs>>

SyncImage ==
    /\ at = "sync"
    /\ Sync
    /\ at' = "return"
    /\ UNCHANGED <<opt, depth, cur, outcome, runs>>

ReturnOk == at = "return" /\ Close /\ Finish("ok")

Run ==
    \/ OpenImage \/ OpenFails
    \/ DryRun \/ ResolveFailed \/ RefuseExisting \/ ReplaceExisting \/ StartWalk
    \/ Descend \/ MakeDir \/ Create \/ Write \/ Made \/ Written
    \/ CallFailed \/ SyncImage \/ ReturnOk

InjectNext == Start \/ Run \/ Killed

InjectSpec == InjectInit /\ [][InjectNext]_allVars

-----------------------------------------------------------------------------
(* Properties.                                                             *)

\* Inject keeps to what the writer asks of its callers: handles are fresh,
\* directories are directories a path leads to, an error ends the session.
WriterSpec == Init /\ [][Next]_vars

\* The config a reader of the image finds at the target.
NoConfig == [data |-> Zeros, size |-> -1]
ConfigAt(img) ==
    LET found == Resolve(img, Target)
    IN  IF found = {} THEN NoConfig ELSE FileContent(img, CHOOSE n \in found : TRUE)

\* Inject implements the abstract store: the config appears whole or not at
\* all, is replaced only with --force, never on a dry run, and "ok" means it
\* is there.
Store == INSTANCE ConfigStore WITH
    config <- ConfigAt(image), request <- opt, outcome <- outcome,
    Contents <- Data, Length <- LAMBDA d : DataLen[d], Absent <- NoConfig
ImplementsStore == [][Store!StoreNext]_(Store!storeVars)

\* A dry run changes no byte, whatever it finds.
DryRunsReadOnly == [][ outcome = "running" /\ opt.dry => UNCHANGED image ]_allVars

\* A run that succeeds leaves a clean filesystem, and totals that agree with
\* the groups unless they were wrong before it.
SuccessIsClean ==
    [][ outcome = "running" /\ outcome' = "ok" /\ Undisturbed =>
          /\ FsckClean(image') /\ ChecksumsValid(image')
          /\ ~hist.unsynced => SuperblockAgrees(image') ]_allVars

\* A run fails only for a reason the image or the request gives: an image that
\* does not open, a path it cannot read, a config it may not or cannot replace,
\* data over one block, no group with room, no room in the directory the next
\* name goes into, or a group an interruption left promising what its bitmaps do
\* not have.
PartFound(k) == Resolve(image, SubSeq(Target, 1, k)) # {}
Depth == Max({0} \cup {k \in 1 .. Len(Target) : PartFound(k)})

EmptyPromise(g) ==
    HasRoom(image.gd[g]) /\ (FreeInodeBits(g) = {} \/ FreeBlockBits(g) = {})

CannotReplace(raw) ==
    ~opt.force \/ raw.kind = "dir" \/ ~raw.single \/ TooBig(opt.data)
CannotAdd ==
    \/ TooBig(opt.data)
    \/ Roomy = {}
    \/ \E n \in Resolve(image, SubSeq(Target, 1, Depth)) :
            NoRoomIn(ReadInode(image, n), Target[Depth + 1])
    \/ \E g \in Group : EmptyPromise(g)

\* Inject returns an error only when one of these holds (inject.go, ext4.go).
FailsForAReason ==
    [][ outcome = "running" /\ outcome' = "error" =>
          \/ at = "open"
          \/ TargetFails
          \/ \E n \in Existing : CannotReplace(NodeAt(image, n))
          \/ Existing = {} /\ CannotAdd ]_allVars
=============================================================================
