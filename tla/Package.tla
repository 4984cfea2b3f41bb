------------------------------ MODULE Package ------------------------------
(***************************************************************************)
(* The second half of cmdInject (main.go) and cmdPackageFlexImage          *)
(* (google.go): copy the image to the output, if one is asked for, and     *)
(* inject into the copy or into the image itself.                          *)
(*                                                                         *)
(* Runs follow one another, with calls that fail and kills anywhere, and   *)
(* a download may put a new base image under the input's name meanwhile:   *)
(* to this module Fetch is what Shelf says it is, and Inject what          *)
(* ConfigStore says it is.  The filesystem is POSIX; names may lead to one *)
(* file.  An image is a sequence of chunks, the last with the config.      *)
(***************************************************************************)
EXTENDS Integers, Sequences, FiniteSets

CONSTANTS
    Bases,        \* what images hold besides the config
    Data,         \* contents of a config
    Size,         \* length of each
    Chunks,       \* chunks of an image
    Inodes,       \* inode numbers
    Starts,       \* what the names lead to at first, and what is there
    MaxRuns,      \* bound: runs
    MaxFaults,    \* bound: failing calls
    MaxKills,     \* bound: kills
    MaxFetches    \* bound: new base images

NoInode  == 0
NoConfig == [data |-> "none", size |-> -1]
Whole(d) == [data |-> d, size |-> Size[d]]
Configs  == [data: Data, size: {Size[d] : d \in Data}]

Chunk == [base: Bases, part: 1 .. Chunks, config: Configs \cup {NoConfig}]
NewImage(b, c) ==
    [k \in 1 .. Chunks |-> [base |-> b, part |-> k, config |-> IF k = Chunks THEN c ELSE NoConfig]]

Name == [{"in", "out"} -> Inodes \cup {NoInode}]

ASSUME PackageAssumption ==
    /\ Chunks \in Nat \ {0}
    /\ Size \in [Data -> Nat] /\ "none" \notin Data /\ Data # {}
    /\ IsFiniteSet(Inodes) /\ Inodes \subseteq Nat \ {NoInode}
    /\ \A s \in Starts : s.name \in Name /\ s.content \in [Inodes -> Seq(Chunk)]
    /\ {MaxRuns, MaxFaults, MaxKills, MaxFetches} \subseteq Nat

VARIABLES
    pc,        \* where the command is
    req,       \* its flags
    name,      \* the directory
    content,   \* what each inode holds
    fd,        \* the files open: copyFile's two, and Inject's
    pos,       \* chunks copied
    outcome,   \* how the run in progress is doing, or the last one ended
    hist       \* history: runs, faults, kills, fetches; a fault or a fetch in this run

vars == <<pc, req, name, content, fd, pos, outcome, hist>>

Requests == [out: BOOLEAN, data: Data, force: BOOLEAN, dry: BOOLEAN]
Places   == {"idle", "open", "create", "copy", "sync", "inject", "resolve", "write"}
Closed   == [src |-> NoInode, dst |-> NoInode, img |-> NoInode]

\* Every variable has its type, and a copy in progress has both its files open
\* and has written as much as it has read (main.go).
TypeOK ==
    /\ pc \in Places
    /\ req \in Requests
    /\ name \in Name
    /\ content \in [Inodes -> Seq(Chunk)]
    /\ fd \in [src: Inodes \cup {NoInode}, dst: Inodes \cup {NoInode}, img: Inodes \cup {NoInode}]
    /\ pos \in 0 .. Chunks
    /\ outcome \in {"none", "running", "ok", "error", "killed"}
    /\ pc \in {"copy", "sync"} => NoInode \notin {fd.src, fd.dst}
    /\ pc \in {"copy", "sync"} => pos = Len(content[fd.dst])

Init ==
    /\ pc = "idle" /\ outcome = "none"
    /\ req = CHOOSE r \in Requests : TRUE
    /\ \E s \in Starts : name = s.name /\ content = s.content
    /\ fd = Closed /\ pos = 0
    /\ hist = [runs |-> 0, faults |-> 0, kills |-> 0, fetches |-> 0,
               struck |-> FALSE, fetched |-> FALSE]

-----------------------------------------------------------------------------
(* Starting and ending.                                                    *)

Finish(result) == pc' = "idle" /\ outcome' = result /\ fd' = Closed /\ pos' = 0

Fail == Finish("error") /\ UNCHANGED <<req, name, content, hist>>

CopiesOnce  == req'.out /\ ~req'.dry /\ name["out"] = NoInode
CopiesOnDry == req'.out
Copies      == req'.out /\ ~req'.dry

Start ==
    /\ pc = "idle" /\ hist.runs < MaxRuns
    /\ req' \in Requests
    /\ outcome' = "running"
    /\ pc' = IF Copies THEN "open" ELSE "inject"
    /\ hist' = [hist EXCEPT !.runs = @ + 1, !.struck = FALSE, !.fetched = FALSE]
    /\ UNCHANGED <<name, content, fd, pos>>

\* Any call may fail: the error is returned, what was written stays.
Fault ==
    /\ pc # "idle" /\ hist.faults < MaxFaults
    /\ hist' = [hist EXCEPT !.faults = @ + 1, !.struck = TRUE]
    /\ Finish("error")
    /\ UNCHANGED <<req, name, content>>

Kill ==
    /\ pc # "idle" /\ hist.kills < MaxKills
    /\ hist' = [hist EXCEPT !.kills = @ + 1]
    /\ Finish("killed")
    /\ UNCHANGED <<req, name, content>>

Free == Inodes \ ({name["in"], name["out"]} \cup {fd.src, fd.dst, fd.img})

-----------------------------------------------------------------------------
(* copyFile.                                                               *)

Open ==
    /\ pc = "open" /\ name["in"] # NoInode
    /\ fd' = [fd EXCEPT !.src = name["in"]]
    /\ pc' = "create"
    /\ UNCHANGED <<req, name, content, pos, outcome, hist>>

OpenFails == pc = "open" /\ name["in"] = NoInode /\ Fail

Opened(i) == content
Created(i) == [content EXCEPT ![i] = <<>>]

\* os.Create truncates the file of that name, or makes one.
Create ==
    /\ pc = "create"
    /\ \E i \in IF name["out"] # NoInode THEN {name["out"]} ELSE Free :
          /\ name' = [name EXCEPT !["out"] = i]
          /\ fd' = [fd EXCEPT !.dst = i]
          /\ content' = Created(i)
    /\ pc' = "copy"
    /\ UNCHANGED <<req, pos, outcome, hist>>

SourceByName == name["in"]
Source == fd.src

AtInputEnd == pos >= Len(content[Source])

\* io.Copy reads what the input has by now.
CopyChunk ==
    /\ pc = "copy" /\ ~AtInputEnd
    /\ content' = [content EXCEPT ![fd.dst] =
                      SubSeq(@, 1, pos) \o <<content[Source][pos + 1]>> \o SubSeq(@, pos + 2, Len(@))]
    /\ pos' = pos + 1
    /\ UNCHANGED <<pc, req, name, fd, outcome, hist>>

CopyEnd ==
    /\ pc = "copy" /\ AtInputEnd
    /\ pc' = "sync"
    /\ UNCHANGED <<req, name, content, fd, pos, outcome, hist>>

SyncCopy ==
    /\ pc = "sync"
    /\ fd' = Closed /\ pos' = 0
    /\ pc' = "inject"
    /\ UNCHANGED <<req, name, content, outcome, hist>>

-----------------------------------------------------------------------------
(* Inject, as ConfigStore has it.                                          *)

WorkInPlace == "in"
Work == IF req.out /\ ~req.dry THEN "out" ELSE "in"

OpenImage ==
    /\ pc = "inject" /\ name[Work] # NoInode
    /\ fd' = [fd EXCEPT !.img = name[Work]]
    /\ pc' = "resolve"
    /\ UNCHANGED <<req, name, content, pos, outcome, hist>>

OpenImageFails == pc = "inject" /\ name[Work] = NoInode /\ Fail

\* Inject reads the partition table and the STATE partition only: a file cut
\* short lacks them, one with chunks of two images does not.
Readable(c) == Len(c) = Chunks
ConfigOf(c) == IF Readable(c) THEN c[Chunks].config ELSE NoConfig

Store == INSTANCE ConfigStore WITH
    config <- IF fd.img = NoInode THEN NoConfig ELSE ConfigOf(content[fd.img]),
    request <- req, outcome <- outcome,
    Contents <- Data, Length <- LAMBDA d : Size[d], Absent <- NoConfig

Existing == ConfigOf(content[fd.img]) # NoConfig

Unreadable == pc = "resolve" /\ ~Readable(content[fd.img]) /\ Fail

DryRun ==
    /\ pc = "resolve" /\ Readable(content[fd.img]) /\ req.dry
    /\ Finish("ok")
    /\ UNCHANGED <<req, name, content, hist>>

RefuseExisting ==
    /\ pc = "resolve" /\ Readable(content[fd.img])
    /\ ~req.dry /\ Existing /\ ~req.force
    /\ Fail

GoAhead ==
    /\ pc = "resolve" /\ Readable(content[fd.img])
    /\ ~req.dry /\ (Existing => req.force)
    /\ pc' = "write"
    /\ UNCHANGED <<req, name, content, fd, pos, outcome, hist>>

Write ==
    /\ pc = "write"
    /\ ConfigOf(content[fd.img]) # Whole(req.data)
    /\ \E c \in Configs :
          /\ c # ConfigOf(content[fd.img])
          /\ content' = [content EXCEPT ![fd.img][Chunks].config = c]
    /\ UNCHANGED <<pc, name, fd, pos, hist>>
    /\ Store!Put \/ Store!Replace

Written ==
    /\ pc = "write"
    /\ ConfigOf(content[fd.img]) = Whole(req.data)
    /\ Finish("ok")
    /\ UNCHANGED <<req, name, content, hist>>

-----------------------------------------------------------------------------
(* Fetch, as Shelf has it: the input's name leads at once to a new file    *)
(* that holds a base image.                                                *)

Download == INSTANCE Shelf WITH
    shelf <- IF name["in"] = NoInode THEN <<>> ELSE content[name["in"]],
    request <- "base", published <- hist.fetched, outcome <- "running",
    Requests <- {"base"},
    Accepts <- LAMBDA r, file : \E b \in Bases : file = NewImage(b, NoConfig)

Fetched ==
    /\ hist.fetches < MaxFetches
    /\ \E i \in Free, b \in Bases :
          /\ name' = [name EXCEPT !["in"] = i]
          /\ content' = [content EXCEPT ![i] = NewImage(b, NoConfig)]
    /\ hist' = [hist EXCEPT !.fetches = @ + 1, !.fetched = TRUE]
    /\ UNCHANGED <<pc, req, fd, pos, outcome>>
    /\ Download!Publish

Run ==
    \/ Open \/ OpenFails \/ Create \/ CopyChunk \/ CopyEnd \/ SyncCopy
    \/ OpenImage \/ OpenImageFails \/ Unreadable \/ DryRun \/ RefuseExisting
    \/ GoAhead \/ Write \/ Written

Next == Start \/ Run \/ Fault \/ Kill \/ Fetched

Spec == Init /\ [][Next]_vars

-----------------------------------------------------------------------------
(* Properties.                                                             *)

Running == outcome = "running"

\* "write to a copy at this path instead of modifying in place" (main.go:190):
\* with -o the image that was given keeps every chunk, whatever fails and
\* whenever the command is killed.
InputKept ==
    [][ Running /\ req.out /\ name["in"] # NoInode =>
          content'[name["in"]] = content[name["in"]] ]_vars

\* "change nothing" (main.go:200): a dry run makes no output either.
DryRunTouchesNothing ==
    [][ Running /\ req.dry /\ hist'.fetches = hist.fetches => UNCHANGED <<name, content>> ]_vars

\* A command that succeeds leaves a whole image, of one base, with the config
\* that was asked for, under the name it was told: a copy also when the base
\* was replaced while it was read, the image itself unless it was replaced.
OkMeansTagged ==
    [][ Running /\ outcome' = "ok" /\ ~req.dry /\ (req.out \/ ~hist.fetched) =>
          \E b \in Bases :
              content'[name'[Work]] = NewImage(b, Whole(req.data)) ]_vars

\* What earlier runs left under the output's name does not matter to the next:
\* with -o only the input can be a reason to refuse, and --force is needed only
\* if the input has a config of its own.
RefusedForTheInput ==
    [][ Running /\ outcome' = "error" /\ ~hist'.struck /\ req.out /\ ~hist.fetched =>
          \/ name["in"] = NoInode
          \/ ~Readable(content[name["in"]])
          \/ ConfigOf(content[name["in"]]) # NoConfig /\ ~req.force ]_vars

-----------------------------------------------------------------------------
(* What the theorems suppose of the start.                                 *)

\* -o does not name the input, nor a link to it.
StartsApart ==
    \A s \in Starts : s.name["in"] # NoInode => s.name["in"] # s.name["out"]

\* A file is an image of one base, or the beginning of one.
Part(f, b, c) ==
    /\ f \in Seq(Chunk) /\ Len(f) <= Chunks
    /\ \A k \in 1 .. Len(f) : f[k] = NewImage(b, c)[k]
ImageOrPart(f) == \E b \in Bases, c \in Configs \cup {NoConfig} : Part(f, b, c)

StartsImages == \A s \in Starts : \A i \in Inodes : ImageOrPart(s.content[i])
=============================================================================
