------------------------------- MODULE Fetch -------------------------------
(***************************************************************************)
(* Fetch of fetch.go: stream an archive off the wire, through the hashers  *)
(* and the inflater, into outPath.partial, check it against the manifest   *)
(* and rename it into place.                                               *)
(*                                                                         *)
(* Each process of Procs runs the command, again and again, with the same  *)
(* output path.  The network may cut or spoil what it serves, any call may *)
(* fail and the process may be killed anywhere.  The filesystem is POSIX:  *)
(* a name leads to an inode, which lives on while a process has it open.   *)
(* A hash is taken to be what it hashes.                                   *)
(***************************************************************************)
EXTENDS ZipStream, FiniteSets

CONSTANTS
    Procs,        \* the processes
    Offers,       \* a manifest entry and what the server has at its URL
    Verify,       \* the choices of verify: FALSE is --no-verify
    Units,        \* what images and archives are made of
    Inodes,       \* inode numbers
    OldFile,      \* what may be under the final name before
    MaxRuns,      \* bound: runs of each process
    MaxFaults,    \* bound: failing calls, spoiled or cut streams
    MaxKills      \* bound: kills

NoInode == 0

\* Units that are not file data, as the wire and the disk have them.
Marks == {"hdr", "end", "tail", "bad", "hole"}

\* Image: what the manifest gives; <<>> and 0 where it gives nothing.
Image   == [sha1: Seq(Units), md5: Seq(Units), ZipFileSize: Nat, FileSize: Nat]
Archive == [header: Header, body: Seq(Units), tail: Seq(Units)]
Offer   == [image: Image, archive: Archive, payload: Seq(Units)]

ASSUME FetchAssumption ==
    /\ Offers \subseteq Offer /\ Offers # {}
    /\ Marks \subseteq Units
    /\ IsFiniteSet(Procs) /\ IsFiniteSet(Inodes)
    /\ Inodes \subseteq Nat \ {NoInode}
    /\ Cardinality(Inodes) > Cardinality(Procs) + 2
    /\ OldFile \in Seq(Units)
    /\ Verify \subseteq BOOLEAN
    /\ MaxRuns \in Nat /\ MaxFaults \in Nat /\ MaxKills \in Nat

VARIABLES
    pc,        \* pc[p]: where Fetch is
    job,       \* job[p]: the arguments image and verify
    net,       \* net[p]: the response body, and what TeeReader saw of it
    sink,      \* sink[p]: out, written, and what LimitReader has left
    outcome,   \* outcome[p]: what Fetch returned
    name,      \* the directory: the inodes of outPath and outPath.partial
    content,   \* what each inode holds
    hist       \* history: runs of each process, faults, kills; runs without either

vars == <<pc, job, net, sink, outcome, name, content, hist>>

Places   == {"idle", "create", "get", "header", "copy", "drain", "flush",
             "check", "rename", "unwind", "retreat"}
Outcomes == {"none", "running", "ok", "error", "killed"}

NoNet  == [wire |-> <<>>, broken |-> FALSE, pulled |-> <<>>]
NoSink == [fd |-> NoInode, written |-> 0, left |-> 0]

\* Every variable has its type: a name leads to an inode or to none, a stream
\* is made of units, and a process past os.Create has a file open (fetch.go).
TypeOK ==
    /\ pc \in [Procs -> Places]
    /\ job \in [Procs -> [offer: Offers, verify: BOOLEAN]]
    /\ net \in [Procs -> [wire: Seq(Units), broken: BOOLEAN, pulled: Seq(Units)]]
    /\ sink \in [Procs -> [fd: Inodes \cup {NoInode}, written: Nat, left: Int]]
    /\ outcome \in [Procs -> Outcomes]
    /\ name \in [{"out", "partial"} -> Inodes \cup {NoInode}]
    /\ content \in [Inodes -> Seq(Units)]
    /\ \A p \in Procs : pc[p] \notin {"idle", "create"} => sink[p].fd # NoInode
    /\ hist \in [runs: [Procs -> Nat], clean: [Procs -> BOOLEAN], faults: Nat, kills: Nat]

Init ==
    /\ pc = [p \in Procs |-> "idle"]
    /\ job = [p \in Procs |-> [offer |-> CHOOSE o \in Offers : TRUE, verify |-> TRUE]]
    /\ net = [p \in Procs |-> NoNet]
    /\ sink = [p \in Procs |-> NoSink]
    /\ outcome = [p \in Procs |-> "none"]
    /\ LET old == CHOOSE i \in Inodes : TRUE
       IN  /\ \/ name = [out |-> NoInode, partial |-> NoInode]
              \/ name = [out |-> old, partial |-> NoInode]
           /\ content = [i \in Inodes |-> IF i = old THEN OldFile ELSE <<>>]
    /\ hist = [runs |-> [p \in Procs |-> 0], clean |-> [p \in Procs |-> TRUE],
               faults |-> 0, kills |-> 0]

-----------------------------------------------------------------------------
(* Going on, and returning.                                                *)

Goto(p, place) == pc' = [pc EXCEPT ![p] = place]

image(p)  == job[p].offer.image
header(p) == job[p].offer.archive.header

\* An error is returned: the deferred calls run.
Retreat(p) ==
    /\ Goto(p, "retreat")
    /\ UNCHANGED <<job, net, sink, outcome, name, content>>

RemoveNothing == name
RemovePartial == [name EXCEPT !["partial"] = NoInode]

\* out is closed and tmpPath removed, whatever it leads to by now.
Cleanup(p) ==
    /\ pc[p] \in {"unwind", "retreat"}
    /\ name' = RemovePartial
    /\ outcome' = [outcome EXCEPT ![p] = IF pc[p] = "unwind" THEN "ok" ELSE "error"]
    /\ Goto(p, "idle")
    /\ net' = [net EXCEPT ![p] = NoNet] /\ sink' = [sink EXCEPT ![p] = NoSink]
    /\ UNCHANGED <<job, content, hist>>

\* Something goes wrong in this run.
Strike(p) ==
    /\ hist.faults < MaxFaults
    /\ hist' = [hist EXCEPT !.faults = @ + 1, !.clean[p] = FALSE]

\* A call fails: the request, a read, a write, Sync, Close or Rename.
Fault(p) ==
    /\ pc[p] \in {"get", "header", "copy", "drain", "flush", "rename"}
    /\ Strike(p)
    /\ Retreat(p)

\* The process is killed: its files are closed, nothing is removed.
Kill(p) ==
    /\ pc[p] # "idle" /\ hist.kills < MaxKills
    /\ hist' = [hist EXCEPT !.kills = @ + 1, !.clean[p] = FALSE]
    /\ outcome' = [outcome EXCEPT ![p] = "killed"]
    /\ Goto(p, "idle")
    /\ net' = [net EXCEPT ![p] = NoNet] /\ sink' = [sink EXCEPT ![p] = NoSink]
    /\ UNCHANGED <<job, name, content>>

-----------------------------------------------------------------------------
(* The temporary file and the request.                                     *)

Start(p) ==
    /\ pc[p] = "idle" /\ hist.runs[p] < MaxRuns
    /\ \E o \in Offers, v \in Verify : job' = [job EXCEPT ![p] = [offer |-> o, verify |-> v]]
    /\ outcome' = [outcome EXCEPT ![p] = "running"]
    /\ hist' = [hist EXCEPT !.runs[p] = @ + 1, !.clean[p] = TRUE]
    /\ Goto(p, "create")
    /\ UNCHANGED <<net, sink, name, content>>

InUse == {name["out"], name["partial"]} \cup {sink[p].fd : p \in Procs}

\* os.Create truncates the file that has the name, or makes one.
CreatedNever == name["partial"]
Created ==
    IF name["partial"] # NoInode THEN name["partial"] ELSE CHOOSE i \in Inodes : i \notin InUse

Create(p) ==
    /\ pc[p] = "create"
    /\ name' = [name EXCEPT !["partial"] = Created]
    /\ content' = [content EXCEPT ![Created] = <<>>]
    /\ sink' = [sink EXCEPT ![p] = [fd |-> Created, written |-> 0, left |-> 0]]
    /\ Goto(p, "get")
    /\ UNCHANGED <<job, net, outcome, hist>>

\* MkdirAll or Create fails: there is nothing to remove yet.
CreateFails(p) ==
    /\ pc[p] = "create"
    /\ Strike(p)
    /\ outcome' = [outcome EXCEPT ![p] = "error"]
    /\ Goto(p, "idle")
    /\ UNCHANGED <<job, net, sink, name, content>>

WireOf(a) == <<"hdr">> \o a.body \o a.tail

\* A response with status 200, and the body as it will come.
Get(p) ==
    LET w == WireOf(job[p].offer.archive)
        Served(wire, broken) ==
            net' = [net EXCEPT ![p] = [wire |-> wire, broken |-> broken, pulled |-> <<>>]]
    IN  /\ pc[p] = "get"
        /\ \/ Served(w, FALSE) /\ UNCHANGED hist
           \/ /\ Strike(p)
              /\ \/ \E k \in 0 .. Len(w) : Served(SubSeq(w, 1, k), TRUE)
                 \/ \E k \in 0 .. Len(w) - 1 : Served(SubSeq(w, 1, k), FALSE)
                 \/ \E k \in 1 .. Len(w) : Served([w EXCEPT ![k] = "bad"], FALSE)
        /\ Goto(p, "header")
        /\ UNCHANGED <<job, sink, outcome, name, content>>

-----------------------------------------------------------------------------
(* The pass over the wire.                                                 *)

\* TeeReader: what is read is hashed and counted.
Pull(p) ==
    net' = [net EXCEPT ![p].wire = Tail(@), ![p].pulled = Append(@, Head(net[p].wire))]

HeaderGood(p) ==
    /\ net[p].wire # <<>> /\ Head(net[p].wire) = "hdr"
    /\ ~HeaderRefused(header(p))
    /\ header(p).method # "other"

ReadHeader(p) ==
    /\ pc[p] = "header" /\ HeaderGood(p)
    /\ Pull(p)
    /\ sink' = [sink EXCEPT ![p].left = HeaderSizes(header(p)).comp]
    /\ Goto(p, "copy")
    /\ UNCHANGED <<job, outcome, name, content, hist>>

RefuseHeader(p) ==
    /\ pc[p] = "header" /\ ~HeaderGood(p)
    /\ Retreat(p) /\ UNCHANGED hist

\* LimitReader stops the body where the header says, if it says.
MayRead(p) == sink[p].left = sizeUnknown \/ sink[p].left > 0
LeftAfter(p) == IF sink[p].left = sizeUnknown THEN sizeUnknown ELSE sink[p].left - 1

Reading(p) == pc[p] = "copy" /\ MayRead(p) /\ net[p].wire # <<>>
BodyEndsAtLimit(p) == pc[p] = "copy" /\ ~MayRead(p)
BodyEnds(p) == pc[p] = "copy" /\ (~MayRead(p) \/ net[p].wire = <<>>)

\* A write lands at the process's own offset, in the inode it has open.
WriteAt(s, off, u) ==
    [i \in 1 .. IF off < Len(s) THEN Len(s) ELSE off + 1 |->
        IF i = off + 1 THEN u ELSE IF i <= Len(s) THEN s[i] ELSE "hole"]

\* A stored unit is written as it is; so is what a deflated one expands to.  A
\* spoiled deflated unit may expand to anything.
Expands(p, u) == header(p).method = "store" \/ u \notin Marks \/ u = "bad"

CopyUnit(p) ==
    /\ Reading(p) /\ Expands(p, Head(net[p].wire))
    /\ content' = [content EXCEPT ![sink[p].fd] = WriteAt(@, sink[p].written, Head(net[p].wire))]
    /\ sink' = [sink EXCEPT ![p].written = @ + 1, ![p].left = LeftAfter(p)]
    /\ Pull(p)
    /\ UNCHANGED <<pc, job, outcome, name, hist>>

\* The last deflate block: the inflater looks no further.
InflateEnd(p) ==
    /\ Reading(p) /\ header(p).method = "deflate"
    /\ Head(net[p].wire) \in {"end", "bad"}
    /\ Pull(p)
    /\ Goto(p, "drain")
    /\ UNCHANGED <<job, sink, outcome, name, content, hist>>

InflateFails(p) ==
    /\ Reading(p) /\ header(p).method = "deflate"
    /\ Head(net[p].wire) \in Marks \ {"end"}
    /\ Retreat(p) /\ UNCHANGED hist

\* The body ends: well for a stored entry, too early for the inflater.
StoredEnd(p) ==
    /\ BodyEnds(p) /\ header(p).method = "store"
    /\ MayRead(p) => ~net[p].broken
    /\ Goto(p, "drain")
    /\ UNCHANGED <<job, net, sink, outcome, name, content, hist>>

BodyFails(p) ==
    /\ BodyEnds(p)
    /\ \/ header(p).method = "deflate"
       \/ MayRead(p) /\ net[p].broken
    /\ Retreat(p) /\ UNCHANGED hist

\* The tail of the archive is read for the hashes only.
Drain(p) ==
    /\ pc[p] = "drain" /\ ~net[p].broken
    /\ net' = [net EXCEPT ![p].wire = <<>>, ![p].pulled = @ \o net[p].wire]
    /\ Goto(p, "flush")
    /\ UNCHANGED <<job, sink, outcome, name, content, hist>>

DrainFails(p) ==
    /\ pc[p] = "drain" /\ net[p].broken
    /\ Retreat(p) /\ UNCHANGED hist

-----------------------------------------------------------------------------
(* The check and the final name.                                           *)

\* out.Sync and out.Close.
Flush(p) ==
    /\ pc[p] = "flush"
    /\ Goto(p, "check")
    /\ UNCHANGED <<job, net, sink, outcome, name, content, hist>>

\* checkIntegrity: what the manifest does not give is not compared.
HashMatches(given, pulled) == given # <<>> => pulled = given
SizeMatches(given, n) == given > 0 => n = given
checkIntegrity(p) ==
    /\ SizeMatches(image(p).FileSize, sink[p].written)
    /\ SizeMatches(image(p).ZipFileSize, Len(net[p].pulled))
    /\ HashMatches(image(p).sha1, net[p].pulled)
    /\ HashMatches(image(p).md5, net[p].pulled)

PassesBySize(p) ==
    job[p].verify => /\ SizeMatches(image(p).FileSize, sink[p].written)
                     /\ SizeMatches(image(p).ZipFileSize, Len(net[p].pulled))
Passes(p) == job[p].verify => checkIntegrity(p)

Check(p) ==
    /\ pc[p] = "check" /\ Passes(p)
    /\ Goto(p, "rename")
    /\ UNCHANGED <<job, net, sink, outcome, name, content, hist>>

CheckFails(p) ==
    /\ pc[p] = "check" /\ ~Passes(p)
    /\ Retreat(p) /\ UNCHANGED hist

\* The temporary file may be gone: another process has renamed or removed it.
Rename(p) ==
    /\ pc[p] = "rename"
    /\ IF name["partial"] = NoInode
       THEN Retreat(p)
       ELSE /\ name' = [out |-> name["partial"], partial |-> NoInode]
            /\ Goto(p, "unwind")
            /\ UNCHANGED <<job, net, sink, outcome, content>>
    /\ UNCHANGED hist

Run(p) ==
    \/ Create(p) \/ Get(p) \/ ReadHeader(p) \/ RefuseHeader(p)
    \/ CopyUnit(p) \/ InflateEnd(p) \/ InflateFails(p) \/ StoredEnd(p) \/ BodyFails(p)
    \/ Drain(p) \/ DrainFails(p) \/ Flush(p) \/ Check(p) \/ CheckFails(p)
    \/ Rename(p) \/ Cleanup(p)

Next == \E p \in Procs : Start(p) \/ Run(p) \/ CreateFails(p) \/ Fault(p) \/ Kill(p)

\* A started run goes on: the code does not wait for anything but the server,
\* which it relies on to send or to fail ("rely on the server", fetch.go:44).
Spec == Init /\ [][Next]_vars /\ \A p \in Procs : WF_vars(Run(p))

-----------------------------------------------------------------------------
(* Properties.                                                             *)

\* "A failed integrity check leaves nothing behind" (README.md), nor does any
\* other end of a run but a kill: whoever made the temporary file has renamed
\* or removed it when the last process returns.
NothingLeft ==
    hist.kills = 0 /\ (\A p \in Procs : pc[p] = "idle") => name["partial"] = NoInode

\* A zip writer's archive: a local zip64 record has both sizes, there is one of
\* them where a field says so, and the size is the body's or left to a data
\* descriptor.  A stored body after which one comes has no end the code can
\* find: "Data descriptors and stored entries are handled too" (README.md:287)
\* is true of either, not of both at once.
GoodArchive(a) ==
    LET h == a.header
        full == {i \in DOMAIN h.extra : h.extra[i].id = "zip64" /\ h.extra[i].size >= 16}
    IN  /\ h.sig /\ h.method \in {"store", "deflate"}
        /\ \A i \in DOMAIN h.extra : h.extra[i].fits
        /\ Zip64(h) => Cardinality(full) = 1
        /\ \/ h.dd /\ h.method = "deflate"
           \/ ~h.dd /\ ~Zip64(h) /\ h.comp = Len(a.body)
           \/ ~h.dd /\ Zip64(h) /\ \A i \in full : h.extra[i].comp = Len(a.body)

\* A run that meets no fault succeeds, whatever earlier runs left, for every
\* good archive, and what is under the final name is then the image.
GoodArchivesArrive ==
    [][ \A p \in Procs :
          /\ outcome[p] = "running" /\ outcome'[p] # "running" /\ hist'.clean[p]
          /\ GoodArchive(job[p].offer.archive)
          => /\ outcome'[p] = "ok"
             /\ content'[name'["out"]] = job[p].offer.payload ]_vars

\* Every run ends.
RunsEnd == \A p \in Procs : outcome[p] = "running" ~> outcome[p] # "running"

\* With one process Fetch implements the abstract shelf: the final name keeps
\* what it had until it has, at once, a file that passed the check, "so an
\* interrupted run never leaves something that looks like a finished image"
\* (fetch.go:32).
AtFinalName == IF name["out"] = NoInode THEN <<"no file">> ELSE content[name["out"]]
Accepts(j, file) ==
    j.verify /\ (j.offer.image.sha1 # <<>> \/ j.offer.image.md5 # <<>>)
        => file = j.offer.payload
Keeper == CHOOSE p \in Procs : TRUE
FinalName == INSTANCE Shelf WITH
    shelf <- AtFinalName, request <- job[Keeper], outcome <- outcome[Keeper],
    published <- pc[Keeper] = "unwind",
    Requests <- [offer: Offers, verify: Verify], Accepts <- Accepts
ImplementsShelf == [][FinalName!ShelfNext]_(FinalName!shelfVars)

\* "an interrupted run never leaves something that looks like a finished image"
\* (fetch.go:32): when the last process has ended, what is under the final name
\* is what was there before or an image from the manifest.
OnlyFinishedImages ==
    (\A p \in Procs : pc[p] = "idle") /\ name["out"] # NoInode =>
        content[name["out"]] \in {OldFile} \cup {o.payload : o \in Offers}

-----------------------------------------------------------------------------
(* What the theorems suppose of the constants.                             *)

OneProcess == Procs = {Keeper}

\* A manifest entry that gives a hash tells the truth: it is the archive's, and
\* the archive holds the image - deflated up to its end mark, or stored with a
\* length that the header or the manifest gives.
Truthful(o) ==
    LET a == o.archive
        h == a.header
    IN  /\ o.image.sha1 # <<>> => o.image.sha1 = WireOf(a)
        /\ o.image.md5 # <<>> => o.image.md5 = WireOf(a)
        /\ h.method = "deflate" =>
              /\ a.body = Append(o.payload, "end")
              /\ \A i \in DOMAIN o.payload : o.payload[i] \notin Marks
        /\ h.method = "store" =>
              /\ a.body = o.payload
              /\ \/ o.image.FileSize = Len(o.payload) /\ o.payload # <<>>
                 \/ HeaderSizes(h).comp = Len(o.payload)
TruthfulManifest ==
    \A o \in Offers : o.image.sha1 # <<>> \/ o.image.md5 # <<>> => Truthful(o)

\* Of a good archive the manifest says nothing wrong, and its body is shorter
\* than 2^63.
SoundOffers ==
    \A o \in Offers : GoodArchive(o.archive) =>
        /\ Truthful(o)
        /\ o.image.FileSize \in {0, Len(o.payload)}
        /\ o.image.ZipFileSize \in {0, Len(WireOf(o.archive))}
        /\ Len(o.archive.body) < Half64
=============================================================================
