---------------------------- MODULE PackageProofs ----------------------------
(***************************************************************************)
(* Proofs about Package for any bases, configs, images and outputs, and    *)
(* without a bound on runs, faults, kills or downloads.                    *)
(***************************************************************************)
EXTENDS Package, SequenceTheorems, TLAPS

-----------------------------------------------------------------------------
(* What keeps the input: nothing that is written has its inode.            *)

Writing == {"create", "copy", "sync"}

Files == [src: Inodes \cup {NoInode}, dst: Inodes \cup {NoInode}, img: Inodes \cup {NoInode}]

Counted ==
    /\ {"fetches", "fetched", "struck"} \subseteq DOMAIN hist
    /\ hist.fetches \in Nat

NamesType == name \in Name /\ fd \in Files /\ Counted

\* The two names lead to different files, as long as there is an input.
NamesApart == name["in"] # NoInode => name["in"] # name["out"]

\* copyFile's output is never what the input's name leads to.
CopyApart == fd.dst # NoInode => fd.dst # name["in"]

\* With an output Inject has the output open, and writes on no dry run.
ImageApart ==
    /\ pc = "idle" => fd = Closed
    /\ pc \in {"copy", "sync"} => fd.dst # NoInode
    /\ pc \in {"resolve", "write"} => fd.img # NoInode
    /\ req.out /\ ~req.dry /\ fd.img # NoInode => fd.img # name["in"]
    /\ pc \in Writing \cup {"open"} => req.out /\ ~req.dry
    /\ pc = "write" => ~req.dry

IInv == NamesType /\ NamesApart /\ CopyApart /\ ImageApart

\* At first nothing is open and the names are apart.
LEMMA InitIInv == ASSUME StartsApart, Init PROVE IInv
<1>1. PICK s \in Starts : name = s.name /\ content = s.content
  BY DEF Init
<1>2. name \in Name /\ NamesApart
  BY <1>1, PackageAssumption DEF StartsApart, NamesApart
<1> QED BY <1>2 DEF Init, IInv, NamesType, Files, Counted, CopyApart, ImageApart, Closed, Writing

\* A command that ends has nothing open.
LEMMA FinishIInv ==
    ASSUME IInv, NEW how, Finish(how), UNCHANGED name, Counted'
    PROVE  IInv'
<1>1. fd' \in Files
  BY DEF Finish, Closed, Files
<1> QED BY <1>1 DEF IInv, NamesType, NamesApart, CopyApart, ImageApart, Finish, Closed, Writing

\* Counting keeps the counts.
LEMMA CountedKept ==
    ASSUME Counted, Start \/ Fault \/ Kill \/ Fetched PROVE Counted'
<1>1. CASE Start
  <2>1. hist' = [hist EXCEPT !.runs = hist.runs + 1, !.struck = FALSE, !.fetched = FALSE]
    BY <1>1 DEF Start
  <2> QED BY <2>1 DEF Counted
<1>2. CASE Fault
  <2>1. hist' = [hist EXCEPT !.faults = hist.faults + 1, !.struck = TRUE]
    BY <1>2 DEF Fault
  <2> QED BY <2>1 DEF Counted
<1>3. CASE Kill
  <2>1. hist' = [hist EXCEPT !.kills = hist.kills + 1]
    BY <1>3 DEF Kill
  <2> QED BY <2>1 DEF Counted
<1>4. CASE Fetched
  <2>1. hist' = [hist EXCEPT !.fetches = hist.fetches + 1, !.fetched = TRUE]
    BY <1>4 DEF Fetched
  <2> QED BY <2>1 DEF Counted
<1> QED BY <1>1, <1>2, <1>3, <1>4

\* Every step keeps the input's file apart from what is open for writing.
LEMMA StepIInv == ASSUME IInv, [Next]_vars PROVE IInv'
<1>t. name \in Name /\ fd \in Files /\ Counted
  BY DEF IInv, NamesType
<1> USE DEF IInv, NamesType, Counted, NamesApart, CopyApart, ImageApart
<1>0. CASE UNCHANGED vars
  BY <1>0 DEF vars, Closed
<1>1. CASE Start
  <2>1. Counted'
    BY <1>t, <1>1, CountedKept
  <2>2. fd' = Closed /\ name' = name /\ fd = Closed
    BY <1>1 DEF Start
  <2>3. pc' = "inject" \/ (pc' = "open" /\ req'.out /\ ~req'.dry)
    BY <1>1 DEF Start, Copies
  <2> QED BY <2>1, <2>2, <2>3 DEF Closed, Writing
<1>2. CASE Open
  BY <1>t, <1>2 DEF Open, Writing, Files, Name
<1>3. CASE Create
  <2>1. PICK i \in (IF name["out"] # NoInode THEN {name["out"]} ELSE Free) :
            name' = [name EXCEPT !["out"] = i] /\ fd' = [fd EXCEPT !.dst = i]
    BY <1>3 DEF Create
  <2>2. i # name["in"] \/ name["in"] = NoInode
    BY <2>1 DEF Free
  <2>3. i \in Inodes /\ i # NoInode
    BY <2>1, PackageAssumption DEF Free, Name
  <2> QED BY <1>3, <2>1, <2>2, <2>3 DEF Create, Name, Files, Writing
<1>4. CASE CopyChunk \/ CopyEnd
  BY <1>4 DEF CopyChunk, CopyEnd, Writing
<1>5. CASE SyncCopy
  BY <1>5 DEF SyncCopy, Writing, Files, Closed
<1>6. CASE OpenImage
  <2>1. name[Work] \in Inodes \cup {NoInode} /\ name[Work] # NoInode
    BY <1>t, <1>6 DEF OpenImage, Work, Name
  <2>2. req.out /\ ~req.dry => name[Work] # name["in"]
    BY <2>1 DEF Work
  <2>3. fd' = [fd EXCEPT !.img = name[Work]] /\ pc' = "resolve" /\ UNCHANGED <<req, name, hist>>
    BY <1>6 DEF OpenImage
  <2> QED BY <1>t, <2>1, <2>2, <2>3 DEF Files, Writing
<1>7. CASE OpenFails \/ OpenImageFails \/ Unreadable \/ DryRun \/ RefuseExisting \/ Written
  <2>1. (\E how : Finish(how)) /\ UNCHANGED <<name, hist>>
    BY <1>7 DEF OpenFails, OpenImageFails, Unreadable, DryRun, RefuseExisting, Written, Fail
  <2> QED BY <1>t, <2>1, FinishIInv
<1>8. CASE GoAhead
  BY <1>8 DEF GoAhead, Writing
<1>9. CASE Write
  <2>1. req' = req
    BY <1>9 DEF Write, Store!Put, Store!Replace
  <2>2. UNCHANGED <<pc, name, fd, hist>>
    BY <1>9 DEF Write
  <2> QED BY <2>1, <2>2
<1>10. CASE Fault \/ Kill
  <2>1. (\E how : Finish(how)) /\ UNCHANGED name
    BY <1>10 DEF Fault, Kill
  <2>2. Counted'
    BY <1>t, <1>10, CountedKept
  <2> QED BY <2>1, <2>2, FinishIInv
<1>11. CASE Fetched
  <2>1. PICK i \in Free : name' = [name EXCEPT !["in"] = i]
    BY <1>11 DEF Fetched
  <2>2. /\ i \in Inodes /\ i # name["out"]
        /\ i \notin {fd.src, fd.dst, fd.img}
    BY <2>1 DEF Free
  <2>3. Counted' /\ UNCHANGED <<pc, req, fd>>
    BY <1>t, <1>11, CountedKept DEF Fetched
  <2> QED BY <1>t, <2>1, <2>2, <2>3 DEF Name, Writing
<1> QED BY <1>0, <1>1, <1>2, <1>3, <1>4, <1>5, <1>6, <1>7, <1>8, <1>9, <1>10, <1>11
        DEF Next, Run

\* No step of a command with an output writes to the input's file.
LEMMA StepKeepsInput ==
    ASSUME IInv, [Next]_vars, Running, req.out, name["in"] # NoInode
    PROVE  content'[name["in"]] = content[name["in"]]
<1> USE DEF IInv, NamesType, NamesApart, CopyApart, ImageApart
<1>1. CASE Create
  <2>1. PICK i \in (IF name["out"] # NoInode THEN {name["out"]} ELSE Free) :
            content' = [content EXCEPT ![i] = <<>>]
    BY <1>1 DEF Create, Created
  <2>2. i # name["in"]
    BY <2>1 DEF Free
  <2> QED BY <2>1, <2>2
<1>2. CASE CopyChunk
  <2>1. fd.dst # name["in"]
    BY <1>2 DEF CopyChunk
  <2> QED BY <1>2, <2>1 DEF CopyChunk
<1>3. CASE Write
  <2>1. fd.img # name["in"]
    BY <1>3 DEF Write
  <2> QED BY <1>3, <2>1 DEF Write
<1>4. CASE Fetched
  <2>1. PICK i \in Free, b \in Bases : content' = [content EXCEPT ![i] = NewImage(b, NoConfig)]
    BY <1>4 DEF Fetched
  <2>2. i # name["in"]
    BY <2>1 DEF Free
  <2> QED BY <2>1, <2>2
<1>5. CASE UNCHANGED content
  BY <1>5
<1>6. \/ Create \/ CopyChunk \/ Write \/ Fetched \/ UNCHANGED content
  BY DEF Next, Run, vars, Start, Open, OpenFails, CopyEnd, SyncCopy, OpenImage,
         OpenImageFails, Unreadable, DryRun, RefuseExisting, GoAhead, Written, Fault, Kill, Fail
<1> QED BY <1>1, <1>2, <1>3, <1>4, <1>5, <1>6

\* A dry run writes nothing and gives nothing a name.
LEMMA StepDry ==
    ASSUME IInv, [Next]_vars, Running, req.dry, hist'.fetches = hist.fetches
    PROVE  UNCHANGED <<name, content>>
<1> USE DEF IInv, NamesType, NamesApart, CopyApart, ImageApart
<1>1. ~Create /\ ~CopyChunk /\ ~Write
  BY DEF Create, CopyChunk, Write, Writing
<1>2. CASE Fetched
  BY <1>2 DEF Fetched, Counted
<1>3. CASE ~Fetched
  BY <1>1, <1>3 DEF Next, Run, vars, Start, Open, OpenFails, CopyEnd, SyncCopy, OpenImage,
         OpenImageFails, Unreadable, DryRun, RefuseExisting, GoAhead, Written, Fault, Kill, Fail
<1> QED BY <1>2, <1>3

-----------------------------------------------------------------------------
(* The theorems.                                                           *)

\* The invariant holds in every reachable state.
THEOREM Invariance == StartsApart => (Spec => []IInv)
<1>1. StartsApart /\ Init => IInv
  BY InitIInv
<1>2. IInv /\ [Next]_vars => IInv'
  BY StepIInv
<1> QED BY <1>1, <1>2, PTL DEF Spec

\* "write to a copy at this path instead of modifying in place" (main.go:190):
\* whatever fails, whenever the command is killed and whatever is downloaded
\* meanwhile, the file the input's name leads to is not written, provided that
\* -o did not name it when the first command started.
THEOREM InputSafe == StartsApart => (Spec => InputKept)
<1>1. IInv /\ [Next]_vars =>
          [ Running /\ req.out /\ name["in"] # NoInode =>
              content'[name["in"]] = content[name["in"]] ]_vars
  BY StepKeepsInput
<1> QED BY <1>1, Invariance, PTL DEF Spec, InputKept

\* "change nothing" (main.go:200): a dry run writes to no file and gives none a
\* name, with or without -o.
THEOREM DryRunSafe == StartsApart => (Spec => DryRunTouchesNothing)
<1>1. IInv /\ [Next]_vars =>
          [ Running /\ req.dry /\ hist'.fetches = hist.fetches =>
              UNCHANGED <<name, content>> ]_vars
  BY StepDry
<1> QED BY <1>1, Invariance, PTL DEF Spec, DryRunTouchesNothing

-----------------------------------------------------------------------------
(* What files hold: an image of one base, or the beginning of one, as a    *)
(* copy cut short leaves it.                                               *)

Images == content \in [Inodes -> Seq(Chunk)] /\ \A i \in Inodes : ImageOrPart(content[i])

\* With an output and no dry run there is a copy.
Copied == req.out /\ ~req.dry

\* The copy is the beginning of what the source holds, and the source stays
\* the input's file unless a download replaced that.
Copying ==
    /\ pc \in {"idle", "open", "create"} => pos = 0
    /\ pc \in Writing =>
          /\ fd.src # NoInode /\ fd.src # name["out"]
          /\ fd.src = name["in"] \/ hist.fetched
    /\ pc \in {"copy", "sync"} =>
          /\ fd.dst # NoInode /\ fd.dst = name["out"]
          /\ pos = Len(content[fd.dst]) /\ pos <= Len(content[fd.src])
          /\ \A k \in 1 .. pos : content[fd.dst][k] = content[fd.src][k]
    /\ pc = "sync" => pos = Len(content[fd.src])

\* Inject has the copy open, the input's equal unless that was replaced, or
\* the input itself.
Injecting ==
    /\ pc \in {"inject", "resolve", "write"} /\ Copied => name["out"] # NoInode
    /\ pc \in {"inject", "resolve"} /\ Copied /\ ~hist.fetched =>
          name["in"] # NoInode /\ content[name["out"]] = content[name["in"]]
    /\ pc \in {"resolve", "write"} => fd.img = name[Work] \/ (Work = "in" /\ hist.fetched)
    /\ pc = "write" => Readable(content[fd.img])

Rest ==
    /\ pc \in Places /\ req \in Requests /\ pos \in 0 .. Chunks
    /\ outcome \in {"none", "running", "ok", "error", "killed"}

PInv == IInv /\ Rest /\ Images /\ Copying /\ Injecting

\* Chunks of an image are chunks.
LEMMA NewImageType ==
    ASSUME NEW b \in Bases, NEW c \in Configs \cup {NoConfig}
    PROVE  /\ NewImage(b, c) \in Seq(Chunk) /\ Len(NewImage(b, c)) = Chunks
           /\ NewImage(b, c)[Chunks].config = c
           /\ Part(NewImage(b, c), b, c)
<1>1. Chunks \in Nat \ {0}
  BY PackageAssumption
<1>2. \A k \in 1 .. Chunks :
          [base |-> b, part |-> k, config |-> IF k = Chunks THEN c ELSE NoConfig] \in Chunk
  BY DEF Chunk
<1>3. NewImage(b, c) \in [1 .. Chunks -> Chunk]
  BY <1>2 DEF NewImage
<1>4. NewImage(b, c) \in Seq(Chunk)
  BY <1>1, <1>3, SeqDef
<1>5. Len(NewImage(b, c)) = Chunks
  BY <1>1, <1>3, <1>4, LenProperties
<1>6. NewImage(b, c)[Chunks].config = c
  BY <1>1 DEF NewImage
<1> QED BY <1>1, <1>4, <1>5, <1>6 DEF Part

\* A part as long as an image is one.
LEMMA ReadableIsImage ==
    ASSUME NEW f, NEW b \in Bases, NEW c \in Configs \cup {NoConfig}, Part(f, b, c), Readable(f)
    PROVE  f = NewImage(b, c) /\ ConfigOf(f) = c
<1>1. f \in Seq(Chunk) /\ Len(f) = Chunks /\ \A k \in 1 .. Len(f) : f[k] = NewImage(b, c)[k]
  BY DEF Part, Readable
<1>2. NewImage(b, c) \in Seq(Chunk) /\ Len(NewImage(b, c)) = Chunks
  BY NewImageType
<1>3. f = NewImage(b, c)
  BY <1>1, <1>2, SeqEqual
<1> QED BY <1>3, NewImageType DEF ConfigOf

\* An empty file is the beginning of any image.
LEMMA EmptyIsPart ==
    ASSUME NEW b \in Bases PROVE ImageOrPart(<<>>)
<1>1. Part(<<>>, b, NoConfig)
  BY EmptySeq, PackageAssumption DEF Part
<1> QED BY <1>1 DEF ImageOrPart

\* Replacing the config of an image makes it the same base's with the new one.
LEMMA ConfigWritten ==
    ASSUME NEW f, NEW b \in Bases, NEW c \in Configs \cup {NoConfig}, Part(f, b, c), Readable(f),
           NEW d \in Configs
    PROVE  [f EXCEPT ![Chunks].config = d] = NewImage(b, d)
<1> DEFINE r(k, e) == [base |-> b, part |-> k, config |-> IF k = Chunks THEN e ELSE NoConfig]
<1>1. f = [k \in 1 .. Chunks |-> r(k, c)]
  BY ReadableIsImage DEF NewImage
<1>2. Chunks \in 1 .. Chunks
  BY PackageAssumption
<1>3. [f EXCEPT ![Chunks].config = d] = [f EXCEPT ![Chunks] = [f[Chunks] EXCEPT !.config = d]]
  OBVIOUS
<1>4. [f[Chunks] EXCEPT !.config = d] = r(Chunks, d)
  BY <1>1, <1>2
<1>5. \A k \in 1 .. Chunks : k # Chunks => f[k] = r(k, d)
  BY <1>1
<1>6. [f EXCEPT ![Chunks] = r(Chunks, d)] = [k \in 1 .. Chunks |-> r(k, d)]
  <2> HIDE DEF r
  <2> QED BY <1>1, <1>2, <1>5
<1> QED BY <1>3, <1>4, <1>6 DEF NewImage

\* The next chunk of the copy is the next chunk of the source.
LEMMA NextChunk ==
    ASSUME NEW f \in Seq(Chunk), NEW g \in Seq(Chunk), Len(f) < Len(g),
           \A k \in 1 .. Len(f) : f[k] = g[k],
           NEW h, h = SubSeq(f, 1, Len(f)) \o <<g[Len(f) + 1]>> \o SubSeq(f, Len(f) + 2, Len(f))
    PROVE  /\ h \in Seq(Chunk) /\ Len(h) = Len(f) + 1
           /\ \A k \in 1 .. Len(h) : h[k] = g[k]
<1> DEFINE x == g[Len(f) + 1]
<1>1. Len(f) \in Nat /\ Len(g) \in Nat
  BY LenProperties
<1>2. x \in Chunk
  <2>1. Len(f) + 1 \in 1 .. Len(g)
    BY <1>1
  <2> QED BY <2>1, ElementOfSeq
<1>3. SubSeq(f, 1, Len(f)) = f
  BY SubSeqFull
<1>4. SubSeq(f, Len(f) + 2, Len(f)) = <<>>
  BY <1>1, SubSeqEmpty
<1> HIDE DEF x
<1>5. f \o <<x>> = Append(f, x)
  BY <1>2, AppendIsConcat
<1>6. Append(f, x) \in Seq(Chunk)
  BY <1>2, AppendProperties
<1>7. h = Append(f, x) \o <<>>
  BY <1>3, <1>4, <1>5 DEF x
<1>8. h = Append(f, x)
  BY <1>6, <1>7, ConcatEmptySeq
<1>9. /\ Len(Append(f, x)) = Len(f) + 1 /\ Append(f, x)[Len(f) + 1] = x
      /\ \A k \in 1 .. Len(f) : Append(f, x)[k] = f[k]
  BY <1>2, AppendProperties
<1>10. /\ Len(h) = Len(f) + 1 /\ h[Len(f) + 1] = x
       /\ \A k \in 1 .. Len(f) : h[k] = f[k]
  BY <1>8, <1>9
<1>11. ASSUME NEW k \in 1 .. Len(f) + 1 PROVE h[k] = g[k]
  <2>1. CASE k \in 1 .. Len(f)
    BY <1>10, <2>1
  <2>2. CASE k = Len(f) + 1
    BY <1>10, <2>2 DEF x
  <2>3. k \in 1 .. Len(f) \/ k = Len(f) + 1
    BY <1>1
  <2> QED BY <2>1, <2>2, <2>3
<1> QED BY <1>6, <1>8, <1>10, <1>11

\* The beginning of an image's beginning is one.
LEMMA PartOfPart ==
    ASSUME NEW f \in Seq(Chunk), NEW g, ImageOrPart(g), Len(f) <= Len(g),
           \A k \in 1 .. Len(f) : f[k] = g[k]
    PROVE  ImageOrPart(f)
<1>1. PICK b \in Bases, c \in Configs \cup {NoConfig} : Part(g, b, c)
  BY DEF ImageOrPart
<1>2. g \in Seq(Chunk) /\ Len(g) <= Chunks /\ \A k \in 1 .. Len(g) : g[k] = NewImage(b, c)[k]
  BY <1>1 DEF Part
<1>3. Len(f) \in Nat /\ Len(g) \in Nat /\ Chunks \in Nat
  BY <1>2, LenProperties, PackageAssumption
<1>4. Part(f, b, c)
  BY <1>2, <1>3 DEF Part
<1> QED BY <1>4 DEF ImageOrPart

\* At first files are images or parts of one.
LEMMA InitPInv == ASSUME StartsApart, StartsImages, Init PROVE PInv
<1>1. PICK s \in Starts : name = s.name /\ content = s.content
  BY DEF Init
<1>2. Images
  BY <1>1, PackageAssumption DEF StartsImages, Images
<1>3. Rest
  <2>1. Requests # {}
    <3>1. PICK d \in Data : TRUE
      BY PackageAssumption
    <3>2. [out |-> FALSE, data |-> d, force |-> FALSE, dry |-> FALSE] \in Requests
      BY DEF Requests
    <3> QED BY <3>2
  <2>2. req \in Requests
    BY <2>1 DEF Init
  <2> QED BY <2>2, PackageAssumption DEF Init, Rest, Places
<1>4. IInv
  BY InitIInv
<1> QED BY <1>2, <1>3, <1>4 DEF Init, PInv, Copying, Injecting, Writing

\* A command that ends leaves the files as they are.
LEMMA FinishPInv ==
    ASSUME PInv, IInv', NEW how \in {"ok", "error", "killed"}, Finish(how),
           UNCHANGED <<req, name, content>>
    PROVE  PInv'
<1>1. pc' = "idle" /\ outcome' = how /\ pos' = 0
  BY DEF Finish
<1>2. Images' /\ Rest'
  BY <1>1, PackageAssumption DEF PInv, Images, Rest, Places
<1> QED BY <1>1, <1>2 DEF PInv, Copying, Injecting, Writing

\* One more chunk is copied.
LEMMA CopyChunkPInv == ASSUME PInv, IInv', CopyChunk PROVE PInv'
<1> DEFINE f == content[fd.dst]
           g == content[fd.src]
           h == SubSeq(f, 1, pos) \o <<g[pos + 1]>> \o SubSeq(f, pos + 2, Len(f))
<1>1. /\ pc = "copy" /\ pos < Len(g) /\ pos' = pos + 1
      /\ content' = [content EXCEPT ![fd.dst] = h]
      /\ UNCHANGED <<pc, req, name, fd, outcome, hist>>
  <2>1. pc = "copy" /\ ~ (pos >= Len(g)) /\ pos' = pos + 1
    BY DEF CopyChunk, AtInputEnd, Source
  <2>2. content' = [content EXCEPT ![fd.dst] = h]
    BY DEF CopyChunk, Source
  <2>3. Len(g) \in Nat /\ pos \in Nat
    <3>1. fd.src \in Inodes
      BY <2>1 DEF PInv, IInv, NamesType, Files, Copying, Writing
    <3>2. g \in Seq(Chunk)
      BY <3>1 DEF PInv, Images
    <3> QED BY <3>2, LenProperties, PackageAssumption DEF PInv, Rest
  <2>4. pos < Len(g)
    <3> HIDE DEF g
    <3> QED BY <2>1, <2>3 DEF g
  <2>5. UNCHANGED <<pc, req, name, fd, outcome, hist>>
    BY DEF CopyChunk
  <2> HIDE DEF f, g, h
  <2> QED BY <2>1, <2>2, <2>4, <2>5
<1>2. /\ fd.src \in Inodes /\ fd.dst \in Inodes /\ fd.src # fd.dst /\ fd.dst = name["out"]
      /\ fd.src # name["out"] /\ (fd.src = name["in"] \/ hist.fetched)
      /\ pos = Len(f) /\ \A k \in 1 .. pos : f[k] = g[k]
  BY <1>1 DEF PInv, IInv, NamesType, Files, Copying, Writing
<1>3. f \in Seq(Chunk) /\ g \in Seq(Chunk) /\ ImageOrPart(g) /\ pos \in Nat /\ Len(g) \in Nat
  <2>1. f \in Seq(Chunk) /\ g \in Seq(Chunk) /\ ImageOrPart(g)
    BY <1>2 DEF PInv, Images
  <2> QED BY <1>2, <2>1, LenProperties
<1>4. h \in Seq(Chunk) /\ Len(h) = pos + 1 /\ \A k \in 1 .. Len(h) : h[k] = g[k]
  <2>1. pos = Len(f)
    BY <1>2
  <2>2. h = SubSeq(f, 1, Len(f)) \o <<g[Len(f) + 1]>> \o SubSeq(f, Len(f) + 2, Len(f))
    <3> HIDE DEF f, g
    <3> QED BY <2>1
  <2>3. Len(f) < Len(g) /\ \A k \in 1 .. Len(f) : f[k] = g[k]
    <3> HIDE DEF f, g, h
    <3> QED BY <1>1, <1>2, <2>1
  <2> HIDE DEF f, g, h
  <2>4. /\ h \in Seq(Chunk) /\ Len(h) = Len(f) + 1
        /\ \A k \in 1 .. Len(h) : h[k] = g[k]
    BY <1>3, <2>2, <2>3, NextChunk
  <2> QED BY <2>1, <2>4
<1> HIDE DEF h
<1>5. content'[fd.dst] = h /\ content'[fd.src] = g
  BY <1>1, <1>2 DEF PInv, Images
<1>6. Images'
  <2>1. ImageOrPart(h)
    <3> HIDE DEF g
    <3> QED BY <1>1, <1>3, <1>4, PartOfPart
  <2>2. content' \in [Inodes -> Seq(Chunk)]
    BY <1>1, <1>2, <1>4 DEF PInv, Images
  <2>3. \A i \in Inodes : ImageOrPart(content'[i])
    BY <1>1, <2>1 DEF PInv, Images
  <2> QED BY <2>2, <2>3 DEF Images
<1>7. Len(g) <= Chunks
  <2>1. PICK b \in Bases, c \in Configs \cup {NoConfig} : Part(g, b, c)
    BY <1>3 DEF ImageOrPart
  <2> QED BY <2>1 DEF Part
<1>8. Rest'
  BY <1>1, <1>3, <1>7, PackageAssumption DEF PInv, Rest
<1> HIDE DEF f, g
<1>9. Copying'
  <2>1. pos' = Len(content'[fd'.dst]) /\ pos' <= Len(content'[fd'.src])
    BY <1>1, <1>3, <1>4, <1>5
  <2>2. \A k \in 1 .. pos' : content'[fd'.dst][k] = content'[fd'.src][k]
    BY <1>1, <1>4, <1>5
  <2>3. /\ fd'.src # NoInode /\ fd'.src # name'["out"]
        /\ fd'.src = name'["in"] \/ hist'.fetched
        /\ fd'.dst # NoInode /\ fd'.dst = name'["out"]
    BY <1>1, <1>2, PackageAssumption
  <2> QED BY <1>1, <2>1, <2>2, <2>3 DEF Copying, Writing
<1>10. Injecting'
  BY <1>1 DEF Injecting
<1> QED BY <1>6, <1>8, <1>9, <1>10 DEF PInv

\* The copy is closed, as long as its source.
LEMMA SyncPInv == ASSUME PInv, IInv', SyncCopy PROVE PInv'
<1>1. /\ pc = "sync" /\ pc' = "inject" /\ fd' = Closed /\ pos' = 0
      /\ UNCHANGED <<req, name, content, outcome, hist>>
  BY DEF SyncCopy
<1>2. /\ fd.dst = name["out"] /\ fd.dst \in Inodes /\ fd.src \in Inodes
      /\ fd.src = name["in"] \/ hist.fetched
      /\ Len(content[fd.dst]) = Len(content[fd.src])
      /\ \A k \in 1 .. Len(content[fd.dst]) : content[fd.dst][k] = content[fd.src][k]
  BY <1>1 DEF PInv, IInv, NamesType, Files, Copying, Writing
<1>3. content[fd.dst] = content[fd.src]
  <2>1. content[fd.dst] \in Seq(Chunk) /\ content[fd.src] \in Seq(Chunk)
    BY <1>2 DEF PInv, Images
  <2> QED BY <1>2, <2>1, SeqEqual
<1>4. Images' /\ Rest'
  BY <1>1, PackageAssumption DEF PInv, Images, Rest, Places
<1>5. Injecting'
  BY <1>1, <1>2, <1>3, PackageAssumption DEF Injecting
<1>6. Copying'
  BY <1>1 DEF Copying, Writing
<1> QED BY <1>4, <1>5, <1>6 DEF PInv

\* Writing changes the config of the image that is open, to one of the configs.
LEMMA WritePInv == ASSUME PInv, IInv', Write PROVE PInv'
<1>1. PICK c \in Configs : content' = [content EXCEPT ![fd.img][Chunks].config = c]
  BY DEF Write
<1>2. req' = req /\ outcome' = outcome
  BY DEF Write, Store!Put, Store!Replace
<1>3. pc = "write" /\ UNCHANGED <<pc, name, fd, pos, hist>>
  BY DEF Write
<1>4. fd.img \in Inodes /\ Readable(content[fd.img])
  BY <1>3 DEF PInv, IInv, NamesType, Files, ImageApart, Injecting
<1>5. PICK b \in Bases, d \in Configs \cup {NoConfig} : Part(content[fd.img], b, d)
  BY <1>4 DEF PInv, Images, ImageOrPart
<1> DEFINE g == [content[fd.img] EXCEPT ![Chunks].config = c]
<1>6. g = NewImage(b, c)
  BY <1>4, <1>5, ConfigWritten
<1>7. content' = [content EXCEPT ![fd.img] = g]
  BY <1>1
<1>8. g \in Seq(Chunk) /\ Len(g) = Chunks /\ ImageOrPart(g)
  <2>1. /\ NewImage(b, c) \in Seq(Chunk) /\ Len(NewImage(b, c)) = Chunks
        /\ Part(NewImage(b, c), b, c)
    BY NewImageType
  <2> HIDE DEF g
  <2> QED BY <1>6, <2>1 DEF ImageOrPart
<1> HIDE DEF g
<1>9. Images'
  BY <1>4, <1>7, <1>8 DEF PInv, Images
<1>10. content'[fd.img] = g
  BY <1>4, <1>7 DEF PInv, Images
<1>11. Injecting'
  <2>1. Readable(content'[fd'.img])
    BY <1>3, <1>8, <1>10 DEF Readable
  <2>2. Work' = Work
    BY <1>2 DEF Work
  <2> QED BY <1>2, <1>3, <2>1, <2>2 DEF PInv, Injecting, Copied
<1>12. Rest' /\ Copying'
  BY <1>2, <1>3 DEF PInv, Rest, Copying, Writing
<1> QED BY <1>9, <1>11, <1>12 DEF PInv

\* A download writes a file that nothing in progress has open.
LEMMA FetchedPInv == ASSUME PInv, IInv', Fetched PROVE PInv'
<1>1. PICK i \in Free, b \in Bases :
          /\ name' = [name EXCEPT !["in"] = i]
          /\ content' = [content EXCEPT ![i] = NewImage(b, NoConfig)]
  BY DEF Fetched
<1>2. UNCHANGED <<pc, req, fd, pos, outcome>> /\ hist'.fetched
  BY DEF Fetched, Download!Publish
<1>3. i \in Inodes /\ i # name["out"] /\ i \notin {fd.src, fd.dst, fd.img}
  BY <1>1 DEF Free
<1>4. NewImage(b, NoConfig) \in Seq(Chunk) /\ ImageOrPart(NewImage(b, NoConfig))
  BY NewImageType DEF ImageOrPart
<1>5. Images'
  BY <1>1, <1>3, <1>4 DEF PInv, Images
<1>6. name'["out"] = name["out"]
  BY <1>1 DEF PInv, IInv, NamesType, Name
<1>7. \A q : q # i => content'[q] = content[q]
  BY <1>1
<1>8. Copying'
  BY <1>2, <1>3, <1>6, <1>7 DEF PInv, Copying, Writing
<1>9. Injecting'
  <2>1. Work' = Work /\ Work \in {"in", "out"} /\ Copied' = Copied
    BY <1>2 DEF Work, Copied
  <2>2. pc \in {"resolve", "write"} => fd'.img = name'[Work'] \/ Work' = "in"
    BY <1>2, <1>6, <2>1 DEF PInv, Injecting
  <2> QED BY <1>2, <1>3, <1>6, <1>7, <2>1, <2>2 DEF PInv, Injecting
<1>10. Rest'
  BY <1>2 DEF PInv, Rest
<1> QED BY <1>5, <1>8, <1>9, <1>10 DEF PInv

\* The output is created empty, and it is not the source.
LEMMA CreatePInv == ASSUME PInv, IInv', Create PROVE PInv'
<1>1. PICK i \in (IF name["out"] # NoInode THEN {name["out"]} ELSE Free) :
          /\ name' = [name EXCEPT !["out"] = i]
          /\ fd' = [fd EXCEPT !.dst = i]
          /\ content' = [content EXCEPT ![i] = <<>>]
  BY DEF Create, Created
<1>2. pc = "create" /\ pc' = "copy" /\ UNCHANGED <<req, pos, outcome, hist>>
  BY DEF Create
<1>3. i \in Inodes /\ i # NoInode /\ i # fd.src
  BY <1>1, <1>2, PackageAssumption DEF Free, PInv, IInv, NamesType, Name, Copying, Writing
<1>4. /\ fd.src \in Inodes /\ fd.src # NoInode /\ (fd.src = name["in"] \/ hist.fetched) /\ pos = 0
  BY <1>2 DEF PInv, IInv, NamesType, Files, Copying, Writing
<1>5. /\ fd'.dst = i /\ fd'.src = fd.src /\ name'["out"] = i /\ name'["in"] = name["in"]
  BY <1>1 DEF PInv, IInv, NamesType, Files, Name
<1>6. content'[i] = <<>> /\ content'[fd.src] = content[fd.src]
  BY <1>1, <1>3 DEF PInv, Images
<1>7. Len(content[fd.src]) \in Nat /\ Len(<<>>) = 0
  <2>1. content[fd.src] \in Seq(Chunk)
    BY <1>4 DEF PInv, Images
  <2> QED BY <2>1, LenProperties
<1>8. Images'
  <2>1. PICK b \in Bases : TRUE
    BY <1>4 DEF PInv, Images, ImageOrPart
  <2>2. ImageOrPart(<<>>) /\ <<>> \in Seq(Chunk)
    BY EmptyIsPart, EmptySeq
  <2> QED BY <1>1, <2>2 DEF PInv, Images
<1>9. Copying'
  BY <1>2, <1>3, <1>4, <1>5, <1>6, <1>7 DEF Copying, Writing
<1>10. Rest' /\ Injecting'
  BY <1>2 DEF PInv, Rest, Places, Injecting
<1> QED BY <1>8, <1>9, <1>10 DEF PInv

\* Every step keeps what files hold and what is open.
LEMMA StepPInv == ASSUME PInv, [Next]_vars PROVE PInv'
<1>i. IInv'
  BY StepIInv DEF PInv
<1>t. /\ name \in Name /\ fd \in Files /\ pos \in Nat /\ pos <= Chunks /\ Chunks \in Nat
      /\ content \in [Inodes -> Seq(Chunk)] /\ req \in Requests /\ NamesApart
  BY PackageAssumption DEF PInv, IInv, NamesType, Rest, Images
<1>0. CASE UNCHANGED vars
  <2>1. Images' /\ Rest'
    BY <1>0 DEF vars, PInv, Images, Rest
  <2>2. Copying'
    BY <1>0 DEF vars, PInv, Copying
  <2>3. Injecting'
    BY <1>0 DEF vars, PInv, Injecting, Work, Copied
  <2> QED BY <1>i, <2>1, <2>2, <2>3 DEF PInv
<1>1. CASE Start
  <2>1. /\ pc = "idle" /\ req' \in Requests /\ outcome' = "running"
        /\ UNCHANGED <<name, content, fd, pos>>
    BY <1>1 DEF Start
  <2>2. pc' = "open" \/ (pc' = "inject" /\ ~Copied')
    BY <1>1 DEF Start, Copies, Copied
  <2>3. Images' /\ Rest'
    BY <2>1, <2>2 DEF PInv, Images, Rest, Places
  <2>4. Copying'
    BY <2>1, <2>2 DEF PInv, Copying, Writing
  <2>5. Injecting'
    BY <2>1, <2>2 DEF Injecting
  <2> QED BY <1>i, <2>3, <2>4, <2>5 DEF PInv
<1>2. CASE Open
  <2>1. /\ pc = "open" /\ name["in"] # NoInode /\ pc' = "create"
        /\ fd' = [fd EXCEPT !.src = name["in"]]
        /\ UNCHANGED <<req, name, content, pos, outcome, hist>>
    BY <1>2 DEF Open
  <2>2. fd'.src = name["in"] /\ name["in"] # name["out"]
    BY <1>t, <2>1 DEF Files, NamesApart
  <2>3. Copying'
    BY <2>1, <2>2 DEF PInv, Copying, Writing
  <2> QED BY <1>i, <2>1, <2>3 DEF PInv, Images, Rest, Places, Injecting
<1>3. CASE Create
  BY <1>i, <1>3, CreatePInv
<1>4. CASE CopyChunk
  BY <1>i, <1>4, CopyChunkPInv
<1>5. CASE CopyEnd
  <2>1. /\ pc = "copy" /\ pc' = "sync" /\ pos >= Len(content[fd.src])
        /\ UNCHANGED <<req, name, content, fd, pos, outcome, hist>>
    BY <1>5 DEF CopyEnd, AtInputEnd, Source
  <2>2. Len(content[fd.src]) \in Nat /\ pos <= Len(content[fd.src])
    <3>1. fd.src \in Inodes /\ pos <= Len(content[fd.src])
      BY <1>t, <2>1 DEF PInv, Copying, Writing, Files
    <3>2. content[fd.src] \in Seq(Chunk)
      BY <1>t, <3>1
    <3> QED BY <3>1, <3>2, LenProperties
  <2>3. pos = Len(content[fd.src])
    BY <1>t, <2>1, <2>2
  <2>4. Copying'
    BY <2>1, <2>3 DEF PInv, Copying, Writing
  <2> QED BY <1>i, <2>1, <2>4 DEF PInv, Images, Rest, Places, Injecting
<1>6. CASE SyncCopy
  BY <1>i, <1>6, SyncPInv
<1>7. CASE OpenImage
  <2>1. /\ pc = "inject" /\ pc' = "resolve" /\ fd' = [fd EXCEPT !.img = name[Work]]
        /\ UNCHANGED <<req, name, content, pos, outcome, hist>>
    BY <1>7 DEF OpenImage
  <2>2. fd'.img = name[Work] /\ Work' = Work /\ Copied' = Copied
    BY <1>t, <2>1 DEF Files, Work, Copied
  <2>3. Injecting'
    BY <2>1, <2>2 DEF PInv, Injecting
  <2> QED BY <1>i, <2>1, <2>3 DEF PInv, Images, Rest, Places, Copying, Writing
<1>8. CASE OpenFails \/ OpenImageFails \/ Unreadable \/ RefuseExisting
  <2>1. Finish("error") /\ UNCHANGED <<req, name, content>>
    BY <1>8 DEF OpenFails, OpenImageFails, Unreadable, RefuseExisting, Fail
  <2> QED BY <1>i, <2>1, FinishPInv
<1>9. CASE DryRun \/ Written
  <2>1. Finish("ok") /\ UNCHANGED <<req, name, content>>
    BY <1>9 DEF DryRun, Written
  <2> QED BY <1>i, <2>1, FinishPInv
<1>10. CASE GoAhead
  <2>1. /\ pc = "resolve" /\ pc' = "write" /\ Readable(content[fd.img])
        /\ UNCHANGED <<req, name, content, fd, pos, outcome, hist>>
    BY <1>10 DEF GoAhead
  <2>2. Work' = Work /\ Copied' = Copied
    BY <2>1 DEF Work, Copied
  <2>3. Injecting'
    BY <2>1, <2>2 DEF PInv, Injecting, Readable
  <2> QED BY <1>i, <2>1, <2>3 DEF PInv, Images, Rest, Places, Copying, Writing
<1>11. CASE Write
  BY <1>i, <1>11, WritePInv
<1>12. CASE Fault
  <2>1. Finish("error") /\ UNCHANGED <<req, name, content>>
    BY <1>12 DEF Fault
  <2> QED BY <1>i, <2>1, FinishPInv
<1>13. CASE Kill
  <2>1. Finish("killed") /\ UNCHANGED <<req, name, content>>
    BY <1>13 DEF Kill
  <2> QED BY <1>i, <2>1, FinishPInv
<1>14. CASE Fetched
  BY <1>i, <1>14, FetchedPInv
<1> QED BY <1>0, <1>1, <1>2, <1>3, <1>4, <1>5, <1>6, <1>7, <1>8, <1>9, <1>10, <1>11, <1>12,
           <1>13, <1>14 DEF Next, Run

\* A step that reports success, and is not a dry run's, is Written, and the
\* image that was open is whole, one base's, and has the config.
LEMMA StepTagged ==
    ASSUME PInv, [Next]_vars, Running, outcome' = "ok", ~req.dry, req.out \/ ~hist.fetched
    PROVE  \E b \in Bases : content'[name'[Work]] = NewImage(b, Whole(req.data))
<1>1. Written
  <2>1. ~(UNCHANGED vars)
    BY DEF vars, Running
  <2>2. ~Write
    <3>1. Write => outcome' = outcome
      BY DEF Write, Store!Put, Store!Replace
    <3> QED BY <3>1 DEF Running
  <2>3. ~Start /\ ~Open /\ ~Create /\ ~CopyChunk /\ ~CopyEnd /\ ~SyncCopy /\ ~OpenImage /\ ~GoAhead
    BY DEF Start, Open, Create, CopyChunk, CopyEnd, SyncCopy, OpenImage, GoAhead, Running
  <2>4. ~OpenFails /\ ~OpenImageFails /\ ~Unreadable /\ ~RefuseExisting /\ ~Fault /\ ~Kill
    BY DEF OpenFails, OpenImageFails, Unreadable, RefuseExisting, Fault, Kill, Fail, Finish
  <2>5. ~DryRun
    BY DEF DryRun
  <2>6. ~Fetched
    BY DEF Fetched, Running
  <2> QED BY <2>1, <2>2, <2>3, <2>4, <2>5, <2>6 DEF Next, Run
<1>2. /\ pc = "write" /\ ConfigOf(content[fd.img]) = Whole(req.data)
      /\ UNCHANGED <<name, content>>
  BY <1>1 DEF Written
<1>3. fd.img = name[Work] /\ Readable(content[fd.img]) /\ fd.img \in Inodes
  BY <1>2 DEF PInv, IInv, NamesType, Files, ImageApart, Injecting, Work
<1>4. PICK b \in Bases, c \in Configs \cup {NoConfig} : Part(content[fd.img], b, c)
  BY <1>3 DEF PInv, Images, ImageOrPart
<1>5. content[fd.img] = NewImage(b, Whole(req.data))
  BY <1>2, <1>3, <1>4, ReadableIsImage
<1> QED BY <1>2, <1>3, <1>5

\* A step that ends a command with an output in an error, without a call that
\* failed, finds its reason in the input.
LEMMA StepRefused ==
    ASSUME PInv, [Next]_vars, Running, outcome' = "error", ~hist'.struck, req.out, ~hist.fetched
    PROVE  \/ name["in"] = NoInode
           \/ ~Readable(content[name["in"]])
           \/ ConfigOf(content[name["in"]]) # NoConfig /\ ~req.force
<1>1. OpenFails \/ OpenImageFails \/ Unreadable \/ RefuseExisting
  <2>1. ~(UNCHANGED vars)
    BY DEF vars, Running
  <2>2. ~Write
    <3>1. Write => outcome' = outcome
      BY DEF Write, Store!Put, Store!Replace
    <3> QED BY <3>1 DEF Running
  <2>3. ~Start /\ ~Open /\ ~Create /\ ~CopyChunk /\ ~CopyEnd /\ ~SyncCopy /\ ~OpenImage /\ ~GoAhead
    BY DEF Start, Open, Create, CopyChunk, CopyEnd, SyncCopy, OpenImage, GoAhead, Running
  <2>4. ~DryRun /\ ~Written /\ ~Kill
    BY DEF DryRun, Written, Kill, Finish
  <2>5. ~Fetched
    BY DEF Fetched, Running
  <2>6. ~Fault
    <3>1. Fault => hist' = [hist EXCEPT !.faults = hist.faults + 1, !.struck = TRUE]
      BY DEF Fault
    <3> QED BY <3>1 DEF PInv, IInv, NamesType, Counted
  <2> QED BY <2>1, <2>2, <2>3, <2>4, <2>5, <2>6 DEF Next, Run
<1>2. CASE OpenFails
  BY <1>2 DEF OpenFails
<1>3. CASE OpenImageFails
  BY <1>3 DEF OpenImageFails, PInv, Injecting, Copied, Work
<1>4. CASE Unreadable \/ RefuseExisting
  <2>1. pc = "resolve" /\ fd.img = name[Work]
    BY <1>4 DEF Unreadable, RefuseExisting, PInv, Injecting
  <2>2. content[fd.img] = content[name["in"]]
    BY <2>1 DEF PInv, Injecting, Copied, Work
  <2> QED BY <1>4, <2>2 DEF Unreadable, RefuseExisting, Existing
<1> QED BY <1>1, <1>2, <1>3, <1>4

\* The invariant of what files hold holds in every reachable state.
THEOREM CopyFollows == StartsApart /\ StartsImages => (Spec => []PInv)
<1>1. StartsApart /\ StartsImages /\ Init => PInv
  BY InitPInv
<1>2. PInv /\ [Next]_vars => PInv'
  BY StepPInv
<1> QED BY <1>1, <1>2, PTL DEF Spec

\* Every variable keeps its type; a copy in progress has both files open and
\* has written as much as it has read (main.go).
THEOREM TypeCorrect == StartsApart /\ StartsImages => (Spec => []TypeOK)
<1>1. PInv => TypeOK
  BY DEF PInv, IInv, NamesType, Files, Rest, Images, Copying, Writing, TypeOK
<1> QED BY <1>1, CopyFollows, PTL

\* A command that reports success leaves a whole image, of one base, with the
\* config that was asked for under the name it was told: a copy also when a
\* download replaced the base while it was read (main.go, google.go).
THEOREM SuccessIsTagged == StartsApart /\ StartsImages => (Spec => OkMeansTagged)
<1>1. PInv /\ [Next]_vars =>
          [ Running /\ outcome' = "ok" /\ ~req.dry /\ (req.out \/ ~hist.fetched) =>
              \E b \in Bases : content'[name'[Work]] = NewImage(b, Whole(req.data)) ]_vars
  BY StepTagged
<1> QED BY <1>1, CopyFollows, PTL DEF Spec, OkMeansTagged

\* With -o only the input can be a reason to refuse, whatever earlier runs, cut
\* short anywhere, left under the output's name (main.go, google.go).
THEOREM RefusalIsTheInputs == StartsApart /\ StartsImages => (Spec => RefusedForTheInput)
<1>1. PInv /\ [Next]_vars =>
          [ Running /\ outcome' = "error" /\ ~hist'.struck /\ req.out /\ ~hist.fetched =>
              \/ name["in"] = NoInode
              \/ ~Readable(content[name["in"]])
              \/ ConfigOf(content[name["in"]]) # NoConfig /\ ~req.force ]_vars
  BY StepRefused
<1> QED BY <1>1, CopyFollows, PTL DEF Spec, RefusedForTheInput
=============================================================================
