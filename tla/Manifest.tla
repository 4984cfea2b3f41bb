----------------------------- MODULE Manifest -----------------------------
(***************************************************************************)
(* From the recovery manifest to the image that is fetched: FetchManifest, *)
(* ParseManifest and SelectChannel of manifest.go, under the commands list *)
(* and fetch (main.go) and download_flex_image (google.go).                *)
(*                                                                         *)
(* A manifest is a sequence of lines.  A line is blank, has no "=", or has *)
(* a key and a value, both trimmed.  What strings.ToUpper, ToLower and     *)
(* ParseInt do to a value, and what is left of one that is cut short, is   *)
(* given by functions on the values of the instance.  Of an image the name *)
(* and the version, which are only printed, are left out.                  *)
(***************************************************************************)
EXTENDS Integers, Sequences, FiniteSets

CONSTANTS
    Manifests,   \* what the server may have at the URL
    Strings,     \* keys and values
    Upper,       \* strings.ToUpper(strings.TrimSpace(s)), where it differs from s
    Lower,       \* strings.ToLower(s), where it differs from s
    Prefixes,    \* the trimmed beginnings of s
    Number,      \* strconv.ParseInt(s), where s is a number
    Channels,    \* what --channel may be
    MaxLines     \* the cap on the body, 4 MiB in the code: in this line it falls

Empty == ""
Line  == [kind: {"blank", "junk", "field"}, key: Strings, val: Strings]

ASSUME ManifestAssumption ==
    /\ Manifests \subseteq Seq(Line)
    /\ {Empty, "url", "file", "channel", "md5", "sha1", "zipfilesize", "filesize",
        "flex-image-usb.bin"} \subseteq Strings
    /\ DOMAIN Upper \subseteq Strings /\ \A s \in DOMAIN Upper : Upper[s] \in Strings
    /\ DOMAIN Lower \subseteq Strings /\ \A s \in DOMAIN Lower : Lower[s] \in Strings
    /\ Prefixes \in [Strings -> SUBSET Strings]
    /\ DOMAIN Number \subseteq Strings /\ \A s \in DOMAIN Number : Number[s] \in Int
    /\ Channels \subseteq Strings
    /\ MaxLines \in Nat \ {0}

VARIABLES
    pc,       \* where the command is
    cmd,      \* the command and its flags
    body,     \* history: the manifest at the URL, whole
    served,   \* as much of it as the cap lets through
    line,     \* lines scanned
    current,  \* the fields of the stanza being read
    images,   \* the images found
    broken,   \* the scanner stopped with an error
    result    \* the image to fetch and the path to write it to

vars == <<pc, cmd, body, served, line, current, images, broken, result>>

ToUpper(s) == IF s \in DOMAIN Upper THEN Upper[s] ELSE s
ToLower(s) == IF s \in DOMAIN Lower THEN Lower[s] ELSE s
atoi(s)    == IF s \in DOMAIN Number THEN Number[s] ELSE 0

Image    == [Channel: Strings, File: Strings, URL: Strings, MD5: Strings, SHA1: Strings,
             ZipFileSize: Int, FileSize: Int]
NoFields == [k \in Strings |-> Empty]
NoImage  == [Channel |-> Empty, File |-> Empty, URL |-> Empty, MD5 |-> Empty, SHA1 |-> Empty,
             ZipFileSize |-> 0, FileSize |-> 0]
NoResult == [image |-> NoImage, out |-> Empty]

Commands == [name: {"list"}, type: {"usb"}, channel: {Empty}, out: {Empty}]
    \cup [name: {"fetch"}, type: {"usb"}, channel: Channels, out: {Empty, "file"}]
    \cup [name: {"download"}, type: {"usb", "mass-deploy", Empty}, channel: Channels, out: {Empty, "file"}]

Places == {"start", "get", "scan", "parsed", "select", "listed", "fetching", "error"}

\* Every variable has its type, scanning never passes the body's end, and an
\* image has a place to come from and a name (manifest.go).
TypeOK ==
    /\ pc \in Places
    /\ cmd \in Commands
    /\ body \in Seq(Line) /\ served \in Seq(Line)
    /\ line \in 0 .. Len(served)
    /\ current \in [Strings -> Strings]
    /\ images \in Seq(Image)
    /\ \A i \in DOMAIN images : images[i].URL # Empty /\ images[i].File # Empty
    /\ broken \in BOOLEAN
    /\ result \in [image: Image, out: Strings]

Init ==
    /\ pc = "start"
    /\ cmd \in Commands
    /\ body = <<>> /\ served = <<>> /\ line = 0
    /\ current = NoFields /\ images = <<>>
    /\ broken = FALSE /\ result = NoResult

-----------------------------------------------------------------------------
\* cmdDownloadFlexImage: only the USB image is in the manifest.
TypeRefused ==
    /\ pc = "start" /\ cmd.type # "usb"
    /\ pc' = "error"
    /\ UNCHANGED <<cmd, body, served, line, current, images, broken, result>>

Begin ==
    /\ pc = "start" /\ cmd.type = "usb"
    /\ pc' = "get"
    /\ UNCHANGED <<cmd, body, served, line, current, images, broken, result>>

\* FetchManifest: no answer within a minute, or a status other than 200.
GetFails ==
    /\ pc = "get"
    /\ pc' = "error"
    /\ UNCHANGED <<cmd, body, served, line, current, images, broken, result>>

\* What is left of a line cut after any of its bytes: nothing, something with no
\* "=", or the key with a shorter value.
Torn(l) ==
    {[kind |-> "blank", key |-> Empty, val |-> Empty]}
    \cup (IF l.kind = "blank" THEN {} ELSE {[kind |-> "junk", key |-> Empty, val |-> Empty]})
    \cup (IF l.kind = "field" THEN {[l EXCEPT !.val = v] : v \in Prefixes[l.val]} ELSE {})

\* io.LimitReader counts bytes and reports no error.
Capped(m) ==
    IF Len(m) <= MaxLines THEN {m}
    ELSE {Append(SubSeq(m, 1, MaxLines - 1), l) : l \in Torn(m[MaxLines]) \cup {m[MaxLines]}}

Get ==
    /\ pc = "get"
    /\ \E m \in Manifests : body' = m /\ served' \in Capped(m)
    /\ pc' = "scan"
    /\ UNCHANGED <<cmd, line, current, images, broken, result>>

-----------------------------------------------------------------------------
(* ParseManifest.                                                          *)

imageFromFields(f) ==
    [Channel |-> ToUpper(f["channel"]), File |-> f["file"], URL |-> f["url"],
     MD5 |-> ToLower(f["md5"]), SHA1 |-> ToLower(f["sha1"]),
     ZipFileSize |-> atoi(f["zipfilesize"]), FileSize |-> atoi(f["filesize"])]

IsImageOfEither(f) == f["url"] # Empty \/ f["file"] # Empty
IsImage(f) == f["url"] # Empty /\ f["file"] # Empty

Flushed == IF IsImage(current) THEN Append(images, imageFromFields(current)) ELSE images

Scanning == pc = "scan" /\ line < Len(served)
Next1    == served[line + 1]

AfterFlushKept == current
AfterFlush == NoFields

ScanBlank ==
    /\ Scanning /\ Next1.kind = "blank"
    /\ images' = Flushed /\ current' = AfterFlush
    /\ line' = line + 1
    /\ UNCHANGED <<pc, cmd, body, served, broken, result>>

\* "tolerate junk rather than failing the whole parse"
ScanJunk ==
    /\ Scanning /\ Next1.kind = "junk"
    /\ line' = line + 1
    /\ UNCHANGED <<pc, cmd, body, served, current, images, broken, result>>

ScanField ==
    /\ Scanning /\ Next1.kind = "field"
    /\ current' = [current EXCEPT ![Next1.key] = Next1.val]
    /\ line' = line + 1
    /\ UNCHANGED <<pc, cmd, body, served, images, broken, result>>

\* The last stanza needs no blank line after it.
ScanEnd ==
    /\ pc = "scan" /\ line = Len(served)
    /\ images' = Flushed /\ current' = AfterFlush
    /\ pc' = "parsed"
    /\ UNCHANGED <<cmd, body, served, line, broken, result>>

\* The connection breaks, or a line is longer than the scanner takes: what was
\* read is flushed all the same.
ScanBreaks ==
    /\ pc = "scan"
    /\ broken' = TRUE
    /\ images' = Flushed /\ current' = AfterFlush
    /\ pc' = "parsed"
    /\ UNCHANGED <<cmd, body, served, line, result>>

ScanErr == broken \/ images = <<>>

ParseFails ==
    /\ pc = "parsed" /\ ScanErr
    /\ pc' = "error"
    /\ UNCHANGED <<cmd, body, served, line, current, images, broken, result>>

Parsed ==
    /\ pc = "parsed" /\ ~ScanErr
    /\ pc' = IF cmd.name = "list" THEN "listed" ELSE "select"
    /\ UNCHANGED <<cmd, body, served, line, current, images, broken, result>>

-----------------------------------------------------------------------------
(* SelectChannel, and the path Fetch will write.                           *)

OnChannel == {i \in DOMAIN images : images[i].Channel = ToUpper(cmd.channel)}

FirstOf(S) == CHOOSE i \in S : \A j \in S : i <= j
LastOf(S)  == CHOOSE i \in S : \A j \in S : j <= i
PickLast(S) == LastOf(S)
Pick(S)     == FirstOf(S)

\* fetch falls back to the manifest's file name (in Fetch), download to a name
\* of its own.
OutPath(im) ==
    IF cmd.out # Empty THEN cmd.out
    ELSE IF cmd.name = "download" THEN "flex-image-usb.bin" ELSE im.File

Select ==
    /\ pc = "select" /\ OnChannel # {}
    /\ result' = [image |-> images[Pick(OnChannel)], out |-> OutPath(images[Pick(OnChannel)])]
    /\ pc' = "fetching"
    /\ UNCHANGED <<cmd, body, served, line, current, images, broken>>

SelectFails ==
    /\ pc = "select" /\ OnChannel = {}
    /\ pc' = "error"
    /\ UNCHANGED <<cmd, body, served, line, current, images, broken, result>>

Step ==
    \/ TypeRefused \/ Begin \/ GetFails \/ Get
    \/ ScanBlank \/ ScanJunk \/ ScanField \/ ScanEnd \/ ScanBreaks
    \/ ParseFails \/ Parsed \/ Select \/ SelectFails

Spec == Init /\ [][Step]_vars

-----------------------------------------------------------------------------
(* Properties.  The reference: a stanza is a longest run of lines that are *)
(* not blank; a key given twice has its last value.                        *)

Stanza(ls, i, j) ==
    /\ \A k \in i .. j : ls[k].kind # "blank"
    /\ i > 1 => ls[i - 1].kind = "blank"
    /\ j < Len(ls) => ls[j + 1].kind = "blank"
LinesWith(ls, i, j, key) == {k \in i .. j : ls[k].kind = "field" /\ ls[k].key = key}
Value(ls, i, j, key) ==
    IF LinesWith(ls, i, j, key) = {} THEN Empty ELSE ls[LastOf(LinesWith(ls, i, j, key))].val
Described(ls, i, j) == imageFromFields([k \in Strings |-> Value(ls, i, j, k)])

\* Where each image of the lines ls begins and ends: "we keep any stanza that
\* has both url and file" (manifest.go:61).
Stanzas(ls) ==
    {s \in (1 .. Len(ls)) \X (1 .. Len(ls)) :
        /\ s[1] <= s[2] /\ Stanza(ls, s[1], s[2])
        /\ Value(ls, s[1], s[2], "url") # Empty /\ Value(ls, s[1], s[2], "file") # Empty}
Before(ls, s) == {t \in Stanzas(ls) : t[1] < s[1]}

\* ParseManifest finds exactly the images the body read has, in its order, each
\* with the values of its own stanza, wherever the preamble and junk are.  Of a
\* manifest that broke off it returns none, though it has flushed the stanza it
\* was in: list would show half a manifest, and its hint takes the first image
\* there is (main.go:120).
ImagesAreStanzas ==
    pc \in {"select", "listed", "fetching"} =>
        /\ ~broken /\ images # <<>>
        /\ Len(images) = Cardinality(Stanzas(served))
        /\ \A s \in Stanzas(served) :
              images[Cardinality(Before(served, s)) + 1] = Described(served, s[1], s[2])

\* The cap cuts a manifest without an error (manifest.go:54).  It costs its end and
\* no more: every image whose stanza ends before the cut is found with its own
\* values and in its place, and what is left of the stanza across the cut makes
\* one image more at most.
CutSparesTheRest ==
    pc \in {"select", "listed", "fetching"} =>
        LET whole == {s \in Stanzas(body) : s[2] < Len(served)}
        IN  /\ \A s \in whole :
                  images[Cardinality(Before(body, s)) + 1] = Described(body, s[1], s[2])
            /\ Len(images) <= Cardinality(whole) + 1

\* What is fetched is the first image of the body read for the channel asked
\* for, however its name is spelled, and it has a place to come from and to go.
FetchesTheChannel ==
    pc = "fetching" =>
        /\ \E s \in Stanzas(served) :
              /\ result.image = Described(served, s[1], s[2])
              /\ result.image.Channel = ToUpper(cmd.channel)
              /\ \A t \in Before(served, s) :
                    Described(served, t[1], t[2]).Channel # ToUpper(cmd.channel)
        /\ result.image.URL # Empty /\ result.out # Empty
=============================================================================
