---------------------------- MODULE ManifestProofs ----------------------------
(***************************************************************************)
(* Proofs about Manifest, for any manifests, whatever their length, and    *)
(* any spelling of the channels.                                           *)
(***************************************************************************)
EXTENDS Manifest, SequenceTheorems, FiniteSetTheorems, NatFacts, TLAPS

\* What the variables hold besides.
Typed ==
    /\ pc \in Places /\ cmd \in Commands
    /\ served \in Seq(Line) /\ line \in 0 .. Len(served)
    /\ current \in [Strings -> Strings]
    /\ images \in Seq(Image)
    /\ \A i \in 1 .. Len(images) : images[i].URL # Empty /\ images[i].File # Empty
    /\ broken \in BOOLEAN
    /\ result \in [image: Image, out: Strings]

\* The stanzas that end before line b.
Ended(b) == {t \in Stanzas(served) : t[2] < b}

\* ims are the images of the stanzas S, in their order.
Found(ims, S) ==
    /\ Len(ims) = Cardinality(S)
    /\ \A s \in S :
          /\ Cardinality(Before(served, s)) + 1 \in 1 .. Len(ims)
          /\ ims[Cardinality(Before(served, s)) + 1] = Described(served, s[1], s[2])
    /\ \A i \in 1 .. Len(ims) : \E s \in S : i = Cardinality(Before(served, s)) + 1

\* Of l lines scanned those from b on are not blank, and the line before is:
\* f has their values, and ims the stanzas before.
Scanned(b, l, f, ims) ==
    /\ b \in 1 .. l + 1
    /\ b > 1 => served[b - 1].kind = "blank"
    /\ \A k \in b .. l : served[k].kind # "blank"
    /\ f = [k \in Strings |-> Value(served, b, l, k)]
    /\ Found(ims, Ended(b))

Scan ==
    /\ pc \in {"start", "get"} => line = 0 /\ current = NoFields /\ images = <<>>
    /\ pc \in {"start", "get", "scan"} => ~broken
    /\ pc = "scan" => \E b \in 1 .. line + 1 : Scanned(b, line, current, images)
    /\ pc \in {"parsed", "select", "listed", "fetching"} => broken \/ Found(images, Stanzas(served))
    /\ pc \in {"select", "listed", "fetching"} => ~broken /\ images # <<>>

MInv == Typed /\ Scan /\ FetchesTheChannel

-----------------------------------------------------------------------------
(* Values and stanzas.                                                     *)

\* The last of numbers, if there is one, is what LastOf gives.
LEMMA LastIs ==
    ASSUME NEW S \in SUBSET Nat, NEW n \in S, \A m \in S : m <= n
    PROVE  LastOf(S) = n
<1>1. \A i \in S : (\A j \in S : j <= i) => i = n
  OBVIOUS
<1> QED BY <1>1 DEF LastOf

\* The first of numbers is one of them and before the others.
LEMMA FirstIs ==
    ASSUME NEW S \in SUBSET Nat, S # {}
    PROVE  FirstOf(S) \in S /\ \A j \in S : FirstOf(S) <= j
<1>1. \E n \in S : \A m \in S : n <= m
  BY Least
<1> QED BY <1>1 DEF FirstOf

\* The value of a key in some lines is a string, empty where no line has it.
LEMMA ValueType ==
    ASSUME served \in Seq(Line), NEW i \in Nat \ {0}, NEW j \in 0 .. Len(served), NEW key \in Strings
    PROVE  Value(served, i, j, key) \in Strings
<1> DEFINE T == LinesWith(served, i, j, key)
<1>0. Len(served) \in Nat
  BY LenProperties
<1>1. T \in SUBSET Nat /\ j \in Nat /\ \A k \in T : k <= j /\ k \in 1 .. Len(served)
  BY <1>0 DEF LinesWith
<1>2. CASE T = {}
  BY <1>2, ManifestAssumption DEF Value
<1>3. CASE T # {}
  <2>1. PICK n \in T : \A m \in T : m <= n
    <3> HIDE DEF T
    <3> QED BY <1>1, <1>3, Greatest
  <2>2. LastOf(T) = n
    <3> HIDE DEF T
    <3> QED BY <1>1, <2>1, LastIs
  <2>3. served[n] \in Line
    BY <1>1, ElementOfSeq
  <2> QED BY <1>3, <2>2, <2>3 DEF Value, Line
<1> QED BY <1>2, <1>3

\* Of no lines every value is empty.
LEMMA ValueOfNone ==
    ASSUME NEW i \in Int, NEW j \in Int, j < i, NEW key PROVE Value(served, i, j, key) = Empty
BY DEF Value, LinesWith

\* One more line changes the value of the key it has, and no other.
LEMMA ValueNext ==
    ASSUME NEW i \in Nat \ {0}, NEW j \in Nat, i <= j + 1, NEW key
    PROVE  Value(served, i, j + 1, key) =
              IF served[j + 1].kind = "field" /\ served[j + 1].key = key
              THEN served[j + 1].val ELSE Value(served, i, j, key)
<1>1. CASE served[j + 1].kind = "field" /\ served[j + 1].key = key
  <2> DEFINE T == LinesWith(served, i, j + 1, key)
  <2>1. T \in SUBSET Nat /\ j + 1 \in T /\ \A m \in T : m <= j + 1
    BY <1>1 DEF LinesWith
  <2>2. LastOf(T) = j + 1 /\ T # {}
    <3> HIDE DEF T
    <3> QED BY <2>1, LastIs
  <2> QED BY <1>1, <2>2 DEF Value
<1>2. CASE ~(served[j + 1].kind = "field" /\ served[j + 1].key = key)
  <2>1. LinesWith(served, i, j + 1, key) = LinesWith(served, i, j, key)
    BY <1>2 DEF LinesWith
  <2> QED BY <1>2, <2>1 DEF Value
<1> QED BY <1>1, <1>2

\* What is described has the type of an image, with the values of its lines.
LEMMA ImageType ==
    ASSUME NEW f \in [Strings -> Strings]
    PROVE  /\ imageFromFields(f) \in Image
           /\ imageFromFields(f).URL = f["url"] /\ imageFromFields(f).File = f["file"]
<1>1. \A t \in Strings : ToUpper(t) \in Strings /\ ToLower(t) \in Strings /\ atoi(t) \in Int
  BY ManifestAssumption DEF ToUpper, ToLower, atoi
<1>2. {"url", "file", "channel", "md5", "sha1", "zipfilesize", "filesize"} \subseteq Strings
  BY ManifestAssumption
<1> QED BY <1>1, <1>2 DEF imageFromFields, Image

\* Stanzas are finitely many, and so are those before one.
LEMMA StanzasFinite ==
    ASSUME served \in Seq(Line) PROVE IsFiniteSet(Stanzas(served))
<1> DEFINE D == 1 .. Len(served)
<1>1. IsFiniteSet(D)
  BY LenProperties, FS_Interval
<1>2. Stanzas(served) \in SUBSET (D \X D)
  BY DEF Stanzas
<1> HIDE DEF D
<1>3. IsFiniteSet(D \X D)
  BY <1>1, FS_Product
<1> QED BY <1>2, <1>3, FS_Subset

\* Any set of stanzas is finite.
LEMMA Counts ==
    ASSUME served \in Seq(Line), NEW T \in SUBSET Stanzas(served)
    PROVE  IsFiniteSet(T) /\ Cardinality(T) \in Nat
<1>1. IsFiniteSet(T)
  BY StanzasFinite, FS_Subset
<1> QED BY <1>1, FS_CardinalityType

\* A stanza is two numbers of lines of the manifest, and ends as it begins.
LEMMA StanzaLines ==
    ASSUME served \in Seq(Line), NEW t \in Stanzas(served)
    PROVE  /\ t = <<t[1], t[2]>> /\ t[1] \in 1 .. Len(served) /\ t[2] \in 1 .. Len(served)
           /\ t[1] <= t[2] /\ Stanza(served, t[1], t[2])
BY DEF Stanzas

\* Stanzas do not overlap: one that begins before line b, where b begins a
\* stanza, ends before it.
LEMMA Apart ==
    ASSUME served \in Seq(Line), NEW b \in 1 .. Len(served) + 1,
           b > 1 => served[b - 1].kind = "blank", NEW t \in Stanzas(served)
    PROVE  t[1] < b <=> t[2] < b
<1>1. /\ t[1] \in Nat /\ t[2] \in Nat /\ 1 <= t[1] /\ t[1] <= t[2]
      /\ \A k \in t[1] .. t[2] : served[k].kind # "blank"
  BY StanzaLines, LenProperties DEF Stanza
<1>2. b \in Nat
  BY LenProperties
<1>3. ASSUME t[1] < b, b <= t[2] PROVE FALSE
  <2>1. b - 1 \in t[1] .. t[2] /\ b > 1
    BY <1>1, <1>2, <1>3
  <2> QED BY <1>1, <2>1
<1> QED BY <1>1, <1>2, <1>3

\* Of two stanzas the one that begins first has fewer before it.
LEMMA FewerBefore ==
    ASSUME served \in Seq(Line), NEW s \in Stanzas(served), NEW t \in Before(served, s)
    PROVE  Cardinality(Before(served, t)) < Cardinality(Before(served, s))
<1>1. /\ s[1] \in Nat /\ t[1] \in Nat /\ t \in Stanzas(served) /\ t[1] < s[1]
  BY StanzaLines, LenProperties DEF Before
<1>2. \A r \in Stanzas(served) : r[1] \in Nat
  BY StanzaLines, LenProperties
<1>3. Before(served, t) \in SUBSET Before(served, s) /\ t \notin Before(served, t)
  BY <1>1, <1>2 DEF Before
<1>4. Before(served, s) \in SUBSET Stanzas(served) /\ Before(served, t) \in SUBSET Stanzas(served)
  BY DEF Before
<1>5. /\ IsFiniteSet(Before(served, s))
      /\ Cardinality(Before(served, s)) \in Nat /\ Cardinality(Before(served, t)) \in Nat
  BY <1>4, Counts
<1>6. /\ Cardinality(Before(served, t)) <= Cardinality(Before(served, s))
      /\ Cardinality(Before(served, s)) = Cardinality(Before(served, t)) => Before(served, s) = Before(served, t)
  BY <1>3, <1>5, FS_Subset
<1> QED BY <1>3, <1>5, <1>6

\* The image of the stanza that comes after S is found after those of S.
LEMMA FoundNext ==
    ASSUME served \in Seq(Line), NEW ims \in Seq(Image), NEW S \in SUBSET Stanzas(served), Found(ims, S),
           NEW s \in Stanzas(served), s \notin S, Before(served, s) = S,
           NEW im \in Image, im = Described(served, s[1], s[2])
    PROVE  Found(Append(ims, im), S \cup {s})
<1> DEFINE jms == Append(ims, im)
<1>1. /\ jms \in Seq(Image) /\ Len(jms) = Len(ims) + 1 /\ jms[Len(ims) + 1] = im
      /\ \A i \in 1 .. Len(ims) : jms[i] = ims[i]
  BY AppendProperties
<1> HIDE DEF jms
<1>2. IsFiniteSet(S) /\ Cardinality(S) \in Nat /\ Len(ims) = Cardinality(S)
  BY Counts DEF Found
<1>3. Cardinality(S \cup {s}) = Cardinality(S) + 1
  BY <1>2, FS_AddElement
<1>4. /\ Cardinality(Before(served, s)) + 1 \in 1 .. Len(jms)
      /\ jms[Cardinality(Before(served, s)) + 1] = Described(served, s[1], s[2])
  BY <1>1, <1>2
<1>5. ASSUME NEW t \in S
      PROVE  /\ Cardinality(Before(served, t)) + 1 \in 1 .. Len(jms)
             /\ jms[Cardinality(Before(served, t)) + 1] = Described(served, t[1], t[2])
  <2>1. /\ Cardinality(Before(served, t)) + 1 \in 1 .. Len(ims)
        /\ ims[Cardinality(Before(served, t)) + 1] = Described(served, t[1], t[2])
    BY DEF Found
  <2> QED BY <1>1, <1>2, <2>1
<1>6. ASSUME NEW i \in 1 .. Len(jms) PROVE \E t \in S \cup {s} : i = Cardinality(Before(served, t)) + 1
  <2>1. CASE i = Len(ims) + 1
    BY <1>2, <2>1
  <2>2. CASE i \in 1 .. Len(ims)
    BY <2>2 DEF Found
  <2> QED BY <1>1, <1>2, <2>1, <2>2
<1>7. Len(jms) = Cardinality(S \cup {s})
  BY <1>1, <1>2, <1>3
<1>8. Found(jms, S \cup {s})
  BY <1>4, <1>5, <1>6, <1>7 DEF Found
<1> QED BY <1>8 DEF jms

\* The stanza in progress ends with the line scanned last: then flushing it
\* makes the images those of the stanzas that have ended.
LEMMA FlushFound ==
    ASSUME served \in Seq(Line), images \in Seq(Image), current \in [Strings -> Strings],
           line \in 0 .. Len(served), NEW b \in 1 .. line + 1,
           Scanned(b, line, current, images),
           line < Len(served) => served[line + 1].kind = "blank"
    PROVE  Found(Flushed, Ended(line + 2))
<1> DEFINE s == <<b, line>>
<1>t. /\ Len(served) \in Nat /\ line \in Nat /\ b \in Nat \ {0} /\ b <= line + 1
      /\ line <= Len(served) /\ b \in 1 .. Len(served) + 1
  BY LenProperties
<1>1. /\ b > 1 => served[b - 1].kind = "blank"
      /\ \A k \in b .. line : served[k].kind # "blank"
      /\ current = [k \in Strings |-> Value(served, b, line, k)]
      /\ Found(images, Ended(b))
  BY DEF Scanned
<1>2. current["url"] = Value(served, b, line, "url") /\ current["file"] = Value(served, b, line, "file")
  BY <1>1, ManifestAssumption
<1>3. IsImage(current) => b <= line
  <2>1. b > line => Value(served, b, line, "url") = Empty
    BY <1>t, ValueOfNone
  <2> QED BY <1>t, <1>2, <2>1 DEF IsImage
<1>4. b <= line => Stanza(served, b, line)
  BY <1>t, <1>1 DEF Stanza
<1>5. IsImage(current) => s \in Stanzas(served)
  BY <1>t, <1>2, <1>3, <1>4 DEF IsImage, Stanzas
<1>6. ASSUME NEW t \in Stanzas(served), t[2] < line + 2, ~(t[2] < b) PROVE t = s /\ IsImage(current)
  <2>1. /\ t = <<t[1], t[2]>> /\ t[1] \in Nat /\ t[2] \in Nat /\ 1 <= t[1] /\ t[1] <= t[2]
        /\ t[2] <= Len(served) /\ Stanza(served, t[1], t[2])
    BY <1>t, StanzaLines
  <2>2. b <= t[1]
    BY <1>t, <1>1, <1>6, <2>1, Apart
  <2>3. t[2] <= line
    <3>1. CASE t[2] = line + 1
      <4>1. served[t[2]].kind # "blank"
        BY <2>1 DEF Stanza
      <4> QED BY <1>t, <2>1, <3>1, <4>1
    <3> QED BY <1>t, <1>6, <2>1, <3>1
  <2>4. t[1] = b
    <3>1. CASE b < t[1]
      <4>1. served[t[1] - 1].kind = "blank" /\ t[1] - 1 \in b .. line
        BY <1>t, <2>1, <2>3, <3>1 DEF Stanza
      <4> QED BY <1>1, <4>1
    <3> QED BY <1>t, <2>1, <2>2, <3>1
  <2>5. t[2] = line
    <3>1. CASE t[2] < line
      <4>1. served[t[2] + 1].kind = "blank" /\ t[2] + 1 \in b .. line
        BY <1>t, <2>1, <2>4, <3>1 DEF Stanza
      <4> QED BY <1>1, <4>1
    <3> QED BY <1>t, <2>1, <2>3, <3>1
  <2>6. t = s
    BY <2>1, <2>4, <2>5
  <2>7. Value(served, t[1], t[2], "url") # Empty /\ Value(served, t[1], t[2], "file") # Empty
    BY DEF Stanzas
  <2> QED BY <1>2, <2>4, <2>5, <2>6, <2>7 DEF IsImage
<1>7. \A t \in Stanzas(served) : t[2] \in Nat
  BY <1>t, StanzaLines
<1>8. CASE IsImage(current)
  <2>1. s \in Stanzas(served) /\ s \notin Ended(b)
    BY <1>t, <1>3, <1>5, <1>8 DEF Ended
  <2>2. Ended(line + 2) = Ended(b) \cup {s}
    <3>1. \A t \in Ended(line + 2) : t \in Ended(b) \cup {s}
      BY <1>6 DEF Ended
    <3>2. \A t \in Ended(b) : t \in Ended(line + 2)
      BY <1>t, <1>7 DEF Ended
    <3>3. s \in Ended(line + 2)
      BY <1>t, <2>1 DEF Ended
    <3> QED BY <3>1, <3>2, <3>3
  <2>3. Before(served, s) = Ended(b)
    BY <1>t, <1>1, Apart DEF Before, Ended
  <2>4. imageFromFields(current) = Described(served, s[1], s[2]) /\ imageFromFields(current) \in Image
    BY <1>1, ImageType DEF Described
  <2>5. Ended(b) \in SUBSET Stanzas(served) /\ Found(images, Ended(b))
    BY <1>1 DEF Ended
  <2>6. Flushed = Append(images, imageFromFields(current))
    BY <1>8 DEF Flushed
  <2> DEFINE im == imageFromFields(current)
  <2> HIDE DEF s, im
  <2>7. Found(Append(images, im), Ended(b) \cup {s})
    BY <2>1, <2>3, <2>4, <2>5, FoundNext DEF im
  <2> QED BY <2>2, <2>6, <2>7 DEF im
<1>9. CASE ~IsImage(current)
  <2>1. Ended(line + 2) = Ended(b)
    <3>1. \A t \in Ended(line + 2) : t \in Ended(b)
      BY <1>6, <1>9 DEF Ended
    <3>2. \A t \in Ended(b) : t \in Ended(line + 2)
      BY <1>t, <1>7 DEF Ended
    <3> QED BY <3>1, <3>2
  <2> QED BY <1>1, <1>9, <2>1 DEF Flushed
<1> QED BY <1>8, <1>9

\* Flushing keeps images images.
LEMMA FlushedType ==
    ASSUME images \in Seq(Image), current \in [Strings -> Strings],
           \A i \in 1 .. Len(images) : images[i].URL # Empty /\ images[i].File # Empty
    PROVE  /\ Flushed \in Seq(Image)
           /\ \A i \in 1 .. Len(Flushed) : Flushed[i].URL # Empty /\ Flushed[i].File # Empty
<1>1. CASE ~IsImage(current)
  BY <1>1 DEF Flushed
<1>2. CASE IsImage(current)
  <2> DEFINE im == imageFromFields(current)
             jms == Append(images, im)
  <2>1. im \in Image /\ im.URL # Empty /\ im.File # Empty
    BY <1>2, ImageType DEF IsImage
  <2>2. Flushed = jms
    BY <1>2 DEF Flushed
  <2> HIDE DEF im
  <2>3. /\ jms \in Seq(Image) /\ Len(jms) = Len(images) + 1 /\ jms[Len(images) + 1] = im
        /\ \A i \in 1 .. Len(images) : jms[i] = images[i]
    BY <2>1, AppendProperties
  <2>4. Len(images) \in Nat
    BY LenProperties
  <2> HIDE DEF jms
  <2>5. \A i \in 1 .. Len(jms) : jms[i].URL # Empty /\ jms[i].File # Empty
    <3>1. \A i \in 1 .. Len(jms) : i \in 1 .. Len(images) \/ i = Len(images) + 1
      BY <2>3, <2>4
    <3> QED BY <2>1, <2>3, <3>1
  <2> QED BY <2>2, <2>3, <2>5
<1> QED BY <1>1, <1>2

-----------------------------------------------------------------------------
(* Steps.                                                                  *)

\* A step that keeps the body keeps its stanzas and their values.
LEMMA ServedKept ==
    ASSUME served' = served
    PROVE  /\ Stanzas(served)' = Stanzas(served)
           /\ \A s : Before(served, s)' = Before(served, s)
           /\ \A i, j, key : Value(served, i, j, key)' = Value(served, i, j, key)
           /\ \A i, j : Described(served, i, j)' = Described(served, i, j)
<1>1. \A i, j, key : LinesWith(served, i, j, key)' = LinesWith(served, i, j, key)
  BY DEF LinesWith
<1>2. \A i, j, key : Value(served, i, j, key)' = Value(served, i, j, key)
  BY <1>1 DEF Value
<1>3. \A i, j : Described(served, i, j)' = Described(served, i, j)
  BY <1>2 DEF Described
<1>4. \A i, j : Stanza(served, i, j)' = Stanza(served, i, j)
  BY DEF Stanza
<1>5. Stanzas(served)' = Stanzas(served)
  BY <1>2, <1>4 DEF Stanzas
<1>6. \A s : Before(served, s)' = Before(served, s)
  BY <1>5 DEF Before
<1> QED BY <1>2, <1>3, <1>5, <1>6

\* So images found before it are found after it.
LEMMA FoundKept ==
    ASSUME served' = served
    PROVE  /\ Found(images', Stanzas(served)) => Found(images, Stanzas(served))'
           /\ \A b : Found(images', Ended(b)) => Found(images, Ended(b))'
<1>1. /\ Stanzas(served)' = Stanzas(served)
      /\ \A s : Before(served, s)' = Before(served, s)
      /\ \A i, j : Described(served, i, j)' = Described(served, i, j)
  BY ServedKept
<1>2. \A b : Ended(b)' = Ended(b)
  BY <1>1 DEF Ended
<1>3. Found(images', Stanzas(served)) => Found(images, Stanzas(served))'
  BY <1>1 DEF Found
<1>4. \A b : Found(images', Ended(b)) => Found(images, Ended(b))'
  BY <1>1, <1>2 DEF Found
<1> QED BY <1>3, <1>4

\* A step that does not touch what is fetched keeps the property of it.
LEMMA ChosenKept ==
    ASSUME FetchesTheChannel, UNCHANGED <<cmd, body, served, result>>, pc' = "fetching" => pc = "fetching"
    PROVE  FetchesTheChannel'
<1>1. /\ Stanzas(served)' = Stanzas(served)
      /\ \A s : Before(served, s)' = Before(served, s)
      /\ \A i, j : Described(served, i, j)' = Described(served, i, j)
  BY ServedKept
<1> QED BY <1>1 DEF FetchesTheChannel

\* At first nothing is served.
LEMMA InitMInv == ASSUME Init PROVE MInv
<1>1. NoFields \in [Strings -> Strings] /\ NoImage \in Image
  BY ManifestAssumption DEF NoFields, NoImage, Image
<1>2. NoResult \in [image: Image, out: Strings]
  BY <1>1, ManifestAssumption DEF NoResult
<1>3. <<>> \in Seq(Line) /\ <<>> \in Seq(Image) /\ Len(<<>>) = 0
  BY EmptySeq
<1>4. Typed
  <2>1. /\ pc = "start" /\ cmd \in Commands /\ served = <<>> /\ line = 0 /\ current = NoFields
        /\ images = <<>> /\ broken = FALSE /\ result = NoResult
    BY DEF Init
  <2>2. line \in 0 .. Len(served) /\ 1 .. Len(images) = {}
    BY <1>3, <2>1
  <2>3. pc \in Places
    BY <2>1 DEF Places
  <2>4. broken \in BOOLEAN
    BY <2>1
  <2> QED BY <1>1, <1>2, <1>3, <2>1, <2>2, <2>3, <2>4 DEF Typed
<1> QED BY <1>4 DEF Init, MInv, Scan, FetchesTheChannel

\* A cut body is lines, no more than were there; all but the last are as they
\* were, and the last is blank if it was.
LEMMA CappedLines ==
    ASSUME NEW m \in Seq(Line), NEW c \in Capped(m)
    PROVE  /\ c \in Seq(Line) /\ Len(c) <= Len(m)
           /\ \A k \in 1 .. Len(c) - 1 : c[k] = m[k]
           /\ Len(c) > 0 /\ m[Len(c)].kind = "blank" => c[Len(c)].kind = "blank"
<1>1. Len(m) \in Nat /\ MaxLines \in Nat \ {0}
  BY ManifestAssumption, LenProperties
<1>2. CASE Len(m) <= MaxLines
  BY <1>1, <1>2 DEF Capped
<1>3. CASE ~(Len(m) <= MaxLines)
  <2> DEFINE h == SubSeq(m, 1, MaxLines - 1)
  <2>1. PICK l \in Torn(m[MaxLines]) \cup {m[MaxLines]} : c = Append(h, l)
    BY <1>3 DEF Capped
  <2>2. m[MaxLines] \in Line
    BY <1>1, <1>3, ElementOfSeq
  <2>3. l \in Line /\ (m[MaxLines].kind = "blank" => l.kind = "blank")
    <3>1. \A t \in Torn(m[MaxLines]) : t \in Line /\ (m[MaxLines].kind = "blank" => t.kind = "blank")
      <4> SUFFICES ASSUME NEW t \in Torn(m[MaxLines])
                   PROVE  t \in Line /\ (m[MaxLines].kind = "blank" => t.kind = "blank")
        OBVIOUS
      <4>1. CASE t = [kind |-> "blank", key |-> Empty, val |-> Empty]
        BY <4>1, ManifestAssumption DEF Line
      <4>2. CASE m[MaxLines].kind # "blank" /\ t = [kind |-> "junk", key |-> Empty, val |-> Empty]
        BY <4>2, ManifestAssumption DEF Line
      <4>3. CASE m[MaxLines].kind = "field" /\ \E v \in Prefixes[m[MaxLines].val] : t = [m[MaxLines] EXCEPT !.val = v]
        <5>1. m[MaxLines].val \in Strings
          BY <2>2 DEF Line
        <5>2. Prefixes[m[MaxLines].val] \subseteq Strings
          BY <5>1, ManifestAssumption
        <5> QED BY <2>2, <4>3, <5>2 DEF Line
      <4> QED BY <4>1, <4>2, <4>3 DEF Torn
    <3> QED BY <2>1, <2>2, <3>1
  <2>4. h \in Seq(Line) /\ Len(h) = MaxLines - 1 /\ \A k \in 1 .. MaxLines - 1 : h[k] = m[k]
    <3>1. \A k \in 1 .. MaxLines - 1 : m[k] \in Line
      BY <1>1, <1>3, ElementOfSeq
    <3> QED BY <1>1, <1>3, <3>1, SubSeqProperties
  <2> HIDE DEF h
  <2>5. /\ c \in Seq(Line) /\ Len(c) = Len(h) + 1 /\ c[Len(h) + 1] = l
        /\ \A k \in 1 .. Len(h) : c[k] = h[k]
    BY <2>1, <2>3, <2>4, AppendProperties
  <2>6. Len(c) = MaxLines /\ c[MaxLines] = l /\ \A k \in 1 .. MaxLines - 1 : c[k] = m[k]
    BY <1>1, <2>4, <2>5
  <2> QED BY <1>1, <1>3, <2>3, <2>5, <2>6
<1> QED BY <1>2, <1>3

\* No line is scanned of what the server gives.
LEMMA GetMInv == ASSUME MInv, Get PROVE MInv'
<1>1. PICK m \in Manifests : served' \in Capped(m)
  BY DEF Get
<1>2. /\ pc = "get" /\ pc' = "scan" /\ UNCHANGED <<cmd, line, current, images, broken, result>>
  BY DEF Get
<1>3. line = 0 /\ current = NoFields /\ images = <<>> /\ ~broken
  BY <1>2 DEF MInv, Scan
<1>4. served' \in Seq(Line)
  BY <1>1, CappedLines, ManifestAssumption
<1>5. Len(served') \in Nat
  BY <1>4, LenProperties
<1>6. Typed'
  BY <1>2, <1>3, <1>4, <1>5 DEF MInv, Typed, Places
<1>7. \A key : Value(served, 1, 0, key)' = Empty
  BY DEF Value, LinesWith
<1>8. Ended(1)' = {}
  <2>1. \A t \in Stanzas(served)' : t[2] \in Nat /\ t[2] >= 1
    BY <1>5 DEF Stanzas
  <2> QED BY <2>1 DEF Ended
<1>9. Found(images, Ended(1))'
  BY <1>2, <1>3, <1>8, FS_EmptySet, EmptySeq DEF Found
<1>10. Scanned(1, 0, current, images)'
  <2>1. NoFields = [k \in Strings |-> Value(served, 1, 0, k)']
    BY <1>7 DEF NoFields
  <2> QED BY <1>2, <1>3, <1>9, <2>1 DEF Scanned
<1>11. Scan'
  <2>1. line' = 0
    BY <1>2, <1>3
  <2>2. Scanned(1, line, current, images)'
    BY <1>10, <2>1
  <2>3. \E b \in 1 .. line' + 1 : Scanned(b, line, current, images)'
    BY <2>1, <2>2
  <2> QED BY <1>2, <1>3, <2>3 DEF Scan
<1>12. FetchesTheChannel'
  BY <1>2 DEF FetchesTheChannel
<1> QED BY <1>6, <1>11, <1>12 DEF MInv

\* A line that is not blank belongs to the stanza in progress.
LEMMA LineMInv == ASSUME MInv, ScanJunk \/ ScanField PROVE MInv'
<1>1. /\ pc = "scan" /\ pc' = "scan" /\ line' = line + 1
      /\ UNCHANGED <<cmd, body, served, images, broken, result>>
  BY DEF ScanJunk, ScanField, Scanning
<1>t. /\ served \in Seq(Line) /\ Len(served) \in Nat /\ line \in Nat /\ line < Len(served)
      /\ current \in [Strings -> Strings] /\ served[line + 1] \in Line
      /\ ~broken
  <2>1. served \in Seq(Line) /\ Len(served) \in Nat /\ line \in 0 .. Len(served)
    BY LenProperties DEF MInv, Typed
  <2>2. line < Len(served)
    BY DEF ScanJunk, ScanField, Scanning
  <2>3. served[line + 1] \in Line
    BY <2>1, <2>2, ElementOfSeq
  <2> QED BY <1>1, <2>1, <2>2, <2>3 DEF MInv, Typed, Scan
<1>2. PICK b \in 1 .. line + 1 : Scanned(b, line, current, images)
  BY <1>1 DEF MInv, Scan
<1>3. /\ b > 1 => served[b - 1].kind = "blank"
      /\ \A k \in b .. line : served[k].kind # "blank"
      /\ current = [k \in Strings |-> Value(served, b, line, k)]
      /\ Found(images, Ended(b))
  BY <1>2 DEF Scanned
<1>4. served[line + 1].kind # "blank"
  BY DEF ScanJunk, ScanField, Next1
<1>5. \A key \in Strings :
          Value(served, b, line + 1, key) =
              IF served[line + 1].kind = "field" /\ served[line + 1].key = key
              THEN served[line + 1].val ELSE Value(served, b, line, key)
  <2>1. b \in Nat \ {0} /\ b <= line + 1
    BY <1>t, <1>2
  <2> QED BY <1>t, <2>1, ValueNext
<1>6. current' = [k \in Strings |-> Value(served, b, line + 1, k)]
  <2>1. CASE ScanJunk
    <3>1. served[line + 1].kind = "junk" /\ current' = current
      BY <2>1 DEF ScanJunk, Next1
    <3> QED BY <1>3, <1>5, <3>1
  <2>2. CASE ScanField
    <3>1. served[line + 1].kind = "field"
      BY <2>2 DEF ScanField, Next1
    <3>2. current' = [current EXCEPT ![served[line + 1].key] = served[line + 1].val]
      BY <2>2 DEF ScanField, Next1
    <3> QED BY <1>3, <1>5, <3>1, <3>2
  <2> QED BY <2>1, <2>2
<1>7. current' \in [Strings -> Strings]
  <2>1. CASE ScanJunk
    BY <1>t, <2>1 DEF ScanJunk
  <2>2. CASE ScanField
    <3>1. served[line + 1].val \in Strings
      BY <1>t DEF Line
    <3> QED BY <1>t, <2>2, <3>1 DEF ScanField, Next1
  <2> QED BY <2>1, <2>2
<1>8. Typed'
  BY <1>1, <1>t, <1>7 DEF MInv, Typed
<1>9. Scanned(b, line, current, images)'
  <2>1. Found(images, Ended(b))'
    BY <1>1, <1>3, FoundKept
  <2>2. current' = [k \in Strings |-> Value(served, b, line, k)']
    <3>1. \A k : Value(served, b, line, k)' = Value(served, b, line + 1, k)
      BY <1>1 DEF Value, LinesWith
    <3> QED BY <1>6, <3>1
  <2>3. b \in 1 .. line' + 1 /\ \A k \in b .. line' : served'[k].kind # "blank"
    BY <1>1, <1>t, <1>3, <1>4
  <2>4. b > 1 => served'[b - 1].kind = "blank"
    BY <1>1, <1>3
  <2> QED BY <2>1, <2>2, <2>3, <2>4 DEF Scanned
<1>10. Scan'
  <2>1. b \in 1 .. line' + 1
    BY <1>1, <1>t
  <2> QED BY <1>1, <1>t, <1>9, <2>1 DEF Scan
<1>11. FetchesTheChannel'
  BY <1>1 DEF FetchesTheChannel
<1> QED BY <1>8, <1>10, <1>11 DEF MInv

\* A blank line ends the stanza in progress.
LEMMA BlankMInv == ASSUME MInv, ScanBlank PROVE MInv'
<1>1. /\ pc = "scan" /\ pc' = "scan" /\ line' = line + 1 /\ images' = Flushed
      /\ current' = NoFields
      /\ UNCHANGED <<cmd, body, served, broken, result>>
  BY DEF ScanBlank, Scanning, AfterFlush
<1>t. /\ served \in Seq(Line) /\ Len(served) \in Nat /\ line \in Nat /\ line < Len(served)
      /\ current \in [Strings -> Strings] /\ images \in Seq(Image) /\ ~broken
      /\ served[line + 1].kind = "blank" /\ line \in 0 .. Len(served)
  <2>1. served \in Seq(Line) /\ Len(served) \in Nat /\ line \in 0 .. Len(served)
    BY LenProperties DEF MInv, Typed
  <2>2. line < Len(served) /\ served[line + 1].kind = "blank"
    BY DEF ScanBlank, Scanning, Next1
  <2> QED BY <1>1, <2>1, <2>2 DEF MInv, Typed, Scan
<1>2. PICK b \in 1 .. line + 1 : Scanned(b, line, current, images)
  BY <1>1 DEF MInv, Scan
<1>3. Found(Flushed, Ended(line + 2))
  BY <1>t, <1>2, FlushFound
<1>4. NoFields \in [Strings -> Strings]
  BY ManifestAssumption DEF NoFields
<1>5. /\ images' \in Seq(Image)
      /\ \A i \in 1 .. Len(images') : images'[i].URL # Empty /\ images'[i].File # Empty
  BY <1>1, <1>t, FlushedType DEF MInv, Typed
<1>6. Typed'
  BY <1>1, <1>t, <1>4, <1>5 DEF MInv, Typed
<1>7. PICK c \in Nat : c = line + 2
  BY <1>t
<1>8. Scanned(c, line, current, images)'
  <2>1. Found(images, Ended(c))'
    BY <1>1, <1>3, <1>7, FoundKept
  <2>2. current' = [k \in Strings |-> Value(served, c, line, k)']
    <3>1. \A k : Value(served, c, line, k)' = Empty
      BY <1>1, <1>t, <1>7 DEF Value, LinesWith
    <3> QED BY <1>1, <3>1 DEF NoFields
  <2>3. /\ c \in 1 .. line' + 1 /\ \A k \in c .. line' : served'[k].kind # "blank"
        /\ served'[c - 1].kind = "blank"
    BY <1>1, <1>t, <1>7
  <2> QED BY <2>1, <2>2, <2>3 DEF Scanned
<1>9. Scan'
  <2>1. c \in 1 .. line' + 1
    BY <1>1, <1>t, <1>7
  <2> QED BY <1>1, <1>t, <1>8, <2>1 DEF Scan
<1>10. FetchesTheChannel'
  BY <1>1 DEF FetchesTheChannel
<1> QED BY <1>6, <1>9, <1>10 DEF MInv

\* At the end, or where reading breaks, what is in progress is flushed.
LEMMA EndMInv == ASSUME MInv, ScanEnd \/ ScanBreaks PROVE MInv'
<1>1. /\ pc = "scan" /\ pc' = "parsed" /\ images' = Flushed /\ current' = NoFields
      /\ UNCHANGED <<cmd, body, served, line, result>>
  BY DEF ScanEnd, ScanBreaks, AfterFlush
<1>t. /\ served \in Seq(Line) /\ Len(served) \in Nat /\ line \in Nat /\ line \in 0 .. Len(served)
      /\ current \in [Strings -> Strings] /\ images \in Seq(Image) /\ ~broken
  BY <1>1, LenProperties DEF MInv, Typed, Scan
<1>2. PICK b \in 1 .. line + 1 : Scanned(b, line, current, images)
  BY <1>1 DEF MInv, Scan
<1>3. ScanEnd => Found(images', Stanzas(served))
  <2>1. SUFFICES ASSUME ScanEnd PROVE Found(images', Stanzas(served))
    OBVIOUS
  <2>2. line = Len(served)
    BY <2>1 DEF ScanEnd
  <2>3. Found(Flushed, Ended(line + 2))
    BY <1>t, <1>2, <2>2, FlushFound
  <2>4. Ended(line + 2) = Stanzas(served)
    <3>1. \A t \in Stanzas(served) : t[2] < line + 2
      BY <1>t, <2>2, StanzaLines
    <3> QED BY <3>1 DEF Ended
  <2> QED BY <1>1, <2>3, <2>4
<1>4. ScanBreaks => broken' = TRUE
  BY DEF ScanBreaks
<1>5. NoFields \in [Strings -> Strings]
  BY ManifestAssumption DEF NoFields
<1>6. /\ images' \in Seq(Image)
      /\ \A i \in 1 .. Len(images') : images'[i].URL # Empty /\ images'[i].File # Empty
  BY <1>1, <1>t, FlushedType DEF MInv, Typed
<1>7. broken' \in BOOLEAN
  BY DEF MInv, Typed, ScanEnd, ScanBreaks
<1>8. Typed'
  BY <1>1, <1>t, <1>5, <1>6, <1>7 DEF MInv, Typed, Places
<1>9. broken' \/ Found(images, Stanzas(served))'
  BY <1>1, <1>3, <1>4, FoundKept
<1>10. Scan'
  BY <1>1, <1>9 DEF Scan
<1>11. FetchesTheChannel'
  BY <1>1 DEF FetchesTheChannel
<1> QED BY <1>8, <1>10, <1>11 DEF MInv

\* The first image found on the channel is the first stanza's on it.
LEMMA SelectMInv == ASSUME MInv, Select PROVE MInv'
<1> DEFINE i == Pick(OnChannel)
<1>1. /\ pc = "select" /\ pc' = "fetching" /\ OnChannel # {}
      /\ result' = [image |-> images[i], out |-> OutPath(images[i])]
      /\ UNCHANGED <<cmd, body, served, line, current, images, broken>>
  BY DEF Select
<1>2. /\ served \in Seq(Line) /\ images \in Seq(Image) /\ DOMAIN images = 1 .. Len(images)
      /\ Len(images) \in Nat /\ ~broken /\ Found(images, Stanzas(served)) /\ images # <<>>
  BY <1>1, LenProperties DEF MInv, Typed, Scan
<1>3. i \in OnChannel /\ \A j \in OnChannel : i <= j
  <2>1. OnChannel \in SUBSET Nat
    BY <1>2 DEF OnChannel
  <2> QED BY <1>1, <2>1, FirstIs DEF Pick
<1> HIDE DEF i
<1>4. i \in 1 .. Len(images) /\ images[i].Channel = ToUpper(cmd.channel)
  BY <1>2, <1>3 DEF OnChannel
<1>5. images[i] \in Image /\ images[i].URL # Empty /\ images[i].File # Empty
  BY <1>2, <1>4, ElementOfSeq DEF MInv, Typed
<1>6. OutPath(images[i]) # Empty /\ OutPath(images[i]) \in Strings
  <2>1. cmd.out \in Strings
    BY ManifestAssumption DEF MInv, Typed, Commands
  <2> QED BY <1>5, <2>1, ManifestAssumption DEF OutPath, Image, Empty
<1>7. PICK s \in Stanzas(served) : i = Cardinality(Before(served, s)) + 1
  BY <1>2, <1>4 DEF Found
<1>8. images[i] = Described(served, s[1], s[2])
  BY <1>2, <1>7 DEF Found
<1>9. ASSUME NEW t \in Before(served, s) PROVE Described(served, t[1], t[2]).Channel # ToUpper(cmd.channel)
  <2> DEFINE j == Cardinality(Before(served, t)) + 1
  <2>1. t \in Stanzas(served)
    BY DEF Before
  <2>2. j \in 1 .. Len(images) /\ images[j] = Described(served, t[1], t[2])
    BY <1>2, <2>1 DEF Found
  <2>3. Cardinality(Before(served, t)) < Cardinality(Before(served, s))
    BY <1>2, FewerBefore
  <2>4. Cardinality(Before(served, s)) \in Nat /\ Cardinality(Before(served, t)) \in Nat
    BY <1>2, Counts DEF Before
  <2>5. j < i
    BY <1>7, <2>3, <2>4
  <2> HIDE DEF j
  <2>6. j \notin OnChannel
    BY <1>2, <1>3, <1>4, <2>2, <2>5
  <2> QED BY <1>2, <2>2, <2>6 DEF OnChannel
<1>10. result'.image = images[i] /\ result'.out = OutPath(images[i])
  BY <1>1
<1>11. FetchesTheChannel'
  <2>1. /\ Stanzas(served)' = Stanzas(served) /\ Before(served, s)' = Before(served, s)
        /\ \A k, l : Described(served, k, l)' = Described(served, k, l)
    BY <1>1, ServedKept
  <2>2. cmd' = cmd /\ s \in Stanzas(served)'
    BY <1>1, <2>1
  <2>3. /\ result'.image = Described(served, s[1], s[2])'
        /\ result'.image.Channel = ToUpper(cmd'.channel)
        /\ \A t \in Before(served, s)' : Described(served, t[1], t[2])'.Channel # ToUpper(cmd'.channel)
    BY <1>4, <1>8, <1>9, <1>10, <2>1, <2>2
  <2>4. result'.image.URL # Empty /\ result'.out # Empty
    BY <1>5, <1>6, <1>10
  <2>5. ToUpper(cmd'.channel) = ToUpper(cmd.channel)'
    BY DEF ToUpper
  <2> QED BY <2>2, <2>3, <2>4, <2>5 DEF FetchesTheChannel
<1>12. Typed'
  <2>1. result' \in [image: Image, out: Strings]
    BY <1>1, <1>5, <1>6
  <2> QED BY <1>1, <2>1 DEF MInv, Typed, Places
<1>13. Scan'
  <2>1. Found(images, Stanzas(served))'
    BY <1>1, <1>2, FoundKept
  <2> QED BY <1>1, <1>2, <2>1 DEF Scan
<1> QED BY <1>11, <1>12, <1>13 DEF MInv

\* Every step keeps the invariant.
LEMMA StepMInv == ASSUME MInv, [Step]_vars PROVE MInv'
<1>1. CASE UNCHANGED vars
  <2>1. UNCHANGED <<pc, cmd, body, served, line, current, images, broken, result>>
    BY <1>1 DEF vars
  <2>2. Typed'
    BY <2>1 DEF MInv, Typed
  <2>3. FetchesTheChannel'
    BY <2>1, ChosenKept DEF MInv
  <2>4. \A b : Scanned(b, line, current, images) => Scanned(b, line, current, images)'
    <3>1. \A b : Found(images, Ended(b)) => Found(images, Ended(b))'
      BY <2>1, FoundKept
    <3>2. \A b, k : Value(served, b, line, k)' = Value(served, b, line, k)
      BY <2>1 DEF Value, LinesWith
    <3> QED BY <2>1, <3>1, <3>2 DEF Scanned
  <2>5. Found(images, Stanzas(served)) => Found(images, Stanzas(served))'
    BY <2>1, FoundKept
  <2>6. Scan'
    BY <2>1, <2>4, <2>5 DEF MInv, Scan
  <2> QED BY <2>2, <2>3, <2>6 DEF MInv
<1>2. CASE TypeRefused \/ Begin \/ GetFails
  <2>1. /\ pc \in {"start", "get"} /\ (pc' = "error" \/ pc' = "get")
        /\ UNCHANGED <<cmd, body, served, line, current, images, broken, result>>
    BY <1>2 DEF TypeRefused, Begin, GetFails
  <2>2. Typed'
    BY <2>1 DEF MInv, Typed, Places
  <2>3. Scan' /\ FetchesTheChannel'
    BY <2>1 DEF MInv, Scan, FetchesTheChannel
  <2> QED BY <2>2, <2>3 DEF MInv
<1>3. CASE Get
  BY <1>3, GetMInv
<1>4. CASE ScanBlank
  BY <1>4, BlankMInv
<1>5. CASE ScanJunk \/ ScanField
  BY <1>5, LineMInv
<1>6. CASE ScanEnd \/ ScanBreaks
  BY <1>6, EndMInv
<1>7. CASE ParseFails \/ SelectFails
  <2>1. pc' = "error" /\ UNCHANGED <<cmd, body, served, line, current, images, broken, result>>
    BY <1>7 DEF ParseFails, SelectFails
  <2>2. Typed' /\ Scan' /\ FetchesTheChannel'
    BY <2>1 DEF MInv, Typed, Places, Scan, FetchesTheChannel
  <2> QED BY <2>2 DEF MInv
<1>8. CASE Parsed
  <2>1. /\ pc = "parsed" /\ pc' \in {"listed", "select"} /\ ~broken /\ images # <<>>
        /\ UNCHANGED <<cmd, body, served, line, current, images, broken, result>>
    BY <1>8 DEF Parsed, ScanErr
  <2>2. Found(images, Stanzas(served))'
    BY <2>1, FoundKept DEF MInv, Scan
  <2>3. Scan'
    BY <2>1, <2>2 DEF Scan
  <2>4. Typed' /\ FetchesTheChannel'
    BY <2>1 DEF MInv, Typed, Places, FetchesTheChannel
  <2> QED BY <2>3, <2>4 DEF MInv
<1>9. CASE Select
  BY <1>9, SelectMInv
<1> QED BY <1>1, <1>2, <1>3, <1>4, <1>5, <1>6, <1>7, <1>8, <1>9 DEF Step

-----------------------------------------------------------------------------
(* What the cap on the body costs.                                         *)

\* A stanza of some lines is one of any others that agree with them up to its
\* end and are blank after it, and describes the same image there.
LEMMA Carry ==
    ASSUME NEW a \in Seq(Line), NEW c \in Seq(Line), NEW s \in Stanzas(a),
           s[2] < Len(c), \A k \in 1 .. s[2] : a[k] = c[k], c[s[2] + 1].kind = "blank"
    PROVE  s \in Stanzas(c) /\ Described(c, s[1], s[2]) = Described(a, s[1], s[2])
<1> DEFINE i == s[1]
           j == s[2]
<1>1. /\ s = <<i, j>> /\ i \in Nat /\ j \in Nat /\ 1 <= i /\ i <= j /\ j <= Len(a)
      /\ Stanza(a, i, j) /\ Value(a, i, j, "url") # Empty /\ Value(a, i, j, "file") # Empty
      /\ Len(a) \in Nat /\ Len(c) \in Nat
  BY LenProperties DEF Stanzas
<1>2. j < Len(c) /\ (\A k \in 1 .. j : a[k] = c[k]) /\ c[j + 1].kind = "blank"
  OBVIOUS
<1> HIDE DEF i, j
<1>3. Stanza(c, i, j)
  <2>1. \A k \in i .. j : c[k].kind # "blank"
    BY <1>1, <1>2 DEF Stanza
  <2>2. i > 1 => c[i - 1].kind = "blank"
    <3>1. i > 1 => i - 1 \in 1 .. j
      BY <1>1
    <3> QED BY <1>1, <1>2, <3>1 DEF Stanza
  <2> QED BY <1>2, <2>1, <2>2 DEF Stanza
<1>4. ASSUME NEW key PROVE Value(c, i, j, key) = Value(a, i, j, key)
  <2> DEFINE T == LinesWith(a, i, j, key)
  <2>1. LinesWith(c, i, j, key) = T
    <3>1. \A k \in i .. j : k \in 1 .. j
      BY <1>1
    <3> QED BY <1>2, <3>1 DEF LinesWith
  <2>2. T \in SUBSET Nat /\ \A k \in T : k <= j /\ k \in 1 .. j
    BY <1>1 DEF LinesWith
  <2>3. CASE T = {}
    BY <2>1, <2>3 DEF Value
  <2>4. CASE T # {}
    <3> HIDE DEF T
    <3>1. PICK n \in T : \A m \in T : m <= n
      BY <1>1, <2>2, <2>4, Greatest
    <3>2. LastOf(T) = n
      BY <2>2, <3>1, LastIs
    <3>3. a[n] = c[n]
      BY <1>2, <2>2
    <3>4. Value(c, i, j, key) = c[LastOf(T)].val /\ Value(a, i, j, key) = a[LastOf(T)].val
      BY <2>1, <2>4 DEF Value, T
    <3> QED BY <3>2, <3>3, <3>4
  <2> QED BY <2>3, <2>4
<1>5. s \in Stanzas(c)
  BY <1>1, <1>2, <1>3, <1>4 DEF Stanzas
<1>6. Described(c, i, j) = Described(a, i, j)
  BY <1>4 DEF Described
<1> QED BY <1>5, <1>6 DEF i, j

\* In any lines, one stanza that begins before another ends before the line
\* before the other.
LEMMA Gap ==
    ASSUME NEW a \in Seq(Line), NEW s \in Stanzas(a), NEW t \in Stanzas(a), t[1] < s[1]
    PROVE  t[2] < s[1] - 1
<1>1. /\ s[1] \in Nat /\ t[1] \in Nat /\ t[2] \in Nat /\ 1 <= t[1] /\ t[1] <= t[2]
      /\ \A k \in t[1] .. t[2] : a[k].kind # "blank"
      /\ s[1] > 1 => a[s[1] - 1].kind = "blank"
  BY LenProperties DEF Stanzas, Stanza
<1>2. ASSUME s[1] - 1 <= t[2] PROVE FALSE
  <2>1. s[1] > 1 /\ s[1] - 1 \in t[1] .. t[2]
    BY <1>1, <1>2
  <2> QED BY <1>1, <2>1
<1> QED BY <1>1, <1>2

\* Of a cut body, the stanzas that end before the cut are those of the whole
\* body, in the same places, and there is one more at most.
LEMMA CutStanzas ==
    ASSUME NEW m \in Seq(Line), NEW c \in Capped(m)
    PROVE  LET whole == {s \in Stanzas(m) : s[2] < Len(c)}
           IN  /\ \A s \in whole : /\ s \in Stanzas(c) /\ Before(c, s) = Before(m, s)
                                   /\ Described(c, s[1], s[2]) = Described(m, s[1], s[2])
               /\ \A t, u \in Stanzas(c) \ whole : t = u
<1> DEFINE L == Len(c)
           whole == {s \in Stanzas(m) : s[2] < L}
<1>1. /\ c \in Seq(Line) /\ Len(c) <= Len(m) /\ Len(c) \in Nat /\ Len(m) \in Nat
      /\ \A k \in 1 .. Len(c) - 1 : c[k] = m[k]
      /\ Len(c) > 0 /\ m[Len(c)].kind = "blank" => c[Len(c)].kind = "blank"
  BY CappedLines, LenProperties
<1>2. L = Len(c)
  OBVIOUS
<1> HIDE DEF L
<1>3. ASSUME NEW s \in whole
      PROVE  /\ s \in Stanzas(c) /\ s \in Stanzas(m) /\ s[1] \in Nat /\ s[2] \in Nat /\ s[1] <= s[2] /\ s[2] < L
             /\ Described(c, s[1], s[2]) = Described(m, s[1], s[2])
  <2>1. /\ s \in Stanzas(m) /\ s[2] < L /\ s[1] \in Nat /\ s[2] \in Nat /\ 1 <= s[1] /\ s[1] <= s[2]
        /\ Stanza(m, s[1], s[2])
    BY <1>1 DEF Stanzas
  <2>2. m[s[2] + 1].kind = "blank"
    BY <1>1, <1>2, <2>1 DEF Stanza
  <2>3. c[s[2] + 1].kind = "blank"
    <3>1. CASE s[2] + 1 = L
      BY <1>1, <1>2, <2>1, <2>2, <3>1
    <3>2. CASE s[2] + 1 < L
      <4>1. s[2] + 1 \in 1 .. L - 1
        BY <1>1, <1>2, <2>1, <3>2
      <4> QED BY <1>1, <1>2, <2>2, <4>1
    <3> QED BY <1>1, <1>2, <2>1, <3>1, <3>2
  <2>4. \A k \in 1 .. s[2] : m[k] = c[k]
    BY <1>1, <1>2, <2>1
  <2> QED BY <1>1, <1>2, <2>1, <2>3, <2>4, Carry
<1>4. ASSUME NEW t \in Stanzas(c), t[2] < L - 1 PROVE t \in whole
  <2>1. /\ t[1] \in Nat /\ t[2] \in Nat /\ 1 <= t[1] /\ t[1] <= t[2] /\ Stanza(c, t[1], t[2])
    BY <1>1 DEF Stanzas
  <2>2. t[2] < Len(m) /\ t[2] + 1 \in 1 .. L - 1 /\ t[2] < L
    BY <1>1, <1>2, <1>4, <2>1
  <2>3. m[t[2] + 1].kind = "blank"
    <3>1. c[t[2] + 1].kind = "blank"
      BY <1>2, <2>1, <2>2 DEF Stanza
    <3> QED BY <1>1, <1>2, <2>2, <3>1
  <2>4. \A k \in 1 .. t[2] : c[k] = m[k]
    BY <1>1, <1>2, <2>1, <2>2
  <2>5. t \in Stanzas(m)
    BY <1>1, <2>2, <2>3, <2>4, Carry
  <2> QED BY <2>2, <2>5
<1>5. ASSUME NEW s \in whole PROVE Before(c, s) = Before(m, s)
  <2>1. ASSUME NEW t \in Before(m, s) PROVE t \in Before(c, s)
    <3>1. t \in Stanzas(m) /\ t[1] < s[1] /\ t[2] \in Nat
      BY <1>1 DEF Before, Stanzas
    <3>2. t[2] < s[1] - 1
      BY <1>3, <3>1, Gap
    <3>3. t \in whole
      BY <1>1, <1>2, <1>3, <3>1, <3>2
    <3> QED BY <1>3, <3>1, <3>3 DEF Before
  <2>2. ASSUME NEW t \in Before(c, s) PROVE t \in Before(m, s)
    <3>1. t \in Stanzas(c) /\ t[1] < s[1] /\ t[2] \in Nat
      BY <1>1 DEF Before, Stanzas
    <3>2. t[2] < s[1] - 1
      BY <1>1, <1>3, <3>1, Gap
    <3>3. t[2] < L - 1
      BY <1>1, <1>2, <1>3, <3>1, <3>2
    <3>4. t \in whole
      BY <1>4, <3>1, <3>3
    <3> QED BY <3>1, <3>4 DEF Before
  <2> QED BY <2>1, <2>2
<1>6. ASSUME NEW t \in Stanzas(c) \ whole, NEW u \in Stanzas(c) \ whole PROVE t = u
  <2>1. ASSUME NEW r \in Stanzas(c) \ whole
        PROVE  /\ r = <<r[1], r[2]>> /\ r[1] \in Nat /\ r[2] \in Nat /\ r[1] <= r[2]
               /\ r[2] <= L /\ L - 1 <= r[2] /\ 1 <= r[1]
               /\ \A k \in r[1] .. r[2] : c[k].kind # "blank"
               /\ r[2] < L => c[r[2] + 1].kind = "blank"
    <3>1. /\ r = <<r[1], r[2]>> /\ r[1] \in Nat /\ r[2] \in Nat /\ r[1] <= r[2] /\ r[2] <= L /\ 1 <= r[1]
          /\ Stanza(c, r[1], r[2])
      BY <1>1, <1>2 DEF Stanzas
    <3>2. L - 1 <= r[2]
      BY <1>1, <1>2, <1>4, <3>1
    <3> QED BY <1>2, <3>1, <3>2 DEF Stanza
  <2> HIDE DEF whole
  <2>2. t[2] = u[2]
    <3>1. ASSUME NEW r \in Stanzas(c) \ whole, NEW w \in Stanzas(c) \ whole, r[2] < w[2] PROVE FALSE
      <4>1. r[2] + 1 = w[2] /\ w[2] = L /\ w[2] \in w[1] .. w[2]
        BY <1>1, <1>2, <2>1, <3>1
      <4>2. c[w[2]].kind # "blank" /\ c[r[2] + 1].kind = "blank"
        BY <2>1, <4>1
      <4> QED BY <4>1, <4>2
    <3> QED BY <2>1, <3>1
  <2>3. t[1] = u[1]
    <3>1. ASSUME NEW r \in Stanzas(c), NEW w \in Stanzas(c), r[1] < w[1] PROVE r[2] < w[1] - 1
      BY <1>1, <3>1, Gap
    <3>2. ~(t[1] < u[1])
      BY <2>1, <2>2, <3>1
    <3>3. ~(u[1] < t[1])
      BY <2>1, <2>2, <3>1
    <3> QED BY <2>1, <3>2, <3>3
  <2> QED BY <2>1, <2>2, <2>3
<1> QED BY <1>2, <1>3, <1>5, <1>6 DEF L

-----------------------------------------------------------------------------
(* The theorems.                                                           *)

\* The invariant holds in every reachable state.
THEOREM Invariance == Spec => []MInv
<1>1. Init => MInv
  BY InitMInv
<1>2. MInv /\ [Step]_vars => MInv'
  BY StepMInv
<1> QED BY <1>1, <1>2, PTL DEF Spec

\* What is read is what the cap leaves of the manifest.
Served ==
    /\ body \in Seq(Line)
    /\ pc \in {"scan", "parsed", "select", "listed", "fetching"} => served \in Capped(body)

\* It is in every reachable state.
THEOREM ServedIsCapped == Spec => []Served
<1>1. Init => Served
  BY EmptySeq DEF Init, Served
<1>2. Served /\ [Step]_vars => Served'
  <2> SUFFICES ASSUME Served, [Step]_vars PROVE Served'
    OBVIOUS
  <2>1. CASE UNCHANGED vars
    BY <2>1 DEF vars, Served
  <2>2. CASE Get
    BY <2>2, ManifestAssumption DEF Get, Served
  <2>3. CASE TypeRefused \/ Begin \/ GetFails
    <3>1. pc' \in {"get", "error"} /\ body' = body
      BY <2>3 DEF TypeRefused, Begin, GetFails
    <3> QED BY <3>1 DEF Served
  <2>4. CASE ScanBlank \/ ScanJunk \/ ScanField \/ ScanEnd \/ ScanBreaks
    <3>1. pc = "scan" /\ UNCHANGED <<body, served>>
      BY <2>4 DEF ScanBlank, ScanJunk, ScanField, ScanEnd, ScanBreaks, Scanning
    <3> QED BY <3>1 DEF Served
  <2>5. CASE ParseFails \/ Parsed \/ Select \/ SelectFails
    <3>1. pc \in {"parsed", "select"} /\ UNCHANGED <<body, served>>
      BY <2>5 DEF ParseFails, Parsed, Select, SelectFails
    <3> QED BY <3>1 DEF Served
  <2> QED BY <2>1, <2>2, <2>3, <2>4, <2>5 DEF Step
<1> QED BY <1>1, <1>2, PTL DEF Spec

\* Every variable keeps its type, scanning never passes the body's end, and an
\* image has a place to come from and a name (manifest.go).
THEOREM TypeCorrect == Spec => []TypeOK
<1>1. MInv /\ Served => TypeOK
  BY LenProperties DEF MInv, Typed, TypeOK, Served
<1> QED BY <1>1, Invariance, ServedIsCapped, PTL

\* ParseManifest finds exactly the images a manifest has, in its order, each
\* with the values of its own stanza, and none in a manifest that broke off
\* (manifest.go).
THEOREM ParsesTheStanzas == Spec => []ImagesAreStanzas
<1>1. MInv => ImagesAreStanzas
  BY DEF MInv, Scan, Found, ImagesAreStanzas
<1> QED BY <1>1, Invariance, PTL

\* What is fetched is the first image the manifest has for the channel asked
\* for, with a place to come from and to go (manifest.go, main.go, google.go).
THEOREM ChannelIsFetched == Spec => []FetchesTheChannel
<1>1. MInv => FetchesTheChannel
  BY DEF MInv
<1> QED BY <1>1, Invariance, PTL

\* The cap costs a manifest its end and no more: the images before the cut are
\* found in their places with their own values, and one more at most
\* (manifest.go).
THEOREM CutCostsTheEnd == Spec => []CutSparesTheRest
<1>1. ASSUME MInv, Served PROVE CutSparesTheRest
  <2> DEFINE whole == {s \in Stanzas(body) : s[2] < Len(served)}
  <2> SUFFICES ASSUME pc \in {"select", "listed", "fetching"}
               PROVE  /\ \A s \in whole :
                            images[Cardinality(Before(body, s)) + 1] = Described(body, s[1], s[2])
                      /\ Len(images) <= Cardinality(whole) + 1
    BY DEF CutSparesTheRest
  <2>1. /\ body \in Seq(Line) /\ served \in Capped(body) /\ served \in Seq(Line)
        /\ Found(images, Stanzas(served))
    BY <1>1 DEF MInv, Typed, Scan, Served
  <2>2. /\ \A s \in whole : /\ s \in Stanzas(served) /\ Before(served, s) = Before(body, s)
                             /\ Described(served, s[1], s[2]) = Described(body, s[1], s[2])
        /\ \A t, u \in Stanzas(served) \ whole : t = u
    BY <2>1, CutStanzas
  <2> HIDE DEF whole
  <2>3. \A s \in whole : images[Cardinality(Before(body, s)) + 1] = Described(body, s[1], s[2])
    BY <2>1, <2>2 DEF Found
  <2>4. whole \in SUBSET Stanzas(served) /\ Len(images) = Cardinality(Stanzas(served))
    BY <2>1, <2>2 DEF Found
  <2>5. IsFiniteSet(whole) /\ Cardinality(whole) \in Nat
    BY <2>1, <2>4, Counts
  <2>6. Cardinality(Stanzas(served)) <= Cardinality(whole) + 1
    <3>1. CASE Stanzas(served) = whole
      BY <2>5, <3>1
    <3>2. CASE Stanzas(served) # whole
      <4>1. PICK t \in Stanzas(served) : t \notin whole
        BY <2>4, <3>2
      <4>2. Stanzas(served) = whole \cup {t}
        BY <2>2, <2>4, <4>1
      <4>3. Cardinality(whole \cup {t}) = Cardinality(whole) + 1
        BY <2>5, <4>1, FS_AddElement
      <4> QED BY <2>5, <4>2, <4>3
    <3> QED BY <3>1, <3>2
  <2> QED BY <2>3, <2>4, <2>6
<1> QED BY <1>1, Invariance, ServedIsCapped, PTL
=============================================================================
