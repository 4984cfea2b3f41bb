---------------------------- MODULE ConfigProofs ----------------------------
(***************************************************************************)
(* Proofs about Config for any command lines, files, keys and values.      *)
(***************************************************************************)
EXTENDS Config, SequenceTheorems, NatFacts, TLAPS

\* Each key ValidateConfig has visited has been looked at: it has its type, or
\* fatal says that one has not, and what is not registered was warned of.
Looked(k) ==
    /\ Mismatch(k, OnDevice[k]) => fatal
    /\ Warned(k) => <<"warning", k>> \in diags

Visited == pc \in {"validate", "ok"} => \A k \in Keys(fields) \ todo : Looked(k)
Accepted == pc = "ok" => todo = {} /\ ~fatal
IInv == Visited /\ Accepted

\* The map the code ranges over has the keys of the fields.
LEMMA ProbeDomain == DOMAIN OnDevice = Keys(fields)
  BY DEF OnDevice, Probe

\* Nothing is visited at first.
LEMMA InitIInv == ASSUME Init PROVE IInv
  BY DEF Init, IInv, Visited, Accepted

\* One turn of the loop looks at one key, and forgets nothing.
LEMMA ValidateKeyVisited == ASSUME IInv, ValidateKey PROVE IInv'
<1>1. PICK k \in todo :
          /\ todo' = todo \ {k}
          /\ diags' = diags \cup Diags(k, Probe(fields)[k])
          /\ fatal' = (fatal \/ Mismatch(k, Probe(fields)[k]))
  BY DEF ValidateKey
<1>2. pc = "validate" /\ pc' = "validate" /\ fields' = fields
  BY DEF ValidateKey
<1>3. OnDevice' = OnDevice /\ Keys(fields)' = Keys(fields) /\ OnDevice = Probe(fields)
  BY <1>2 DEF OnDevice
<1>4. ASSUME NEW q \in Keys(fields) \ todo' PROVE Looked(q)'
  <2>1. CASE q = k
    <3>1. Mismatch(q, OnDevice[q]) => fatal'
      BY <1>1, <1>3, <2>1
    <3>2. Warned(q) => <<"warning", q>> \in diags'
      BY <1>1, <2>1 DEF Diags
    <3> QED BY <1>3, <3>1, <3>2 DEF Looked, Mismatch, Warned
  <2>2. CASE q # k
    <3>1. Looked(q)
      BY <1>1, <1>2, <2>2 DEF IInv, Visited
    <3>2. fatal => fatal'
      BY <1>1
    <3>3. diags \subseteq diags'
      BY <1>1
    <3> QED BY <1>3, <3>1, <3>2, <3>3 DEF Looked, Mismatch, Warned
  <2> QED BY <2>1, <2>2
<1> QED BY <1>2, <1>3, <1>4 DEF IInv, Visited, Accepted

\* Every step keeps it.
LEMMA StepIInv == ASSUME IInv, [Step]_vars PROVE IInv'
<1>0. CASE UNCHANGED vars
  BY <1>0 DEF vars, IInv, Visited, Accepted, Looked, OnDevice, Warned, Mismatch
<1>1. CASE ValidateKey
  BY <1>1, ValidateKeyVisited
<1>2. CASE LoadConfigFile \/ BuildConfig
  <2>1. pc' = "validate" /\ todo' = Keys(fields)'
    BY <1>2 DEF LoadConfigFile, BuildConfig, Visit
  <2> QED BY <2>1 DEF IInv, Visited, Accepted
<1>3. CASE Accept
  <2>1. /\ pc = "validate" /\ todo = {} /\ ~fatal /\ pc' = "ok"
        /\ UNCHANGED <<fields, todo, diags, fatal>>
    BY <1>3 DEF Accept
  <2> QED BY <2>1 DEF IInv, Visited, Accepted, Looked, OnDevice, Warned, Mismatch
<1>4. CASE \/ RefuseFlags \/ LoadFails \/ StartSets \/ TakePair \/ RefusePair \/ EndSets
           \/ RefuseToken \/ Reject
  <2>1. pc' \notin {"validate", "ok"}
    BY <1>4 DEF RefuseFlags, LoadFails, StartSets, TakePair, RefusePair, EndSets,
                RefuseToken, Reject
  <2> QED BY <2>1 DEF IInv, Visited, Accepted
<1> QED BY <1>0, <1>1, <1>2, <1>3, <1>4 DEF Step

\* The invariant holds in every reachable state.
THEOREM Invariance == Spec => []IInv
<1>1. Init => IInv
  BY InitIInv
<1>2. IInv /\ [Step]_vars => IInv'
  BY StepIInv
<1> QED BY <1>1, <1>2, PTL DEF Spec

\* A config that is written is one Chromium accepts, in whatever order the map
\* is visited (inject.go:199, schema.go:10-13).
THEOREM WrittenIsValid == Spec => []AcceptedIsValid
<1>1. IInv => AcceptedIsValid
  <2> SUFFICES ASSUME IInv, pc = "ok", NEW k \in DOMAIN OnDevice \cap kAllConfigurationKeys
               PROVE  OnDevice[k].type = typeOf(k)
    BY DEF AcceptedIsValid, ValidateConfiguration
  <2>1. k \in Keys(fields) \ todo /\ ~fatal
    BY ProbeDomain DEF IInv, Accepted
  <2>2. ~Mismatch(k, OnDevice[k])
    BY <2>1 DEF IInv, Visited, Looked
  <2>3. k \in oobeKeys
    BY DEF kAllConfigurationKeys, Registered
  <2> QED BY <2>2, <2>3 DEF Mismatch
<1> QED BY <1>1, Invariance, PTL

\* Whatever the device drops was warned of, but desc (schema.go:19-22).
THEOREM DropsAreTold == Spec => []NothingDroppedSilently
<1>1. IInv => NothingDroppedSilently
  <2> SUFFICES ASSUME IInv, pc = "ok", NEW k \in DOMAIN OnDevice,
                      k \notin DOMAIN Delivered, k # "desc"
               PROVE  <<"warning", k>> \in diags
    BY DEF NothingDroppedSilently
  <2>1. k \notin Registered
    BY DEF Delivered, FilterConfiguration, kAllConfigurationKeys
  <2>2. k \in Keys(fields) \ todo
    BY ProbeDomain DEF IInv, Accepted
  <2> QED BY <2>1, <2>2 DEF IInv, Visited, Looked, Warned
<1> QED BY <1>1, Invariance, PTL

-----------------------------------------------------------------------------
(* Types.                                                                  *)

\* A command line and its parts.
LEMMA FlagsType ==
    ASSUME flags \in Requests
    PROVE  /\ flags.sets \in Seq(Pair) /\ flags.token \in Strings /\ flags.desc \in Strings
           /\ flags.config \in File \cup {NoFile}
           /\ flags.config.fields \in Seq(KV)
<1>1. flags \in Flags
  BY ConfigAssumption
<1>2. NoFile.fields \in Seq(KV)
  BY EmptySeq DEF NoFile
<1>3. flags.config \in File \cup {NoFile}
  BY <1>1 DEF Flags
<1>4. flags.config.fields \in Seq(KV)
  BY <1>2, <1>3 DEF File
<1> QED BY <1>1, <1>3, <1>4 DEF Flags

\* Trimmed and lowercased texts are texts.
LEMMA TextType ==
    ASSUME NEW s \in Strings
    PROVE  TrimSpace(s) \in Strings /\ ToLower(s) \in Strings
  BY ConfigAssumption DEF TrimSpace, ToLower

\* A string is a value.
LEMMA StrType == ASSUME NEW s \in Strings PROVE Str(s) \in Value
  BY DEF Str, Value

\* What one pair gives.
Setting(p) == [key |-> NameOf(p), value |-> Coerce(NameOf(p), RawOf(p))]

\* A good pair gives a key of the schema a value of the key's type.
LEMMA SettingType ==
    ASSUME NEW p \in Pair, PairGood(p)
    PROVE  /\ Setting(p) \in [key: oobeKeys, value: Value]
           /\ Setting(p).value.type = typeOf(Setting(p).key)
<1>1. NameOf(p) \in oobeKeys /\ RawOf(p) \in Strings
  BY TextType DEF PairGood, Known, RawOf, Pair
<1>2. "true" \in Strings /\ "false" \in Strings
  BY SchemaAssumption DEF Truthy, Falsy
<1>3. Coerce(NameOf(p), RawOf(p)) \in Value
  BY <1>1, <1>2 DEF Coerce, Str, Value
<1>4. Coerce(NameOf(p), RawOf(p)).type = typeOf(NameOf(p))
  BY DEF Coerce, Str, typeOf
<1> QED BY <1>1, <1>3, <1>4 DEF Setting

\* A setting is a field.
LEMMA SettingsAreFields == [key: oobeKeys, value: Value] \subseteq KV
  BY SchemaAssumption DEF KV

\* --automate-setup sets keys of the schema to true.
LEMMA AutomationType ==
    /\ Automation \in Seq(KV)
    /\ Len(Automation) \in Nat
    /\ \A n \in 1 .. Len(Automation) :
          /\ Automation[n].key \in boolKeys
          /\ Automation[n].value.type = "bool"
<1> DEFINE a == automateSetupKeys
<1>1. /\ a[1].key = "welcomeNext" /\ a[2].key = "networkUseConnected"
      /\ a[3].key = "eulaAutoAccept" /\ a[4].key = "skipEnrollmentSuccessScreen"
  BY DEF automateSetupKeys
<1>2. \A n \in 1 .. 4 : a[n].key \in boolKeys
  <2> TAKE n \in 1 .. 4
  <2>1. n = 1 \/ n = 2 \/ n = 3 \/ n = 4
    OBVIOUS
  <2> QED BY <1>1, <2>1 DEF boolKeys
<1>3. \A n \in 1 .. 4 : a[n].value = [type |-> "bool", val |-> "true"]
  BY DEF automateSetupKeys
<1>4. [type |-> "bool", val |-> "true"] \in Value
  BY SchemaAssumption DEF Truthy, Value
<1>5. a = [n \in 1 .. 4 |-> a[n]]
  BY DEF automateSetupKeys
<1>6. \A n \in 1 .. 4 : a[n] \in KV
  <2> TAKE n \in 1 .. 4
  <2>1. a[n] = [key |-> a[n].key, value |-> a[n].value]
    BY DEF automateSetupKeys
  <2>2. a[n].key \in Strings
    BY <1>2, SchemaAssumption DEF oobeKeys
  <2> HIDE DEF a
  <2> QED BY <1>3, <1>4, <2>1, <2>2 DEF KV
<1> HIDE DEF a
<1>7. a \in Seq(KV) /\ Len(a) = 4
  <2>1. a \in [1 .. 4 -> KV]
    BY <1>5, <1>6
  <2>2. a \in Seq(KV)
    BY <2>1, SeqDef
  <2> QED BY <2>1, <2>2, LenProperties
<1>8. CASE flags.automate
  <2>1. Automation = a
    BY <1>8 DEF Automation, a
  <2>2. \A n \in 1 .. 4 : a[n].value.type = "bool"
    BY <1>3
  <2>3. Automation \in Seq(KV) /\ Len(Automation) = 4
    BY <1>7, <2>1
  <2>4. \A n \in 1 .. 4 : Automation[n].key \in boolKeys /\ Automation[n].value.type = "bool"
    BY <1>2, <2>1, <2>2
  <2> QED BY <2>3, <2>4
<1>9. CASE ~flags.automate
  BY <1>9, EmptySeq DEF Automation
<1> QED BY <1>8, <1>9

\* The fields that are built: the tool's two, those of --automate-setup, and
\* what was set by hand.
LEMMA FieldsAre ==
    ASSUME flags \in Requests, extra \in Seq(KV)
    PROVE  /\ Fields \in Seq(KV)
           /\ Len(Fields) = 2 + Len(Automation) + Len(extra)
           /\ Fields[1] = [key |-> "enrollmentToken", value |-> Str(Token)]
           /\ Fields[2] = [key |-> "source", value |-> Str("PACKAGING_TOOL")]
           /\ \A n \in 1 .. Len(Automation) : Fields[2 + n] = Automation[n]
           /\ \A n \in 1 .. Len(extra) : Fields[2 + Len(Automation) + n] = extra[n]
<1> DEFINE t == ToolFields
           a == Automation
<1>1. Token \in Strings
  BY FlagsType, TextType DEF Token
<1>2. /\ [key |-> "enrollmentToken", value |-> Str(Token)] \in KV
      /\ [key |-> "source", value |-> Str("PACKAGING_TOOL")] \in KV
  BY <1>1, StrType, SchemaAssumption DEF KV, oobeKeys, stringKeys
<1>3. /\ t \in Seq(KV) /\ Len(t) = 2
      /\ t[1] = [key |-> "enrollmentToken", value |-> Str(Token)]
      /\ t[2] = [key |-> "source", value |-> Str("PACKAGING_TOOL")]
  BY <1>2 DEF ToolFields
<1>4. a \in Seq(KV) /\ Len(a) \in Nat /\ Len(extra) \in Nat
  BY AutomationType, LenProperties
<1> HIDE DEF t, a
<1>5. /\ t \o a \in Seq(KV) /\ Len(t \o a) = 2 + Len(a)
      /\ \A n \in 1 .. 2 + Len(a) : (t \o a)[n] = IF n <= 2 THEN t[n] ELSE a[n - 2]
  <2>1. /\ t \o a \in Seq(KV) /\ Len(t \o a) = Len(t) + Len(a)
        /\ \A n \in 1 .. Len(t) + Len(a) :
              (t \o a)[n] = IF n <= Len(t) THEN t[n] ELSE a[n - Len(t)]
    BY <1>3, <1>4, ConcatProperties
  <2> QED BY <1>3, <2>1
<1> DEFINE ta == t \o a
<1> HIDE DEF ta
<1>6. /\ ta \in Seq(KV) /\ Len(ta) = 2 + Len(a)
      /\ \A n \in 1 .. 2 + Len(a) : ta[n] = IF n <= 2 THEN t[n] ELSE a[n - 2]
  BY <1>5 DEF ta
<1>7. /\ ta \o extra \in Seq(KV) /\ Len(ta \o extra) = Len(ta) + Len(extra)
      /\ \A n \in 1 .. Len(ta) + Len(extra) :
            (ta \o extra)[n] = IF n <= Len(ta) THEN ta[n] ELSE extra[n - Len(ta)]
  BY <1>6, ConcatProperties
<1>8. Fields = ta \o extra
  BY DEF Fields, ta, t, a
<1>9. /\ Fields \in Seq(KV) /\ Len(Fields) = 2 + Len(a) + Len(extra)
      /\ \A n \in 1 .. 2 + Len(a) + Len(extra) :
            Fields[n] = IF n <= 2 + Len(a) THEN ta[n] ELSE extra[n - (2 + Len(a))]
  BY <1>6, <1>7, <1>8
<1>10. Fields[1] = t[1] /\ Fields[2] = t[2]
  BY <1>4, <1>6, <1>9
<1>11. ASSUME NEW n \in 1 .. Len(a) PROVE Fields[2 + n] = a[n]
  <2>1. 2 + n \in 1 .. 2 + Len(a) /\ ~ (2 + n <= 2) /\ 2 + n - 2 = n
    BY <1>4
  <2>2. 2 + n \in 1 .. 2 + Len(a) + Len(extra) /\ 2 + n <= 2 + Len(a)
    BY <1>4
  <2> QED BY <1>6, <1>9, <2>1, <2>2
<1>12. ASSUME NEW n \in 1 .. Len(extra) PROVE Fields[2 + Len(a) + n] = extra[n]
  <2>1. /\ 2 + Len(a) + n \in 1 .. 2 + Len(a) + Len(extra)
        /\ ~ (2 + Len(a) + n <= 2 + Len(a)) /\ 2 + Len(a) + n - (2 + Len(a)) = n
    BY <1>4
  <2> QED BY <1>9, <2>1
<1> QED BY <1>3, <1>9, <1>10, <1>11, <1>12 DEF a

\* The keys of fields have a last place each, and its value is what the map has.
LEMMA ProbeIsLast ==
    ASSUME NEW fs \in Seq(KV), NEW k \in Keys(fs)
    PROVE  \E n \in 1 .. Len(fs) :
              /\ fs[n].key = k /\ \A m \in n + 1 .. Len(fs) : fs[m].key # k
              /\ Probe(fs)[k] = fs[n].value
<1>1. DOMAIN fs = 1 .. Len(fs) /\ Len(fs) \in Nat
  BY LenProperties
<1> DEFINE T == {n \in 1 .. Len(fs) : fs[n].key = k}
           Last(n) == fs[n].key = k /\ \A m \in n + 1 .. Len(fs) : fs[m].key # k
<1>2. T \in SUBSET Nat /\ T # {} /\ \A m \in T : m <= Len(fs)
  BY <1>1 DEF Keys
<1>3. \A m \in 1 .. Len(fs) : fs[m].key = k => m \in T
  OBVIOUS
<1>4. \A m \in T : m \in 1 .. Len(fs) /\ fs[m].key = k
  OBVIOUS
<1> HIDE DEF T
<1>5. PICK n \in T : \A m \in T : m <= n
  BY <1>1, <1>2, Greatest
<1>6. n \in 1 .. Len(fs) /\ fs[n].key = k
  BY <1>4, <1>5
<1>7. ASSUME NEW m \in n + 1 .. Len(fs) PROVE fs[m].key # k
  <2>1. m \in 1 .. Len(fs) /\ ~ (m <= n)
    BY <1>1, <1>6
  <2> QED BY <1>3, <1>5, <2>1
<1>8. \E q \in DOMAIN fs : Last(q)
  BY <1>1, <1>6, <1>7
<1> DEFINE q == CHOOSE q \in DOMAIN fs : Last(q)
<1>9. q \in DOMAIN fs /\ Last(q)
  BY <1>8
<1>10. Probe(fs)[k] = fs[q].value
  BY DEF Probe
<1> HIDE DEF q
<1> QED BY <1>1, <1>9, <1>10

\* The value a map has under the key of a place no later field overrides.
LEMMA ProbeAt ==
    ASSUME NEW fs \in Seq(KV), NEW n \in 1 .. Len(fs),
           \A m \in n + 1 .. Len(fs) : fs[m].key # fs[n].key
    PROVE  fs[n].key \in Keys(fs) /\ Probe(fs)[fs[n].key] = fs[n].value
<1>1. DOMAIN fs = 1 .. Len(fs) /\ Len(fs) \in Nat
  BY LenProperties
<1>2. fs[n].key \in Keys(fs)
  BY <1>1 DEF Keys
<1>3. PICK q \in 1 .. Len(fs) :
          /\ fs[q].key = fs[n].key /\ \A m \in q + 1 .. Len(fs) : fs[m].key # fs[n].key
          /\ Probe(fs)[fs[n].key] = fs[q].value
  BY <1>2, ProbeIsLast
<1>4. q = n
  <2>1. ~ (q \in n + 1 .. Len(fs)) /\ ~ (n \in q + 1 .. Len(fs))
    BY <1>3
  <2> QED BY <1>1, <2>1
<1> QED BY <1>2, <1>3, <1>4

\* A key's value has the type of a value, and the key is a text.
LEMMA KeysType ==
    ASSUME NEW fs \in Seq(KV), NEW k \in Keys(fs)
    PROVE  k \in Strings /\ Probe(fs)[k] \in Value
<1>1. PICK n \in 1 .. Len(fs) : fs[n].key = k /\ Probe(fs)[k] = fs[n].value
  BY ProbeIsLast
<1>2. fs[n] \in KV
  BY ElementOfSeq
<1> QED BY <1>1, <1>2 DEF KV

\* What is said of a key is said of a text.
LEMMA DiagsType ==
    ASSUME NEW k \in Strings, NEW v
    PROVE  Diags(k, v) \subseteq {"warning", "error", "note"} \X Strings
  BY DEF Diags

\* Nothing has been read at first.
LEMMA InitType == ASSUME Init PROVE TypeOK
<1>1. flags.sets \in Seq(Pair) /\ Len(flags.sets) \in Nat
  BY FlagsType, LenProperties DEF Init
<1>2. extra = <<>> /\ fields = <<>> /\ todo = {} /\ diags = {} /\ next = 0
  BY DEF Init
<1>3. extra \in Seq([key: oobeKeys, value: Value]) /\ fields \in Seq(KV)
  BY <1>2, EmptySeq
<1>4. pc \in Places /\ flags \in Requests /\ fatal \in BOOLEAN
  BY DEF Init, Places
<1> QED BY <1>1, <1>2, <1>3, <1>4 DEF TypeOK

\* What the configs are made of keeps its type.
LEMMA StepType == ASSUME TypeOK, [Step]_vars PROVE TypeOK'
<1>1. /\ flags \in Requests /\ flags.sets \in Seq(Pair) /\ Len(flags.sets) \in Nat
      /\ flags.token \in Strings /\ flags.desc \in Strings
      /\ flags.config.fields \in Seq(KV)
  BY FlagsType, LenProperties DEF TypeOK
<1>2. /\ pc \in Places /\ next \in 0 .. Len(flags.sets)
      /\ extra \in Seq([key: oobeKeys, value: Value]) /\ fields \in Seq(KV)
      /\ todo \subseteq Keys(fields) /\ fatal \in BOOLEAN
      /\ diags \subseteq {"warning", "error", "note"} \X Strings
  BY DEF TypeOK
<1>3. extra \in Seq(KV)
  BY <1>2, SettingsAreFields, SeqMonotonic
<1>4. CASE UNCHANGED vars
  BY <1>2, <1>4 DEF vars, TypeOK, Keys
<1>5. CASE RefuseFlags \/ LoadFails \/ StartSets \/ RefusePair \/ RefuseToken \/ Accept \/ Reject
  <2>1. pc' \in Places /\ UNCHANGED <<flags, next, extra, fields, todo, diags, fatal>>
    BY <1>5 DEF RefuseFlags, LoadFails, StartSets, RefusePair, RefuseToken, Accept, Reject, Places
  <2>2. Keys(fields)' = Keys(fields)
    BY <2>1
  <2> QED BY <1>2, <2>1, <2>2 DEF TypeOK
<1>6. CASE LoadConfigFile
  <2>1. /\ pc' = "validate" /\ fields' = flags.config.fields /\ todo' = Keys(fields)'
        /\ UNCHANGED <<flags, next, extra, fatal>>
    BY <1>6 DEF LoadConfigFile, Visit
  <2>2. diags' \subseteq {<<"warning", "enrollmentToken">>}
    BY <1>6 DEF LoadConfigFile
  <2>3. "enrollmentToken" \in Strings
    BY SchemaAssumption DEF oobeKeys, stringKeys
  <2>4. diags' \subseteq {"warning", "error", "note"} \X Strings
    BY <2>2, <2>3
  <2> QED BY <1>1, <1>2, <2>1, <2>4 DEF TypeOK, Places
<1>7. CASE TakePair
  <2> DEFINE p == flags.sets[next + 1]
  <2>1. /\ next < Len(flags.sets) /\ PairGood(p)
        /\ extra' = Append(extra, Setting(p)) /\ next' = next + 1
        /\ UNCHANGED <<pc, flags, fields, todo, diags, fatal>>
    BY <1>7 DEF TakePair, Setting
  <2>2. p \in Pair
    <3>1. next + 1 \in 1 .. Len(flags.sets)
      BY <1>1, <1>2, <2>1
    <3> QED BY <1>1, <3>1, ElementOfSeq
  <2> HIDE DEF p
  <2>3. Setting(p) \in [key: oobeKeys, value: Value]
    BY <2>1, <2>2, SettingType
  <2>4. extra' \in Seq([key: oobeKeys, value: Value])
    BY <1>2, <2>1, <2>3, AppendProperties
  <2>5. Keys(fields)' = Keys(fields) /\ next' \in 0 .. Len(flags.sets)
    BY <1>1, <1>2, <2>1
  <2> QED BY <1>2, <2>1, <2>4, <2>5 DEF TypeOK
<1>8. CASE EndSets
  <2>1. pc' = "build" /\ UNCHANGED <<flags, next, fields, todo, diags, fatal>>
    BY <1>8 DEF EndSets
  <2> DEFINE d == [key |-> "desc", value |-> Str(flags.desc)]
  <2>2. d \in [key: oobeKeys, value: Value]
    BY <1>1, StrType DEF oobeKeys, stringKeys
  <2>3. extra' \in Seq([key: oobeKeys, value: Value])
    <3>1. extra' = extra \/ extra' = Append(extra, d)
      BY <1>8 DEF EndSets
    <3> HIDE DEF d
    <3>2. Append(extra, d) \in Seq([key: oobeKeys, value: Value])
      BY <1>2, <2>2, AppendProperties
    <3> QED BY <1>2, <3>1, <3>2
  <2>4. Keys(fields)' = Keys(fields)
    BY <2>1
  <2> QED BY <1>2, <2>1, <2>3, <2>4 DEF TypeOK, Places
<1>9. CASE BuildConfig
  <2>1. /\ pc' = "validate" /\ fields' = Fields /\ todo' = Keys(fields)'
        /\ UNCHANGED <<flags, next, extra, diags, fatal>>
    BY <1>9 DEF BuildConfig, Visit
  <2>2. Fields \in Seq(KV)
    BY <1>1, <1>3, FieldsAre
  <2> QED BY <1>2, <2>1, <2>2 DEF TypeOK, Places
<1>10. CASE ValidateKey
  <2>1. PICK k \in todo :
            /\ todo' = todo \ {k} /\ diags' = diags \cup Diags(k, Probe(fields)[k])
            /\ fatal' = (fatal \/ Mismatch(k, Probe(fields)[k]))
    BY <1>10 DEF ValidateKey
  <2>2. UNCHANGED <<pc, flags, next, extra, fields>>
    BY <1>10 DEF ValidateKey
  <2>3. k \in Strings
    BY <1>2, KeysType
  <2>4. diags' \subseteq {"warning", "error", "note"} \X Strings
    BY <1>2, <2>1, <2>3, DiagsType
  <2>5. fatal' \in BOOLEAN
    BY <2>1 DEF Mismatch
  <2>6. Keys(fields)' = Keys(fields) /\ todo' \subseteq Keys(fields)'
    BY <1>2, <2>1, <2>2
  <2> QED BY <1>2, <2>2, <2>4, <2>5, <2>6 DEF TypeOK
<1> QED BY <1>4, <1>5, <1>6, <1>7, <1>8, <1>9, <1>10 DEF Step

\* Every variable keeps its type for any command lines and files: what --set
\* gives has a key of the schema and a value (google.go:197-219).
THEOREM TypeCorrect == Spec => []TypeOK
<1>1. Init => TypeOK
  BY InitType
<1>2. TypeOK /\ [Step]_vars => TypeOK'
  BY StepType
<1> QED BY <1>1, <1>2, PTL DEF Spec

-----------------------------------------------------------------------------
(* What is gathered from the command line, and what is built from it.      *)

FromFlags == flags.config = NoFile
DescSetting == [key |-> "desc", value |-> Str(flags.desc)]

\* The good pairs taken so far are in extra, each at its place, and --desc
\* follows the last.
Gathered ==
    /\ \A n \in 1 .. next :
          PairGood(flags.sets[n]) /\ extra[n] = Setting(flags.sets[n])
    /\ pc \in {"flags", "sets"} => Len(extra) = next
    /\ pc \in {"sets", "build"} => FromFlags
    /\ pc \in {"build", "validate", "ok"} /\ FromFlags =>
          /\ next = Len(flags.sets)
          /\ Len(extra) = next + (IF flags.desc = Empty THEN 0 ELSE 1)
          /\ flags.desc # Empty => extra[next + 1] = DescSetting

\* The fields are those of the flags or those of the file.
Built ==
    /\ pc \in {"validate", "ok"} =>
          fields = IF FromFlags THEN Fields ELSE flags.config.fields
    /\ pc \in {"flags", "sets", "build"} => ~fatal
    /\ fatal => \E k \in Keys(fields) : Mismatch(k, OnDevice[k])

GInv == TypeOK /\ Gathered /\ Built /\ RefusedForAReason

\* A pair is good, or bad as the reference has it.
LEMMA GoodOrBad == ASSUME NEW p PROVE PairGood(p) \/ BadPair(p)
  BY DEF PairGood, BadPair, Known, NameOf, RawOf, Coerces, typeOf

\* The fields built from flags have their keys' types, each of them.
LEMMA FieldsTyped ==
    ASSUME TypeOK, Gathered, pc \in {"build", "validate", "ok"}, FromFlags,
           NEW n \in 1 .. Len(Fields)
    PROVE  Fields[n].value.type = typeOf(Fields[n].key)
<1> DEFINE a == Len(Automation)
<1>1. /\ flags \in Requests /\ flags.sets \in Seq(Pair) /\ Len(flags.sets) \in Nat
      /\ next = Len(flags.sets) /\ a \in Nat /\ Len(extra) \in Nat
      /\ extra \in Seq(KV)
  BY FlagsType, LenProperties, AutomationType, SettingsAreFields, SeqMonotonic
     DEF TypeOK, Gathered
<1>2. /\ Len(Fields) = 2 + a + Len(extra)
      /\ Fields[1] = [key |-> "enrollmentToken", value |-> Str(Token)]
      /\ Fields[2] = [key |-> "source", value |-> Str("PACKAGING_TOOL")]
      /\ \A m \in 1 .. a : Fields[2 + m] = Automation[m]
      /\ \A m \in 1 .. Len(extra) : Fields[2 + a + m] = extra[m]
  BY <1>1, FieldsAre
<1>3. /\ next \in Nat
      /\ flags.desc = Empty => Len(extra) = next
      /\ flags.desc # Empty => Len(extra) = next + 1 /\ extra[next + 1] = DescSetting
  <2>1. /\ Len(extra) = next + (IF flags.desc = Empty THEN 0 ELSE 1)
        /\ flags.desc # Empty => extra[next + 1] = DescSetting
    BY DEF Gathered
  <2>2. next \in Nat
    BY <1>1
  <2>3. Len(extra) = IF flags.desc = Empty THEN next + 0 ELSE next + 1
    BY <2>1
  <2> QED BY <2>1, <2>2, <2>3
<1>4. CASE n = 1 \/ n = 2
  BY <1>2, <1>4 DEF Str, typeOf, boolKeys
<1>5. CASE n \in 3 .. 2 + a
  <2>1. PICK m \in 1 .. a : n = 2 + m
    <3>1. n - 2 \in 1 .. a /\ n = 2 + (n - 2)
      BY <1>1, <1>5
    <3> QED BY <3>1
  <2>2. Automation[m].key \in boolKeys /\ Automation[m].value.type = "bool"
    BY <2>1, AutomationType
  <2> QED BY <1>2, <2>1, <2>2 DEF typeOf
<1>6. CASE n \in 3 + a .. 2 + a + Len(extra)
  <2>1. PICK m \in 1 .. Len(extra) : n = 2 + a + m
    <3>1. n - (2 + a) \in 1 .. Len(extra) /\ n = 2 + a + (n - (2 + a))
      BY <1>1, <1>6
    <3> QED BY <3>1
  <2>2. Fields[n] = extra[m]
    BY <1>2, <2>1
  <2>3. CASE m \in 1 .. next
    <3>1. PairGood(flags.sets[m]) /\ extra[m] = Setting(flags.sets[m])
      BY <2>3 DEF Gathered
    <3>2. flags.sets[m] \in Pair
      BY <1>1, <2>3, ElementOfSeq
    <3> QED BY <2>2, <3>1, <3>2, SettingType
  <2>4. CASE m = next + 1
    <3>1. flags.desc # Empty
      BY <1>3, <2>1, <2>4
    <3>2. Fields[n] = DescSetting
      BY <1>3, <2>2, <2>4, <3>1
    <3> QED BY <3>2 DEF DescSetting, Str, typeOf, boolKeys
  <2>5. m \in 1 .. next \/ m = next + 1
    BY <1>3, <2>1
  <2> QED BY <2>3, <2>4, <2>5
<1> QED BY <1>1, <1>2, <1>4, <1>5, <1>6

\* So what was built from flags has no mismatch for ValidateConfig to find.
LEMMA BuiltMatches ==
    ASSUME TypeOK, Gathered, Built, pc \in {"validate", "ok"}, FromFlags,
           NEW k \in Keys(fields)
    PROVE  ~Mismatch(k, OnDevice[k])
<1>1. fields = Fields /\ fields \in Seq(KV)
  BY DEF Built, TypeOK
<1>2. PICK n \in 1 .. Len(fields) : fields[n].key = k /\ Probe(fields)[k] = fields[n].value
  BY <1>1, ProbeIsLast
<1>3. fields[n].value.type = typeOf(k)
  BY <1>1, <1>2, FieldsTyped
<1> QED BY <1>2, <1>3 DEF Mismatch, OnDevice

\* Nothing is gathered at first.
LEMMA InitGInv == ASSUME Init PROVE GInv
<1>1. next = 0 /\ extra = <<>> /\ pc = "flags" /\ fatal = FALSE
  BY DEF Init
<1>2. Len(extra) = 0
  BY <1>1, EmptySeq
<1> QED BY <1>1, <1>2, InitType DEF GInv, Gathered, Built, RefusedForAReason

\* Every step keeps it.
LEMMA StepGInv == ASSUME GInv, [Step]_vars PROVE GInv'
<1>0. TypeOK'
  BY StepType DEF GInv
<1>1. /\ flags \in Requests /\ flags.sets \in Seq(Pair) /\ Len(flags.sets) \in Nat
      /\ flags.token \in Strings /\ flags.desc \in Strings
      /\ flags.config \in File \cup {NoFile}
      /\ next \in 0 .. Len(flags.sets) /\ extra \in Seq([key: oobeKeys, value: Value])
      /\ Len(extra) \in Nat
  BY FlagsType, LenProperties DEF GInv, TypeOK
<1>2. Gathered /\ Built /\ RefusedForAReason
  BY DEF GInv
<1>3. CASE UNCHANGED vars
  <2>1. Gathered'
    BY <1>2, <1>3 DEF vars, Gathered, FromFlags, DescSetting
  <2>2. Built'
    BY <1>2, <1>3 DEF vars, Built, FromFlags, Fields, ToolFields, Automation, Token, OnDevice
  <2>3. RefusedForAReason'
    <3>1. OnDevice' = OnDevice
      BY <1>3 DEF vars, OnDevice
    <3> QED BY <1>2, <1>3, <3>1 DEF vars, RefusedForAReason
  <2> QED BY <1>0, <2>1, <2>2, <2>3 DEF GInv
<1>4. CASE RefuseFlags
  <2>1. /\ pc = "flags" /\ pc' = "error" /\ ~FlagsGood(flags)
        /\ UNCHANGED <<flags, next, extra, fields, todo, diags, fatal>>
    BY <1>4 DEF RefuseFlags
  <2> QED BY <1>0, <1>2, <2>1 DEF GInv, Gathered, Built, RefusedForAReason
<1>5. CASE LoadConfigFile
  <2>1. /\ pc = "flags" /\ pc' = "validate" /\ flags.config.kind \in {"object", "null"}
        /\ fields' = flags.config.fields
        /\ UNCHANGED <<flags, next, extra, fatal>>
    BY <1>5 DEF LoadConfigFile, Parses, Visit
  <2>2. ~FromFlags
    BY <2>1 DEF FromFlags, NoFile
  <2> QED BY <1>0, <1>2, <2>1, <2>2 DEF GInv, Gathered, Built, RefusedForAReason, FromFlags
<1>6. CASE LoadFails
  <2>1. /\ pc = "flags" /\ pc' = "error" /\ flags.config.kind \in {"missing", "junk"}
        /\ UNCHANGED <<flags, next, extra, fields, todo, diags, fatal>>
    BY <1>6 DEF LoadFails
  <2>2. flags.config # NoFile
    BY <2>1 DEF NoFile
  <2> QED BY <1>0, <1>2, <2>1, <2>2 DEF GInv, Gathered, Built, RefusedForAReason
<1>7. CASE StartSets
  <2>1. /\ pc = "flags" /\ pc' = "sets" /\ FromFlags
        /\ UNCHANGED <<flags, next, extra, fields, todo, diags, fatal>>
    BY <1>7 DEF StartSets, FromFlags
  <2> QED BY <1>0, <1>2, <2>1 DEF GInv, Gathered, Built, RefusedForAReason, FromFlags
<1>8. CASE TakePair
  <2> DEFINE p == flags.sets[next + 1]
  <2>1. /\ pc = "sets" /\ next < Len(flags.sets) /\ PairGood(p)
        /\ extra' = Append(extra, Setting(p)) /\ next' = next + 1
        /\ UNCHANGED <<pc, flags, fields, todo, diags, fatal>>
    BY <1>8 DEF TakePair, Setting
  <2>2. p \in Pair
    <3>1. next + 1 \in 1 .. Len(flags.sets)
      BY <1>1, <2>1
    <3> QED BY <1>1, <3>1, ElementOfSeq
  <2>3. Setting(p) \in [key: oobeKeys, value: Value]
    BY <2>1, <2>2, SettingType
  <2>4. Len(extra) = next
    BY <1>2, <2>1 DEF Gathered
  <2> HIDE DEF p
  <2>5. /\ Len(extra') = next + 1 /\ extra'[next + 1] = Setting(p)
        /\ \A n \in 1 .. next : extra'[n] = extra[n]
    BY <1>1, <2>1, <2>3, <2>4, AppendProperties
  <2>6. \A n \in 1 .. next' : PairGood(flags.sets[n]) /\ extra'[n] = Setting(flags.sets[n])
    <3> TAKE n \in 1 .. next'
    <3>1. n \in 1 .. next \/ n = next + 1
      BY <1>1, <2>1
    <3>2. CASE n \in 1 .. next
      BY <1>2, <2>5, <3>2 DEF Gathered
    <3>3. CASE n = next + 1
      BY <2>1, <2>5, <3>3 DEF p
    <3> QED BY <3>1, <3>2, <3>3
  <2>7. Gathered'
    BY <1>2, <2>1, <2>5, <2>6 DEF Gathered, FromFlags
  <2>8. Built' /\ RefusedForAReason'
    BY <1>2, <2>1 DEF Built, RefusedForAReason
  <2> QED BY <1>0, <2>7, <2>8 DEF GInv
<1>9. CASE RefusePair
  <2>1. /\ pc = "sets" /\ pc' = "error" /\ next < Len(flags.sets)
        /\ ~PairGood(flags.sets[next + 1])
        /\ UNCHANGED <<flags, next, extra, fields, todo, diags, fatal>>
    BY <1>9 DEF RefusePair
  <2>2. BadPair(flags.sets[next + 1]) /\ next + 1 \in DOMAIN flags.sets
    BY <1>1, <2>1, GoodOrBad, LenProperties
  <2>3. FromFlags
    BY <1>2, <2>1 DEF Gathered
  <2> QED BY <1>0, <1>2, <2>1, <2>2, <2>3
          DEF GInv, Gathered, Built, RefusedForAReason, FromFlags
<1>10. CASE EndSets
  <2>1. /\ pc = "sets" /\ pc' = "build" /\ next = Len(flags.sets)
        /\ extra' = IF flags.desc = Empty THEN extra ELSE Append(extra, DescSetting)
        /\ UNCHANGED <<flags, next, fields, todo, diags, fatal>>
    BY <1>10 DEF EndSets, DescSetting
  <2>2. DescSetting \in [key: oobeKeys, value: Value]
    BY <1>1, StrType DEF DescSetting, oobeKeys, stringKeys
  <2>3. Len(extra) = next
    BY <1>2, <2>1 DEF Gathered
  <2>4. CASE flags.desc = Empty
    BY <1>0, <1>2, <2>1, <2>3, <2>4 DEF GInv, Gathered, Built, RefusedForAReason, FromFlags
  <2>5. CASE flags.desc # Empty
    <3>1. /\ Len(extra') = next + 1 /\ extra'[next + 1] = DescSetting
          /\ \A n \in 1 .. next : extra'[n] = extra[n]
      BY <1>1, <2>1, <2>2, <2>3, <2>5, AppendProperties
    <3>2. DescSetting' = DescSetting
      BY <2>1 DEF DescSetting
    <3>3. Gathered'
      BY <1>2, <2>1, <2>5, <3>1, <3>2 DEF Gathered, FromFlags
    <3>4. Built' /\ RefusedForAReason'
      BY <1>2, <2>1 DEF Built, RefusedForAReason
    <3> QED BY <1>0, <3>3, <3>4 DEF GInv
  <2> QED BY <2>4, <2>5
<1>11. CASE BuildConfig
  <2>1. /\ pc = "build" /\ pc' = "validate" /\ fields' = Fields
        /\ UNCHANGED <<flags, next, extra, diags, fatal>>
    BY <1>11 DEF BuildConfig, Visit
  <2>2. FromFlags /\ Fields' = Fields
    BY <1>2, <2>1 DEF Gathered, Fields, ToolFields, Automation, Token
  <2> QED BY <1>0, <1>2, <2>1, <2>2
          DEF GInv, Gathered, Built, RefusedForAReason, FromFlags, DescSetting
<1>12. CASE RefuseToken
  <2>1. /\ pc = "build" /\ pc' = "error" /\ Token \notin UUIDs \ {Empty}
        /\ UNCHANGED <<flags, next, extra, fields, todo, diags, fatal>>
    BY <1>12 DEF RefuseToken
  <2>2. FromFlags /\ ToLower(TrimSpace(flags.token)) \notin UUIDs
    BY <1>2, <2>1, ConfigAssumption DEF Gathered, Token
  <2> QED BY <1>0, <1>2, <2>1, <2>2
          DEF GInv, Gathered, Built, RefusedForAReason, FromFlags
<1>13. CASE ValidateKey
  <2>1. PICK k \in todo : fatal' = (fatal \/ Mismatch(k, Probe(fields)[k]))
    BY <1>13 DEF ValidateKey
  <2>2. pc = "validate" /\ UNCHANGED <<pc, flags, next, extra, fields>>
    BY <1>13 DEF ValidateKey
  <2>3. k \in Keys(fields) /\ Keys(fields)' = Keys(fields) /\ OnDevice' = OnDevice
    BY <2>1, <2>2 DEF GInv, TypeOK, OnDevice
  <2>4. fatal' => \E q \in Keys(fields)' : Mismatch(q, OnDevice'[q])
    BY <1>2, <2>1, <2>3 DEF Built, OnDevice
  <2>5. Fields' = Fields
    BY <2>2 DEF Fields, ToolFields, Automation, Token
  <2>6. Built'
    BY <1>2, <2>2, <2>4, <2>5 DEF Built, FromFlags
  <2>7. Gathered' /\ RefusedForAReason'
    BY <1>2, <2>2 DEF Gathered, RefusedForAReason, FromFlags, DescSetting
  <2> QED BY <1>0, <2>6, <2>7 DEF GInv
<1>14. CASE Accept
  <2>1. /\ pc = "validate" /\ pc' = "ok"
        /\ UNCHANGED <<flags, next, extra, fields, todo, diags, fatal>>
    BY <1>14 DEF Accept
  <2>2. Fields' = Fields /\ OnDevice' = OnDevice
    BY <2>1 DEF Fields, ToolFields, Automation, Token, OnDevice
  <2> QED BY <1>0, <1>2, <2>1, <2>2
          DEF GInv, Gathered, Built, RefusedForAReason, FromFlags, DescSetting
<1>15. CASE Reject
  <2>1. /\ pc = "validate" /\ pc' = "error" /\ fatal
        /\ UNCHANGED <<flags, next, extra, fields, todo, diags, fatal>>
    BY <1>15 DEF Reject
  <2>2. PICK k \in Keys(fields) : Mismatch(k, OnDevice[k])
    BY <1>2, <2>1 DEF Built
  <2>3. ~FromFlags
    BY <1>2, <2>1, <2>2, BuiltMatches DEF GInv
  <2>4. k \in DOMAIN OnDevice \cap oobeKeys /\ OnDevice[k].type # typeOf(k)
    BY <2>2, ProbeDomain DEF Mismatch
  <2>5. OnDevice' = OnDevice
    BY <2>1 DEF OnDevice
  <2>6. RefusedForAReason'
    <3>1. ~SchemaOnlyKeysTyped(OnDevice) \/ ~ValidateConfiguration(OnDevice)
      BY <2>4 DEF SchemaOnlyKeysTyped, ValidateConfiguration
    <3> QED BY <2>1, <2>3, <2>5, <3>1 DEF RefusedForAReason, FromFlags
  <2>7. Gathered' /\ Built'
    BY <1>2, <2>1, <2>5 DEF Gathered, Built, FromFlags
  <2> QED BY <1>0, <2>6, <2>7 DEF GInv
<1> QED BY <1>3, <1>4, <1>5, <1>6, <1>7, <1>8, <1>9, <1>10, <1>11, <1>12, <1>13, <1>14, <1>15
        DEF Step

\* What was gathered and built, in every reachable state.
THEOREM Gathering == Spec => []GInv
<1>1. Init => GInv
  BY InitGInv
<1>2. GInv /\ [Step]_vars => GInv'
  BY StepGInv
<1> QED BY <1>1, <1>2, PTL DEF Spec

\* A command line is refused only for what is wrong with it, and a config built
\* from flags never for a type (inject.go:199, google.go:207-218).
THEOREM RefusalsHaveReasons == Spec => []RefusedForAReason
  BY Gathering, PTL DEF GInv

\* When a config from flags was accepted, the map has what the last field of
\* each key says.
LEMMA AcceptedFields ==
    ASSUME GInv, pc = "ok", FromFlags
    PROVE  /\ fields = Fields /\ fields \in Seq(KV) /\ flags.sets \in Seq(Pair)
           /\ Len(flags.sets) \in Nat /\ Len(Automation) \in Nat
           /\ Len(fields) = 2 + Len(Automation) + Len(flags.sets)
                                + (IF flags.desc = Empty THEN 0 ELSE 1)
           /\ fields[1] = [key |-> "enrollmentToken", value |-> Str(Token)]
           /\ fields[2] = [key |-> "source", value |-> Str("PACKAGING_TOOL")]
           /\ \A n \in 1 .. Len(Automation) : fields[2 + n] = Automation[n]
           /\ \A n \in 1 .. Len(flags.sets) :
                 /\ PairGood(flags.sets[n])
                 /\ fields[2 + Len(Automation) + n] = Setting(flags.sets[n])
           /\ flags.desc # Empty =>
                 fields[2 + Len(Automation) + Len(flags.sets) + 1] = DescSetting
<1> DEFINE a == Len(Automation)
           l == Len(flags.sets)
<1>1. /\ flags \in Requests /\ flags.sets \in Seq(Pair) /\ l \in Nat
      /\ a \in Nat /\ Len(extra) \in Nat /\ extra \in Seq(KV)
  BY FlagsType, LenProperties, AutomationType, SettingsAreFields, SeqMonotonic
     DEF GInv, TypeOK
<1>2. /\ Len(Fields) = 2 + a + Len(extra)
      /\ Fields[1] = [key |-> "enrollmentToken", value |-> Str(Token)]
      /\ Fields[2] = [key |-> "source", value |-> Str("PACKAGING_TOOL")]
      /\ \A m \in 1 .. a : Fields[2 + m] = Automation[m]
      /\ \A m \in 1 .. Len(extra) : Fields[2 + a + m] = extra[m]
  BY <1>1, FieldsAre
<1>3. /\ next = l /\ Len(extra) = l + (IF flags.desc = Empty THEN 0 ELSE 1)
      /\ flags.desc # Empty => extra[l + 1] = DescSetting
      /\ \A n \in 1 .. l : PairGood(flags.sets[n]) /\ extra[n] = Setting(flags.sets[n])
  BY DEF GInv, Gathered
<1>4. fields = Fields /\ fields \in Seq(KV)
  BY DEF GInv, Built, TypeOK
<1> HIDE DEF a, l
<1>5. Len(fields) = 2 + a + l + (IF flags.desc = Empty THEN 0 ELSE 1)
  BY <1>1, <1>2, <1>3, <1>4
<1>6. \A n \in 1 .. l : PairGood(flags.sets[n]) /\ fields[2 + a + n] = Setting(flags.sets[n])
  <2> TAKE n \in 1 .. l
  <2>1. n \in 1 .. Len(extra)
    BY <1>1, <1>3
  <2> QED BY <1>2, <1>3, <1>4, <2>1
<1>7. ASSUME flags.desc # Empty PROVE fields[2 + a + l + 1] = DescSetting
  <2>1. l + 1 \in 1 .. Len(extra) /\ 2 + a + (l + 1) = 2 + a + l + 1
    BY <1>1, <1>3, <1>7
  <2>2. Fields[2 + a + (l + 1)] = extra[l + 1]
    BY <1>2, <2>1
  <2> QED BY <1>3, <1>4, <1>7, <2>1, <2>2
<1> QED BY <1>1, <1>2, <1>4, <1>5, <1>6, <1>7 DEF a, l

\* No later field has a key that neither --automate-setup, nor a --set, nor
\* --desc gives.
LEMMA ToolFieldStays ==
    ASSUME GInv, pc = "ok", FromFlags, NEW n \in {1, 2},
           fields[n].key \notin Names(flags) \cup boolKeys \cup {"desc"},
           n = 1 => fields[2].key # fields[1].key
    PROVE  fields[n].key \in Keys(fields) /\ OnDevice[fields[n].key] = fields[n].value
<1> DEFINE a == Len(Automation)
           l == Len(flags.sets)
<1>1. /\ fields \in Seq(KV) /\ flags.sets \in Seq(Pair) /\ l \in Nat /\ a \in Nat
      /\ Len(fields) = 2 + a + l + (IF flags.desc = Empty THEN 0 ELSE 1)
      /\ \A q \in 1 .. a : fields[2 + q] = Automation[q]
      /\ \A q \in 1 .. l : fields[2 + a + q] = Setting(flags.sets[q])
      /\ flags.desc # Empty => fields[2 + a + l + 1] = DescSetting
  BY AcceptedFields
<1> HIDE DEF a, l
<1>2. ASSUME NEW m \in n + 1 .. Len(fields) PROVE fields[m].key # fields[n].key
  <2>1. CASE m = 2
    BY <2>1
  <2>2. CASE m \in 3 .. 2 + a
    <3>1. m - 2 \in 1 .. a /\ m = 2 + (m - 2)
      BY <1>1, <2>2
    <3>2. fields[m] = Automation[m - 2]
      BY <1>1, <3>1
    <3>3. fields[m].key \in boolKeys
      BY <3>1, <3>2, AutomationType DEF a
    <3> QED BY <3>3
  <2>3. CASE m \in 3 + a .. 2 + a + l
    <3>1. m - (2 + a) \in 1 .. l /\ m = 2 + a + (m - (2 + a))
      BY <1>1, <2>3
    <3>2. fields[m] = Setting(flags.sets[m - (2 + a)])
      BY <1>1, <3>1
    <3>3. m - (2 + a) \in DOMAIN flags.sets
      BY <1>1, <3>1, LenProperties DEF l
    <3>4. fields[m].key \in Names(flags)
      BY <3>2, <3>3 DEF Names, Setting
    <3> QED BY <3>4
  <2>4. CASE m = 2 + a + l + 1
    <3>1. fields[m].key = "desc"
      <4>1. flags.desc # Empty
        BY <1>1, <2>4
      <4> QED BY <1>1, <2>4, <4>1 DEF DescSetting
    <3> QED BY <3>1
  <2> QED BY <1>1, <2>1, <2>2, <2>3, <2>4
<1>3. n \in 1 .. Len(fields)
  BY <1>1
<1> QED BY <1>1, <1>2, <1>3, ProbeAt DEF OnDevice

\* The token arrives, lowercase, and under the documented source, unless a --set
\* names the key (inject.go:166-197).
THEOREM TokenArrives == Spec => []TokenDelivered
<1>1. GInv => TokenDelivered
  <2> SUFFICES ASSUME GInv, pc = "ok", flags.config = NoFile
               PROVE  /\ "enrollmentToken" \notin Names(flags) =>
                            Delivered["enrollmentToken"] = Str(Token)
                      /\ "source" \notin Names(flags) =>
                            Delivered["source"] = Str("PACKAGING_TOOL")
    BY DEF TokenDelivered, Token
  <2>1. /\ fields[1] = [key |-> "enrollmentToken", value |-> Str(Token)]
        /\ fields[2] = [key |-> "source", value |-> Str("PACKAGING_TOOL")]
    BY AcceptedFields DEF FromFlags
  <2>2. DOMAIN OnDevice = Keys(fields)
    BY ProbeDomain
  <2>3. ASSUME "enrollmentToken" \notin Names(flags)
        PROVE  Delivered["enrollmentToken"] = Str(Token)
    <3>1. "enrollmentToken" \in Keys(fields) /\ OnDevice["enrollmentToken"] = Str(Token)
      BY <2>1, <2>3, ToolFieldStays DEF FromFlags, boolKeys
    <3> QED BY <2>2, <3>1 DEF Delivered, FilterConfiguration, kAllConfigurationKeys,
                Registered, oobeKeys, stringKeys
  <2>4. ASSUME "source" \notin Names(flags)
        PROVE  Delivered["source"] = Str("PACKAGING_TOOL")
    <3>1. "source" \in Keys(fields) /\ OnDevice["source"] = Str("PACKAGING_TOOL")
      BY <2>1, <2>4, ToolFieldStays DEF FromFlags, boolKeys
    <3> QED BY <2>2, <3>1 DEF Delivered, FilterConfiguration, kAllConfigurationKeys,
                Registered, oobeKeys, stringKeys
  <2> QED BY <2>3, <2>4
<1> QED BY <1>1, Gathering, PTL

\* The last setting of a key wins, over --automate-setup and earlier settings
\* (inject.go:180-197).
THEOREM LastWins == Spec => []LastSettingWins
<1>1. GInv => LastSettingWins
  <2> SUFFICES ASSUME GInv, pc = "ok", flags.config = NoFile, NEW i \in DOMAIN flags.sets,
                      NEW p, p = flags.sets[i],
                      \A j \in i + 1 .. Len(flags.sets) : NameOf(flags.sets[j]) # NameOf(p),
                      ~ (NameOf(p) = "desc" /\ flags.desc # Empty)
               PROVE  \/ OnDevice[NameOf(p)].val = RawOf(p)
                      \/ /\ NameOf(p) \in boolKeys
                         /\ OnDevice[NameOf(p)].val = (IF RawOf(p) \in Truthy THEN "true" ELSE "false")
    BY DEF LastSettingWins
  <2> DEFINE a == Len(Automation)
             l == Len(flags.sets)
             n == 2 + a + i
  <2>1. /\ fields \in Seq(KV) /\ flags.sets \in Seq(Pair) /\ l \in Nat /\ a \in Nat
        /\ Len(fields) = 2 + a + l + (IF flags.desc = Empty THEN 0 ELSE 1)
        /\ \A q \in 1 .. l : fields[2 + a + q] = Setting(flags.sets[q])
        /\ flags.desc # Empty => fields[2 + a + l + 1] = DescSetting
    BY AcceptedFields DEF FromFlags
  <2>2. i \in 1 .. l
    BY <2>1, LenProperties
  <2> HIDE DEF a, l
  <2>3. fields[n] = Setting(p) /\ fields[n].key = NameOf(p)
    BY <2>1, <2>2 DEF Setting
  <2>4. ASSUME NEW m \in n + 1 .. Len(fields) PROVE fields[m].key # fields[n].key
    <3>1. CASE m \in n + 1 .. 2 + a + l
      <4>1. m - (2 + a) \in i + 1 .. l /\ m - (2 + a) \in 1 .. l /\ m = 2 + a + (m - (2 + a))
        BY <2>1, <2>2, <3>1
      <4>2. fields[m] = Setting(flags.sets[m - (2 + a)])
        BY <2>1, <4>1
      <4>3. NameOf(flags.sets[m - (2 + a)]) # NameOf(p)
        BY <4>1 DEF l
      <4> QED BY <2>3, <4>2, <4>3 DEF Setting
    <3>2. CASE m = 2 + a + l + 1
      <4>1. flags.desc # Empty
        BY <2>1, <2>2, <3>2
      <4>2. fields[m].key = "desc"
        BY <2>1, <3>2, <4>1 DEF DescSetting
      <4> QED BY <2>3, <4>1, <4>2
    <3> QED BY <2>1, <2>2, <3>1, <3>2
  <2>5. n \in 1 .. Len(fields)
    BY <2>1, <2>2
  <2> HIDE DEF n
  <2>6. Probe(fields)[NameOf(p)] = Coerce(NameOf(p), RawOf(p))
    BY <2>1, <2>3, <2>4, <2>5, ProbeAt DEF Setting
  <2> QED BY <2>6 DEF OnDevice, Coerce, Str, typeOf
<1> QED BY <1>1, Gathering, PTL
=============================================================================
