------------------------------- MODULE Config -------------------------------
(***************************************************************************)
(* From the flags to the body of config.json: the flag checks of cmdInject *)
(* (main.go) and cmdPackageFlexImage (google.go), kvFlag.Fields,           *)
(* BuildConfig and LoadConfigFile (inject.go), and the schema with         *)
(* CoerceValue and ValidateConfig (schema.go).                             *)
(*                                                                         *)
(* A value is a JSON type and a text.  A config is its sequence of fields; *)
(* where a key comes twice its readers, encoding/json and Chromium's, take *)
(* the last.  strings.TrimSpace and ToLower are given, on the texts of the *)
(* instance, by functions.                                                 *)
(***************************************************************************)
EXTENDS Integers, Sequences

CONSTANTS
    Strings,   \* keys, values and texts
    Trim,      \* strings.TrimSpace(s), where it differs from s
    Lower,     \* strings.ToLower(s), where it differs from s
    UUIDs,     \* the texts uuidRE matches
    Requests   \* the command lines

Empty == ""
Value == [type: {"string", "bool", "number"}, val: Strings]
KV    == [key: Strings, value: Value]
Pair  == [name: Strings, eq: BOOLEAN, raw: Strings]

\* A file: it is not there, does not parse, or is an object, or null, which
\* decodes to no fields.
File   == [kind: {"missing", "junk", "object", "null"}, fields: Seq(KV)]
NoFile == [kind |-> "none", fields |-> <<>>]

Flags == [cmd: {"inject", "package"}, image: BOOLEAN, token: Strings,
          config: File \cup {NoFile}, sets: Seq(Pair), desc: Strings,
          automate: BOOLEAN, out: BOOLEAN, inPlace: BOOLEAN]

ASSUME ConfigAssumption ==
    /\ Requests \subseteq Flags
    /\ DOMAIN Trim \subseteq Strings /\ \A s \in DOMAIN Trim : Trim[s] \in Strings
    /\ DOMAIN Lower \subseteq Strings /\ \A s \in DOMAIN Lower : Lower[s] \in Strings
    /\ UUIDs \subseteq Strings \ {Empty}
    /\ \A r \in Requests : r.config.kind = "null" => r.config.fields = <<>>

VARIABLES
    pc,        \* where the command is
    flags,     \* the command line
    next,      \* --set pairs taken
    extra,     \* KVs from --set and --desc
    fields,    \* the config
    todo,      \* keys ValidateConfig has still to visit
    diags,     \* diagnostics and warnings printed
    fatal      \* a type mismatch was found

vars == <<pc, flags, next, extra, fields, todo, diags, fatal>>

TrimSpace(s) == IF s \in DOMAIN Trim THEN Trim[s] ELSE s
ToLower(s)   == IF s \in DOMAIN Lower THEN Lower[s] ELSE s

-----------------------------------------------------------------------------
(* The schema.                                                             *)

boolKeys ==
    {"welcomeNext", "enableDemoMode", "demoPreferencesNext", "networkOfflineDemo",
     "networkUseConnected", "eulaSendStatistics", "eulaAutoAccept",
     "arcTosAutoAccept", "enrollmentRestoreAfterRollback",
     "enrollmentAutoAttributes", "skipEnrollmentSuccessScreen",
     "skipUpdateOptOutScreen", "skipHidScreen"}
stringKeys ==
    {"language", "inputMethod", "networkSelectGuid", "networkConfig",
     "deviceRequisition", "enrollmentAssetId", "enrollmentLocation",
     "enrollmentToken", "source", "desc", "testValue"}
oobeKeys == boolKeys \cup stringKeys
\* The keys with a Warn of their own.
gotchas ==
    {"enableDemoMode", "networkConfig", "arcTosAutoAccept",
     "enrollmentRestoreAfterRollback", "enrollmentAssetId",
     "enrollmentAutoAttributes", "skipHidScreen"}
validSourceValues == {"PACKAGING_TOOL", "REMOTE_DEPLOYMENT"}
Registered == oobeKeys \ {"enrollmentAssetId", "enrollmentAutoAttributes"}

\* The zero KeySpec of an unknown key is a string's.
typeOf(k) == IF k \in boolKeys THEN "bool" ELSE "string"
Str(s)    == [type |-> "string", val |-> s]

Truthy == {"true", "1", "yes"}
Falsy  == {"false", "0", "no"}

\* The code's own texts are texts.
ASSUME SchemaAssumption == oobeKeys \cup Truthy \cup Falsy \cup {"PACKAGING_TOOL"} \subseteq Strings

\* CoerceValue: no value, or one.
Coerces(k, raw) == typeOf(k) = "bool" => raw \in Truthy \cup Falsy
CoerceRaw(k, raw) == Str(raw)
Coerce(k, raw) ==
    IF typeOf(k) = "bool"
    THEN [type |-> "bool", val |-> IF raw \in Truthy THEN "true" ELSE "false"]
    ELSE Str(raw)

\* What ValidateConfig says of one key.
MismatchOfBools(k, v) == k \in boolKeys /\ v.type # "bool"
Mismatch(k, v) == k \in oobeKeys /\ v.type # typeOf(k)

WarnedUnknown(k) == k \notin oobeKeys
Warned(k) == k \notin Registered
Noted(k, v) ==
    \/ k \in gotchas
    \/ k = "source" /\ v.type = "string" /\ v.val \notin validSourceValues
Diags(k, v) ==
    {<<level, k>> : level \in
        (IF Warned(k) THEN {"warning"} ELSE {})
        \cup (IF Mismatch(k, v) THEN {"error"} ELSE {})
        \cup (IF Noted(k, v) THEN {"note"} ELSE {})}

\* What a decoder makes of the fields: the last value of each key.
Keys(fs) == {fs[i].key : i \in DOMAIN fs}
Probe(fs) ==
    [k \in Keys(fs) |->
        LET last == CHOOSE i \in DOMAIN fs :
                        fs[i].key = k /\ \A j \in i + 1 .. Len(fs) : fs[j].key # k
        IN  fs[last].value]

-----------------------------------------------------------------------------
(* The command line.                                                       *)

Places == {"flags", "sets", "build", "validate", "ok", "error"}

\* Every variable has its type, and what --set and --desc gave is in the
\* schema: a name that is not never gets past the flag (google.go:207).
TypeOK ==
    /\ pc \in Places
    /\ flags \in Requests
    /\ next \in 0 .. Len(flags.sets)
    /\ extra \in Seq([key: oobeKeys, value: Value])
    /\ fields \in Seq(KV)
    /\ todo \subseteq Keys(fields)
    /\ diags \subseteq {"warning", "error", "note"} \X Strings
    /\ fatal \in BOOLEAN

Init ==
    /\ pc = "flags"
    /\ flags \in Requests
    /\ next = 0 /\ extra = <<>> /\ fields = <<>> /\ todo = {}
    /\ diags = {} /\ fatal = FALSE

FlagsGood(f) ==
    /\ f.image
    /\ (f.token = Empty) # (f.config = NoFile)
    /\ f.cmd = "package" => f.inPlace # f.out

RefuseFlags ==
    /\ pc = "flags" /\ ~FlagsGood(flags)
    /\ pc' = "error"
    /\ UNCHANGED <<flags, next, extra, fields, todo, diags, fatal>>

Visit(fs) == fields' = fs /\ todo' = Keys(fs) /\ pc' = "validate"

\* LoadConfigFile: an odd token is worth a warning only, and null is taken for a
\* dictionary with nothing in it, as json.Unmarshal does (inject.go:248).  What a
\* device makes of a null the repository does not say: it is valid below.
Parses(file) == file.kind \in {"object", "null"}
OddToken(fs) ==
    /\ "enrollmentToken" \in Keys(fs)
    /\ Probe(fs)["enrollmentToken"].type = "string"
    /\ Probe(fs)["enrollmentToken"].val \notin UUIDs

LoadConfigFile ==
    /\ pc = "flags" /\ FlagsGood(flags) /\ Parses(flags.config)
    /\ diags' = IF OddToken(flags.config.fields) THEN {<<"warning", "enrollmentToken">>} ELSE {}
    /\ Visit(flags.config.fields)
    /\ UNCHANGED <<flags, next, extra, fatal>>

LoadFails ==
    /\ pc = "flags" /\ FlagsGood(flags)
    /\ flags.config.kind \in {"missing", "junk"}
    /\ pc' = "error"
    /\ UNCHANGED <<flags, next, extra, fields, todo, diags, fatal>>

StartSets ==
    /\ pc = "flags" /\ FlagsGood(flags) /\ flags.config = NoFile
    /\ pc' = "sets"
    /\ UNCHANGED <<flags, next, extra, fields, todo, diags, fatal>>

\* kvFlag.Fields, one pair at a time.
NameOf(p) == TrimSpace(p.name)
RawOf(p)  == TrimSpace(p.raw)
KnownAlways(k) == TRUE
Known(k)  == k \in oobeKeys
PairGood(p) == p.eq /\ Known(NameOf(p)) /\ Coerces(NameOf(p), RawOf(p))

TakePair ==
    LET p == flags.sets[next + 1]
    IN  /\ pc = "sets" /\ next < Len(flags.sets) /\ PairGood(p)
        /\ extra' = Append(extra, [key |-> NameOf(p), value |-> Coerce(NameOf(p), RawOf(p))])
        /\ next' = next + 1
        /\ UNCHANGED <<pc, flags, fields, todo, diags, fatal>>

RefusePair ==
    /\ pc = "sets" /\ next < Len(flags.sets) /\ ~PairGood(flags.sets[next + 1])
    /\ pc' = "error"
    /\ UNCHANGED <<flags, next, extra, fields, todo, diags, fatal>>

EndSets ==
    /\ pc = "sets" /\ next = Len(flags.sets)
    /\ extra' = IF flags.desc = Empty THEN extra
                ELSE Append(extra, [key |-> "desc", value |-> Str(flags.desc)])
    /\ pc' = "build"
    /\ UNCHANGED <<flags, next, fields, todo, diags, fatal>>

-----------------------------------------------------------------------------
(* BuildConfig and ValidateConfig.                                         *)

Token == ToLower(TrimSpace(flags.token))

automateSetupKeys ==
    [i \in 1 .. 4 |->
        [key |-> <<"welcomeNext", "networkUseConnected", "eulaAutoAccept",
                   "skipEnrollmentSuccessScreen">>[i],
         value |-> [type |-> "bool", val |-> "true"]]]
Automation == IF flags.automate THEN automateSetupKeys ELSE <<>>
ToolFieldsAsTyped ==
    <<[key |-> "enrollmentToken", value |-> Str(TrimSpace(flags.token))],
      [key |-> "source", value |-> Str("PACKAGING_TOOL")]>>
ToolFields ==
    <<[key |-> "enrollmentToken", value |-> Str(Token)],
      [key |-> "source", value |-> Str("PACKAGING_TOOL")]>>

FieldsExtraFirst == extra \o ToolFields \o Automation
Fields == ToolFields \o Automation \o extra

BuildConfig ==
    /\ pc = "build" /\ Token # Empty /\ Token \in UUIDs
    /\ Visit(Fields)
    /\ UNCHANGED <<flags, next, extra, diags, fatal>>

RefuseToken ==
    /\ pc = "build" /\ Token \notin UUIDs \ {Empty}
    /\ pc' = "error"
    /\ UNCHANGED <<flags, next, extra, fields, todo, diags, fatal>>

\* A Go map is visited in any order.
ValidateKey ==
    /\ pc = "validate"
    /\ \E k \in todo :
          /\ todo' = todo \ {k}
          /\ diags' = diags \cup Diags(k, Probe(fields)[k])
          /\ fatal' = (fatal \/ Mismatch(k, Probe(fields)[k]))
    /\ UNCHANGED <<pc, flags, next, extra, fields>>

Accept ==
    /\ pc = "validate" /\ todo = {} /\ ~fatal
    /\ pc' = "ok"
    /\ UNCHANGED <<flags, next, extra, fields, todo, diags, fatal>>

Reject ==
    /\ pc = "validate" /\ todo = {} /\ fatal
    /\ pc' = "error"
    /\ UNCHANGED <<flags, next, extra, fields, todo, diags, fatal>>

Step ==
    \/ RefuseFlags \/ LoadConfigFile \/ LoadFails \/ StartSets
    \/ TakePair \/ RefusePair \/ EndSets
    \/ BuildConfig \/ RefuseToken \/ ValidateKey \/ Accept \/ Reject

Spec == Init /\ [][Step]_vars

-----------------------------------------------------------------------------
(* Properties.  The reference is Chromium, as schema.go:8-22 tells it:     *)
(* ValidateConfiguration checks the types of the keys in                   *)
(* kAllConfigurationKeys and of no other, FilterConfiguration delivers     *)
(* those keys and no other, and desc reaches no handler.                   *)

\* The table has enrollmentLocation twice, as STRING and as BOOLEAN
\* (README.md:256), and a key is removed at its first check (schema.go:10): the
\* STRING counts.
kAllConfigurationKeys == Registered
ValidateConfiguration(cfg) ==
    \A k \in DOMAIN cfg \cap kAllConfigurationKeys : cfg[k].type = typeOf(k)
FilterConfiguration(cfg) ==
    [k \in DOMAIN cfg \cap (kAllConfigurationKeys \ {"desc"}) |-> cfg[k]]

OnDevice  == Probe(fields)
Delivered == FilterConfiguration(OnDevice)

\* What is written into the image is never refused on the device: "problems
\* surface here rather than on a device that quietly fails to enrol"
\* (inject.go:199).
AcceptedIsValid == pc = "ok" => ValidateConfiguration(OnDevice)

Names(f) == {NameOf(f.sets[i]) : i \in DOMAIN f.sets}

\* The token given with --token arrives, as a lowercase UUID, and under the
\* documented source, unless a --set names the same key.
TokenDelivered ==
    pc = "ok" /\ flags.config = NoFile =>
        /\ "enrollmentToken" \notin Names(flags) =>
              Delivered["enrollmentToken"] = Str(ToLower(TrimSpace(flags.token)))
        /\ "source" \notin Names(flags) => Delivered["source"] = Str("PACKAGING_TOOL")

\* What the operator set by hand wins over what --automate-setup adds and over
\* an earlier --set of the same key; --desc wins over --set desc.
LastSettingWins ==
    pc = "ok" /\ flags.config = NoFile =>
        \A i \in DOMAIN flags.sets :
            LET p == flags.sets[i]
            IN  \/ \E j \in i + 1 .. Len(flags.sets) : NameOf(flags.sets[j]) = NameOf(p)
                \/ NameOf(p) = "desc" /\ flags.desc # Empty
                \/ OnDevice[NameOf(p)].val = RawOf(p)
                \/ NameOf(p) \in boolKeys
                      /\ OnDevice[NameOf(p)].val = (IF RawOf(p) \in Truthy THEN "true" ELSE "false")

\* "an unregistered key is silently dropped ... the difference between a key
\* that works and a key that looks like it works" (schema.go:19-22): whatever
\* the device will drop, but the note in desc, the operator was told of.
NothingDroppedSilently ==
    pc = "ok" =>
        \A k \in DOMAIN OnDevice :
            \/ k \in DOMAIN Delivered \/ k = "desc"
            \/ <<"warning", k>> \in diags

BadPair(p) ==
    \/ ~p.eq \/ TrimSpace(p.name) \notin oobeKeys
    \/ TrimSpace(p.name) \in boolKeys /\ TrimSpace(p.raw) \notin Truthy \cup Falsy
SchemaOnlyKeysTyped(cfg) ==
    \A k \in DOMAIN cfg \cap (oobeKeys \ kAllConfigurationKeys) : cfg[k].type = typeOf(k)

\* A command line is refused only for what is wrong with it.  A config built
\* from flags is never found to be invalid: each value was given its key's
\* type at the flag.  A file is refused only where Chromium would reject it
\* (schema.go:188), unless it gives a key that is in the schema and not in
\* kAllConfigurationKeys another type: Chromium drops such a key, and schema.go:198
\* makes it fatal all the same.  Those files are left out.
RefusedForAReason ==
    pc = "error" /\ SchemaOnlyKeysTyped(OnDevice) =>
        \/ ~FlagsGood(flags)
        \/ /\ flags.config # NoFile
           /\ \/ flags.config.kind \in {"missing", "junk"}
              \/ ~ValidateConfiguration(OnDevice)
        \/ /\ flags.config = NoFile
           /\ \/ \E i \in DOMAIN flags.sets : BadPair(flags.sets[i])
              \/ ToLower(TrimSpace(flags.token)) \notin UUIDs
=============================================================================
