------------------------------ MODULE MCConfig ------------------------------
(***************************************************************************)
(* Command lines and files for TLC.                                        *)
(***************************************************************************)
EXTENDS Config, TLC

MCStrings ==
    oobeKeys \cup Truthy \cup Falsy
    \cup {"", " ", "uuid", "UUID", " UUID", "text", " yes", " skipHidScreen",
          "skipHIDScreen", "PACKAGING_TOOL", "7"}
MCTrim  == " " :> "" @@ " UUID" :> "UUID" @@ " yes" :> "yes" @@ " skipHidScreen" :> "skipHidScreen"
MCLower == "UUID" :> "uuid"
MCUUIDs == {"uuid"}

V(t, s)   == [type |-> t, val |-> s]
KVOf(k, v) == [key |-> k, value |-> v]
P(n, r)   == [name |-> n, eq |-> TRUE, raw |-> r]

\* Fields of files: right and wrong types, unknown and unregistered keys, and
\* the same key again with another value.
Tokens    == {KVOf("enrollmentToken", v) : v \in {V("string", "uuid"), V("string", "text"), V("bool", "true")}}
Settings  == {KVOf("welcomeNext", V("bool", "true")), KVOf("welcomeNext", V("string", "true")),
              KVOf("language", V("number", "7")),
              KVOf("enrollmentAssetId", V("string", "text")), KVOf("enrollmentAssetId", V("number", "7")),
              KVOf("enrollmentAutoAttributes", V("bool", "true")),
              KVOf("skipHIDScreen", V("bool", "true")), KVOf("desc", V("string", "text"))}
Bodies == {<<>>} \cup {<<t>> : t \in Tokens}
    \cup {<<t, s>> : t \in Tokens, s \in Settings}
    \cup {<<t, s, u>> : t \in Tokens, s \in Settings, u \in Settings}
MCFiles ==
    {[kind |-> k, fields |-> <<>>] : k \in {"missing", "junk", "null"}}
    \cup {[kind |-> "object", fields |-> b] : b \in Bodies}

MCPairs ==
    {P("skipHidScreen", "true"), P(" skipHidScreen", " yes"), P("welcomeNext", "0"),
     P("welcomeNext", "text"), P("language", "text"), P("desc", "7"),
     P("enrollmentAssetId", "text"), P("enrollmentToken", "UUID"),
     P("source", "text"), P("skipHIDScreen", "true"),
     [name |-> "language", eq |-> FALSE, raw |-> ""]}
Sets(pairs) == {<<>>} \cup {<<p>> : p \in pairs} \cup {<<p, q>> : p \in pairs, q \in pairs}

Line(files, tokens, sets) ==
    [cmd: {"inject"}, image: {TRUE}, token: tokens, config: files, sets: sets,
     desc: {"", "text"}, automate: BOOLEAN, out: {FALSE}, inPlace: {FALSE}]
\* The flags that exclude each other.
Clashes ==
    [cmd: {"inject", "package"}, image: BOOLEAN, token: {"", "uuid"},
     config: {NoFile, [kind |-> "object", fields |-> <<>>]}, sets: {<<>>},
     desc: {""}, automate: {FALSE}, out: BOOLEAN, inPlace: BOOLEAN]

MCRequests ==
    Line({NoFile}, {" ", "uuid", "UUID", " UUID", "text"}, Sets(MCPairs))
    \cup Line(MCFiles, {""}, {<<>>})
    \cup {c \in Clashes : c.cmd = "inject" => ~c.inPlace}
=============================================================================
