---------------------------- MODULE MCManifest ----------------------------
(***************************************************************************)
(* Manifests for TLC: every sequence of up to four pieces, where a piece   *)
(* is a blank line, junk, or a few lines of a stanza, whole or not.        *)
(***************************************************************************)
EXTENDS Manifest, TLC

MCStrings ==
    {"", "url", "file", "channel", "md5", "sha1", "zipfilesize", "filesize", "flex-image-usb.bin",
     "u", "u1", "u2", "f1", "f2", "A1", "a1", "7", "77", "many", "stable", "STABLE", "Dev", "DEV", "dev ", "lts", "LTS"}
MCUpper ==
    "stable" :> "STABLE" @@ "Dev" :> "DEV" @@ "dev " :> "DEV" @@ "lts" :> "LTS"
MCLower == "A1" :> "a1"
MCNumber == "7" :> 7 @@ "77" :> 77
\* The beginnings that tell: none, a shorter one, all.
MCPrefixes ==
    [s \in MCStrings |->
        {"", s} \cup (CASE s \in {"u1", "u2"} -> {"u"} [] s = "77" -> {"7"} [] OTHER -> {})]
MCChannels == {"stable", "dev ", "lts"}

F(k, v) == [kind |-> "field", key |-> k, val |-> v]
Blank == [kind |-> "blank", key |-> "", val |-> ""]
Junk  == [kind |-> "junk", key |-> "", val |-> ""]

Pieces ==
    {<<Blank>>,
     <<Junk>>,
     <<F("url", "u1")>>,
     <<F("file", "f1"), F("channel", "stable")>>,
     <<F("channel", "Dev"), F("file", "f2"), F("filesize", "77"), F("url", "u2"), Blank>>,
     <<F("sha1", "A1"), F("url", "u1"), F("filesize", "many"), F("file", "f1"), F("channel", "STABLE")>>}

MCManifests ==
    {a \o b \o c \o d : a, b, c, d \in Pieces \cup {<<>>}}
=============================================================================
