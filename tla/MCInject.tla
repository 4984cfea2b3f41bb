----------------------------- MODULE MCInject -----------------------------
(***************************************************************************)
(* Inject on small images for TLC: the target is three names deep, as      *)
(* /unencrypted/flex_config/config.json is.                                *)
(***************************************************************************)
EXTENDS Inject, MCExt4

MCTarget == <<"u", "f", "c">>

\* The target is there, as after an earlier injection, and fills group 0.
HasConfig(csum) ==
    MkImage(csum,
        2 :> Dir(B(2), 3) @@ 4 :> Dir(B(3), 3) @@ 5 :> Dir(B(4), 2) @@ 6 :> File(B(5), "a"),
        B(2) :> DirBlock(csum, 2, 2, <<Rec(4, "u", 20, "dir")>>) @@
        B(3) :> DirBlock(csum, 4, 2, <<Rec(5, "f", 20, "dir")>>) @@
        B(4) :> DirBlock(csum, 5, 4, <<Rec(6, "c", 20, "file")>>) @@
        B(5) :> FileBlock("a"),
        {}, {})

\* A directory has the name of the config.
ConfigIsDir(csum) ==
    MkImage(csum,
        2 :> Dir(B(2), 3) @@ 4 :> Dir(B(3), 3) @@ 5 :> Dir(B(4), 3) @@ 6 :> Dir(B(5), 2),
        B(2) :> DirBlock(csum, 2, 2, <<Rec(4, "u", 20, "dir")>>) @@
        B(3) :> DirBlock(csum, 4, 2, <<Rec(5, "f", 20, "dir")>>) @@
        B(4) :> DirBlock(csum, 5, 4, <<Rec(6, "c", 20, "dir")>>) @@
        B(5) :> DirBlock(csum, 6, 5, <<>>),
        {}, {})

\* A file has the name of the first directory.
FileInTheWay(csum) ==
    MkImage(csum,
        2 :> Dir(B(2), 2) @@ 5 :> File(B(4), "a"),
        B(2) :> DirBlock(csum, 2, 2, <<Rec(5, "u", 20, "file")>>) @@
        B(4) :> FileBlock("a"),
        {}, {})

InjectImages ==
    {WithU("none"), WithFile("uuid"), Crowded("uuid"), Hashed("uuid"),
     HasConfig("uuid"), ConfigIsDir("none"), FileInTheWay("uuid")}

ASSUME InjectImagesAreClean ==
    \A img \in InjectImages :
        FsckClean(img) /\ SuperblockAgrees(img) /\ ChecksumsValid(img)
=============================================================================
