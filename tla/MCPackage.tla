----------------------------- MODULE MCPackage -----------------------------
(***************************************************************************)
(* Images of two chunks for TLC, with and without a config and an output   *)
(* from before.                                                            *)
(***************************************************************************)
EXTENDS Package, TLC

MCBases  == {"b1", "b2"}
MCData   == {"s", "l"}
MCSize   == "s" :> 1 @@ "l" :> 2
MCInodes == 1 .. 5

Disk(one, two) == [i \in MCInodes |-> IF i = 1 THEN one ELSE IF i = 2 THEN two ELSE <<>>]
Begin(in, out, one, two) ==
    [name |-> [n \in {"in", "out"} |-> IF n = "in" THEN in ELSE out], content |-> Disk(one, two)]

Clean  == NewImage("b1", NoConfig)
Tagged == NewImage("b1", Whole("s"))

\* -o never names the input, nor a link to it.
Apart ==
    {Begin(1, 0, Clean, <<>>), Begin(1, 2, Clean, Tagged), Begin(1, 0, Tagged, <<>>),
     Begin(1, 0, <<>>, <<>>), Begin(0, 2, <<>>, Tagged)}

ASSUME StartsAreUsual == StartsApart /\ StartsImages
=============================================================================
