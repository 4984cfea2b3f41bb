---------------------------- MODULE ConfigStore ----------------------------
(***************************************************************************)
(* What injecting promises about the config, whatever is under it.         *)
(*                                                                         *)
(* An image has a config or none.  A request may put one where there is    *)
(* none, and then it appears whole; it may replace one, contents first and *)
(* length after; it may do either only when the request allows it; and it  *)
(* may claim success only when the config is what was asked for.  It may   *)
(* fail, or be interrupted, at any time.                                   *)
(***************************************************************************)
EXTENDS Integers

CONSTANTS Contents, Length(_), Absent

VARIABLES
    config,   \* Absent, or the contents and length a reader sees
    request,  \* what the run in progress was asked for
    outcome   \* "running", or how the last run ended

storeVars == <<config, request, outcome>>

Whole(d) == [data |-> d, size |-> Length(d)]

\* A run starts, with a new request.
Ask ==
    /\ outcome # "running"
    /\ outcome' = "running"
    /\ request' \in [data: Contents, force: BOOLEAN, dry: BOOLEAN]
    /\ UNCHANGED config

\* The config appears, whole and at once.
Put ==
    /\ outcome = "running" /\ ~request.dry
    /\ config = Absent
    /\ config' = Whole(request.data)
    /\ UNCHANGED <<request, outcome>>

\* The config is replaced: its contents change, then its length.
Replace ==
    /\ outcome = "running" /\ request.force /\ ~request.dry
    /\ config # Absent
    /\ \/ config' = [config EXCEPT !.data = request.data]
       \/ config.data = request.data /\ config' = Whole(request.data)
    /\ UNCHANGED <<request, outcome>>

\* The run ends; "ok" means that the config is there as asked.
Answer ==
    /\ outcome = "running"
    /\ outcome' \in {"ok", "error", "killed"}
    /\ outcome' = "ok" /\ ~request.dry => config = Whole(request.data)
    /\ UNCHANGED <<config, request>>

StoreNext == Ask \/ Put \/ Replace \/ Answer
=============================================================================
