------------------------------- MODULE Shelf -------------------------------
(***************************************************************************)
(* What a download promises about the file it is asked for, whatever the   *)
(* network and the disk do.                                                *)
(*                                                                         *)
(* The file under the final name is what it was, until it is at once       *)
(* something the request accepts, at most once in a run.  A run that       *)
(* claims success has put it there and a run that fails has not; one that  *)
(* is killed may have done either.                                         *)
(***************************************************************************)
CONSTANTS
    Requests,        \* what may be asked for
    Accepts(_, _)    \* the contents a request accepts

VARIABLES
    shelf,     \* the contents under the final name, or none
    request,   \* of the run in progress
    published, \* the run in progress has put its file there
    outcome    \* "running", or how the last run ended

shelfVars == <<shelf, request, published, outcome>>

Ask ==
    /\ outcome # "running"
    /\ outcome' = "running"
    /\ request' \in Requests
    /\ UNCHANGED <<shelf, published>>

Publish ==
    /\ outcome = "running" /\ ~published
    /\ Accepts(request, shelf')
    /\ published' = TRUE
    /\ UNCHANGED <<request, outcome>>

Answer ==
    /\ outcome = "running"
    /\ \/ outcome' = "ok" /\ published /\ Accepts(request, shelf)
       \/ outcome' = "error" /\ ~published
       \/ outcome' = "killed"
    /\ published' = FALSE
    /\ UNCHANGED <<shelf, request>>

ShelfNext == Ask \/ Publish \/ Answer
=============================================================================
