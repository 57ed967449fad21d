----------------------------- MODULE RepeatedTask -----------------------------
(***************************************************************************)
(* What an AsyncTask promises: a function that runs once at a time, and    *)
(* after each request once more.  Requests made before it begins are       *)
(* served together.                                                        *)
(***************************************************************************)
VARIABLES
  requested,  \* a request has been made since the function last began
  busy        \* the function runs

vars == <<requested, busy>>

TypeOK == requested \in BOOLEAN /\ busy \in BOOLEAN

Init == requested = FALSE /\ busy = FALSE

Request == requested' = TRUE /\ UNCHANGED busy

Begin ==
  /\ requested /\ ~busy
  /\ requested' = FALSE /\ busy' = TRUE

Finish ==
  /\ busy /\ busy' = FALSE
  /\ UNCHANGED requested

Next == Request \/ Begin \/ Finish

Spec     == Init /\ [][Next]_vars
FairSpec == Spec /\ WF_vars(Begin)
=============================================================================
