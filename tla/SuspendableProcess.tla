-------------------------- MODULE SuspendableProcess --------------------------
(***************************************************************************)
(* What the throttler promises about the web process it looks after: a     *)
(* running process is never suspended from one moment to the next.  It is  *)
(* first given time to clean up (Preparing), and from there it is either   *)
(* suspended or needed again, and does not stay there for ever.            *)
(***************************************************************************)
VARIABLE phase

TypeOK == phase \in {"Launching", "Running", "Preparing", "Suspended"}

Init == phase = "Launching"

Launched == phase = "Launching" /\ phase' \in {"Running", "Suspended"}

Prepare == phase = "Running" /\ phase' = "Preparing"

Decide == phase = "Preparing" /\ phase' \in {"Running", "Suspended"}

Resume == phase = "Suspended" /\ phase' = "Running"

Next == Launched \/ Prepare \/ Decide \/ Resume

\* Safety only, and with the end of every preparation.
Spec     == Init /\ [][Next]_phase
FairSpec == Spec /\ WF_phase(Decide)
=============================================================================
