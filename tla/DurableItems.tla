---------------------------- MODULE DurableItems ----------------------------
(***************************************************************************)
(* What a local storage area promises about persistence: the items are     *)
(* saved some time after they change, and a crash takes them back to a     *)
(* state they really had since the last save, never to a mixture.          *)
(***************************************************************************)
EXTENDS Naturals

CONSTANTS
  States,   \* contents an area can have
  Initial   \* the contents of an area nobody wrote to

VARIABLES
  items,    \* what scripts read
  saved,    \* what a crash would leave
  since,    \* the states the items had since "saved" was one of them
  crashes   \* how often the process died; nothing else may take items back

vars == <<items, saved, since, crashes>>

Init == items = Initial /\ saved = Initial /\ since = {Initial} /\ crashes = 0

Change ==
  /\ items' \in States
  /\ since' = since \union {items'}
  /\ UNCHANGED <<saved, crashes>>

Save ==
  /\ saved' \in since
  /\ since' \in {s \in SUBSET since : {saved', items} \subseteq s}
  /\ UNCHANGED <<items, crashes>>

\* Deleting the entries of an origin saves at once.
Delete ==
  /\ items' = Initial /\ saved' = Initial
  /\ since' = {Initial}
  /\ UNCHANGED crashes

Crash ==
  /\ crashes' = crashes + 1
  /\ items' = saved
  /\ since' = {saved}
  /\ UNCHANGED saved

Next == Change \/ Save \/ Delete \/ Crash

Spec == Init /\ [][Next]_vars

=============================================================================
