---------------------------- MODULE MCConnection ----------------------------
(***************************************************************************)
(* Connection for TLC: the UI process and one web process.                 *)
(***************************************************************************)
EXTENDS Connection

CONSTANTS ui, web

Sends(u, w) == [p \in {ui, web} |-> IF p = ui THEN u ELSE w]
Sends11 == Sends(1, 1)
Sends12 == Sends(1, 2)
Sends22 == Sends(2, 2)
=============================================================================
