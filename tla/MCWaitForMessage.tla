-------------------------- MODULE MCWaitForMessage --------------------------
(***************************************************************************)
(* WaitForMessage for TLC: two messages that match, a sync one, another.   *)
(***************************************************************************)
EXTENDS WaitForMessage

CONSTANTS w1, w2, s1, o1
=============================================================================
