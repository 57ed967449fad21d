----------------------------- MODULE MCScavenger -----------------------------
(***************************************************************************)
(* Scavenger for TLC: two threads of the program, one scavenger thread at  *)
(* a time (OneScavenger counts the threads under creation too), and a page *)
(* of each of two kinds.                                                   *)
(***************************************************************************)
EXTENDS Scavenger

CONSTANTS c1, c2, w1, small, large

OneOfTwoKinds == [p \in Pages |-> IF p = small THEN 1 ELSE 3]
=============================================================================
