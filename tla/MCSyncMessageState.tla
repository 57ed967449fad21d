------------------------- MODULE MCSyncMessageState -------------------------
(***************************************************************************)
(* SyncMessageState for TLC: two connections on one run loop.              *)
(***************************************************************************)
EXTENDS SyncMessageState

CONSTANTS a, b
=============================================================================
