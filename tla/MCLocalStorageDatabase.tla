----------------------- MODULE MCLocalStorageDatabase -----------------------
(***************************************************************************)
(* LocalStorageDatabase for TLC: two keys and up to two values.            *)
(***************************************************************************)
EXTENDS LocalStorageDatabase

CONSTANTS k1, k2, v1, v2
=============================================================================
