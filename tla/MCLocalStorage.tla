--------------------------- MODULE MCLocalStorage ---------------------------
(***************************************************************************)
(* LocalStorage for TLC: two web processes and up to two keys.      *)
(***************************************************************************)
EXTENDS LocalStorage

CONSTANTS p, q, k1, k2, v1
=============================================================================
