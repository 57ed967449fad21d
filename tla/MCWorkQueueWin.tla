--------------------------- MODULE MCWorkQueueWin ---------------------------
(***************************************************************************)
(* WorkQueueWin for TLC: three functions, and which of them dispatch.      *)
(***************************************************************************)
EXTENDS WorkQueueWin

CONSTANTS f, g, h

OneDispatches == {<<f, g>>}
=============================================================================
