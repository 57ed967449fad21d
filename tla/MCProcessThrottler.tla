-------------------------- MODULE MCProcessThrottler --------------------------
(***************************************************************************)
(* ProcessThrottler for TLC; its constants are numbers.                    *)
(***************************************************************************)
EXTENDS ProcessThrottler
=============================================================================
