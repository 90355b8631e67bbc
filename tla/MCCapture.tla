------------------------------ MODULE MCCapture ------------------------------
(***************************************************************************)
(* TLC instance of Capture: the two captures a collection waits for, and   *)
(* two matched responses, so that both may answer the same rule.           *)
(***************************************************************************)
EXTENDS Capture

CONSTANTS calendar, batch
=============================================================================
