----------------------------- MODULE MCRealtime -----------------------------
(***************************************************************************)
(* TLC instance of Realtime: two runs of which a snapshot shows one; the   *)
(* older one changes twice.                                                *)
(***************************************************************************)
EXTENDS Realtime

CONSTANTS me, other, p1, p2

OlderChanges == [r \in Runs |-> IF r = 1 THEN 3 ELSE 1]

Symmetric == Permutations(Publishers)
=============================================================================
