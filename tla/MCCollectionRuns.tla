-------------------------- MODULE MCCollectionRuns --------------------------
(***************************************************************************)
(* TLC instances of CollectionRuns.                                        *)
(***************************************************************************)
EXTENDS CollectionRuns, TLC

CONSTANTS w1, w2, t1, t2

\* Tokens are interchangeable, and so are workers (safety runs only).
Symmetric == Permutations({w1, w2}) \cup Permutations({t1, t2})
=============================================================================
