------------------------------ MODULE MCExports ------------------------------
(***************************************************************************)
(* TLC instances of Exports.                                               *)
(***************************************************************************)
EXTENDS Exports, TLC

CONSTANTS w1, w2, s1, s2

\* Workers are interchangeable, and so are publishers (safety runs only).
Symmetric == Permutations({w1, w2}) \cup Permutations({s1, s2})
=============================================================================
