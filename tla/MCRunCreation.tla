---------------------------- MODULE MCRunCreation ----------------------------
(***************************************************************************)
(* TLC instances of RunCreation: one query (queries do not interact), with *)
(* two concurrent requests or with two subscriptions that share it.        *)
(***************************************************************************)
EXTENDS RunCreation, TLC

CONSTANTS q1, c1, s1, s2, p1, p2

OneQuery == [s \in Subs |-> q1]
OneProvider == [q \in Queries |-> c1]

Symmetric == Permutations({p1, p2}) \cup Permutations({s1, s2})
=============================================================================
