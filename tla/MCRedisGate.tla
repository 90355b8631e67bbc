---------------------------- MODULE MCRedisGate ----------------------------
(***************************************************************************)
(* TLC instances of RedisGate.                                             *)
(***************************************************************************)
EXTENDS RedisGate, TLC

CONSTANTS s1, s2, r1, r2, t1, t2, t3

Symmetric == Permutations({s1, s2}) \cup Permutations({t1, t2, t3})
=============================================================================
