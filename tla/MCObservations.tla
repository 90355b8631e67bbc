--------------------------- MODULE MCObservations ---------------------------
(***************************************************************************)
(* TLC instance of Observations: two runs of query 2, and none of query 1, *)
(* whose subscription comes and goes.                                      *)
(* A day has two units of time and a month one day.                        *)
(***************************************************************************)
EXTENDS Observations

CONSTANTS r1, r2, direct, connecting

BothRunsOfTwo == [r \in Runs |-> 2]

Ids == [row \in Runs \X Keys |->
          CASE row = <<r1, direct>> -> 1
            [] row = <<r2, direct>> -> 2
            [] row = <<r1, connecting>> -> 3
            [] row = <<r2, connecting>> -> 4]

ExportRanges == {<<0, 3>>}
BackfillScopes == {<<0, 1>>}
=============================================================================
