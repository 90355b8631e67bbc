---------------------------- MODULE RunLifecycle ----------------------------
(***************************************************************************)
(* What the collection pipeline promises for one row of collection_runs,   *)
(* whoever touches it: the scheduler, the API, a collector, or a collector *)
(* that the others have given up on.                                       *)
(*                                                                         *)
(* life: for each run its stage, the number of collection attempts that    *)
(*       were started, and the set of attempts whose fare data was saved.  *)
(*       Leases, messages and processes are absent here; CollectionRuns    *)
(*       implements this module.                                           *)
(***************************************************************************)
EXTENDS Naturals

CONSTANTS Runs,         \* identifiers of the rows that may ever exist
          MaxAttempts   \* collection_runs.max_attempts

VARIABLE life

Stages == {"absent", "waiting", "collecting", "succeeded", "failed"}

Life == [stage : Stages, attempt : 0..MaxAttempts, saved : SUBSET (1..MaxAttempts)]

Unborn == [stage |-> "absent", attempt |-> 0, saved |-> {}]

----------------------------------------------------------------------------
(* The steps of one run, as relations between its life before and after.   *)

Created(a, b) ==
  /\ a.stage = "absent"
  /\ b = [stage |-> "waiting", attempt |-> a.attempt, saved |-> a.saved]

\* A collector starts an attempt, or takes over an attempt that was abandoned.
Started(a, b) ==
  /\ a.stage \in {"waiting", "collecting"}
  /\ a.attempt < MaxAttempts
  /\ b = [stage |-> "collecting", attempt |-> a.attempt + 1, saved |-> a.saved]

\* Only a run with budget left may wait again.
Requeued(a, b) ==
  /\ a.stage = "collecting"
  /\ a.attempt < MaxAttempts
  /\ b = [stage |-> "waiting", attempt |-> a.attempt, saved |-> a.saved]

\* Data is saved by the attempt that is current, in the step that ends the run.
Succeeded(a, b) ==
  /\ a.stage = "collecting"
  /\ b = [stage |-> "succeeded", attempt |-> a.attempt,
         saved |-> a.saved \cup {a.attempt}]

\* A run may fail from any stage but the first: also after it succeeded, see
\* ClaimErrorRecorded in CollectionRuns.
Failed(a, b) ==
  /\ a.stage # "absent"
  /\ b = [stage |-> "failed", attempt |-> a.attempt, saved |-> a.saved]

Advance(a, b) ==
  \/ Created(a, b)
  \/ Started(a, b)
  \/ Requeued(a, b)
  \/ Succeeded(a, b)
  \/ Failed(a, b)

----------------------------------------------------------------------------
Init == life = [r \in Runs |-> Unborn]

\* One scheduler transaction may advance many runs at once.
Next ==
  /\ life' = [r \in Runs |-> life'[r]]
  /\ \A r \in Runs : life'[r] = life[r] \/ Advance(life[r], life'[r])

Spec == Init /\ [][Next]_life

----------------------------------------------------------------------------
(* A settled run never collects again, and whatever it saved it saved      *)
(* exactly once, under the last attempt it started.                        *)
SavedOnce ==
  \A r \in Runs :
    /\ life[r].saved \subseteq {life[r].attempt}
    /\ life[r].saved # {} => life[r].stage \in {"succeeded", "failed"}
=============================================================================
