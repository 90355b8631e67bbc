----------------------------- MODULE ExportLife -----------------------------
(***************************************************************************)
(* What an export job promises its owner, whoever touches its row: the     *)
(* API, the workers, the maintenance task, or a worker that has lost its   *)
(* lease.  Exports implements this module.                                 *)
(*                                                                         *)
(* life: for each job its stage, the number of attempts that were started, *)
(*       and the attempt whose file the job offers (0: none).              *)
(***************************************************************************)
EXTENDS Naturals

CONSTANTS Jobs,         \* identifiers of the rows that may ever exist
          MaxAttempts   \* export_jobs.max_attempts

VARIABLE life

Stages == {"absent", "waiting", "working", "ready", "failed", "expired", "deleting", "gone"}

----------------------------------------------------------------------------
(* The steps of one job, as relations between its life before and after.   *)

JobLife(stage, attempt, file) == [stage |-> stage, attempt |-> attempt, file |-> file]

Unborn == JobLife("absent", 0, 0)

Created(a, b) ==
  a.stage = "absent" /\ b = JobLife("waiting", a.attempt, a.file)

\* A worker starts an attempt, or takes over an attempt that was abandoned.
Started(a, b) ==
  /\ a.stage \in {"waiting", "working"} /\ a.attempt < MaxAttempts
  /\ b = JobLife("working", a.attempt + 1, a.file)

\* Only a job with attempts left may wait again.
Requeued(a, b) ==
  /\ a.stage = "working" /\ a.attempt < MaxAttempts
  /\ b = JobLife("waiting", a.attempt, a.file)

\* The file on offer is the one of the current attempt.
Finished(a, b) ==
  a.stage = "working" /\ b = JobLife("ready", a.attempt, a.attempt)

Failed(a, b) ==
  a.stage \in {"waiting", "working"} /\ b = JobLife("failed", a.attempt, a.file)

Expired(a, b) ==
  a.stage = "ready" /\ b = JobLife("expired", a.attempt, a.file)

Withdrawn(a, b) ==
  a.stage = "expired" /\ b = JobLife("expired", a.attempt, 0)

\* A job that is being worked on is never deleted.
Deleted(a, b) ==
  /\ a.stage \in {"waiting", "ready", "failed", "expired"}
  /\ b = JobLife("deleting", a.attempt, a.file)

Removed(a, b) ==
  a.stage = "deleting" /\ b = JobLife("gone", 0, 0)

Advance(a, b) ==
  \/ Created(a, b) \/ Started(a, b) \/ Requeued(a, b)
  \/ Finished(a, b) \/ Failed(a, b) \/ Expired(a, b) \/ Withdrawn(a, b)
  \/ Deleted(a, b) \/ Removed(a, b)

----------------------------------------------------------------------------
Init == life = [j \in Jobs |-> Unborn]

\* One transaction of the maintenance task may advance many jobs at once.
Next ==
  /\ life' = [j \in Jobs |-> life'[j]]
  /\ \A j \in Jobs : life'[j] = life[j] \/ Advance(life[j], life'[j])

Spec == Init /\ [][Next]_life
=============================================================================
