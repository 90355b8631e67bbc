------------------------------ MODULE Exports ------------------------------
(***************************************************************************)
(* Background exports of price history: rows of export_jobs, the files on  *)
(* the shared volume, the workers of the exports queue, the processes that *)
(* publish messages (API and maintenance task), the clean-up of the        *)
(* maintenance task and the owner's deletions.                             *)
(*                                                                         *)
(* A database transaction is one action, with one exception: the update    *)
(* that marks a dispatch as published is split from its commit, because    *)
(* the row it locks meanwhile is skipped by a claim (SKIP LOCKED).  A      *)
(* timestamp is what the code compares it with: a lease is live or not, a  *)
(* retry is due or not, a file is older than the orphan grace or not.      *)
(*                                                                         *)
(* job      rows by job; .doubt (history): the transaction that finished   *)
(*          the job committed and its reply was lost                       *)
(* temp, final  files on the volume: <<job, attempt>> names the file of an *)
(*          attempt, as the nonce does in the code                         *)
(* aged     files whose mtime is older than the orphan grace               *)
(* queue    number of messages of each job in the broker                   *)
(* worker   each worker's place in run_export_job_once; .final: the error  *)
(*          to record is permanent                                         *)
(* sender   each publisher's place between its lease, the broker and mark  *)
(* janitor  the maintenance task's place in its clean-up                   *)
(* removal  the owner's DELETE request on each job                         *)
(***************************************************************************)
EXTENDS Naturals, FiniteSets

CONSTANTS Jobs, Workers,
          Senders,        \* processes that publish; also their dispatch leases
          Nobody,
          MaxAttempts,    \* export_max_attempts
          MaxActive,      \* export_max_active_jobs
          MaxFiles,       \* export_user_max_retained_files
          MaxMessages,    \* bound: messages of one job in the broker
          BrokerMayLose   \* whether Redis may lose a message

ASSUME ExportsAssumption ==
  /\ {MaxAttempts, MaxActive, MaxFiles, MaxMessages} \subseteq Nat \ {0}
  /\ MaxActive <= MaxFiles        \* validated by Settings
  /\ Nobody \notin Workers \cup Senders
  /\ IsFiniteSet(Jobs)
  /\ BrokerMayLose \in BOOLEAN

VARIABLES job, temp, final, aged, queue, worker, sender, janitor, removal

volume == <<temp, final, aged>>
vars == <<job, volume, queue, worker, sender, janitor, removal>>

File == Jobs \X (1..MaxAttempts)
NoFile == 0

\* live: lease_expires_at > now; due: available_at <= now; fresh: dispatch_lease_expires_at
\* > now, stamp is its holder; manifest: the job has rows in export_job_collection_runs.
AbsentRow == [status |-> "absent", attempt |-> 0, owner |-> Nobody, live |-> FALSE,
              due |-> FALSE, stamp |-> Nobody, fresh |-> FALSE, published |-> FALSE,
              reserved |-> FALSE, manifest |-> FALSE, file |-> NoFile, doubt |-> FALSE]
IdleWorker == [pc |-> "idle", job |-> Nobody, attempt |-> 0, final |-> FALSE]
IdleSender == [pc |-> "idle", todo |-> {}, sent |-> {}]
IdleJanitor == [pc |-> "idle", expired |-> {}, deleting |-> {}, orphans |-> {}]

Init ==
  /\ job = [j \in Jobs |-> AbsentRow]
  /\ temp = {} /\ final = {} /\ aged = {}
  /\ queue = [j \in Jobs |-> 0]
  /\ worker = [w \in Workers |-> IdleWorker]
  /\ sender = [s \in Senders |-> IdleSender]
  /\ janitor = IdleJanitor
  /\ removal = [j \in Jobs |-> "none"]

----------------------------------------------------------------------------
(* Rows.                                                                   *)

Active(x) == x.status \in {"pending", "running"}
Retained(x) == x.status \in {"succeeded", "expired", "deleting"} /\ x.file # NoFile

\* What every way out of an attempt or a dispatch clears.
Release(x) == [x EXCEPT !.owner = Nobody, !.live = FALSE, !.stamp = Nobody, !.fresh = FALSE,
                        !.published = FALSE, !.reserved = FALSE]

NewRow(s) == [AbsentRow EXCEPT !.status = "pending", !.due = TRUE, !.stamp = s,
                               !.fresh = TRUE, !.manifest = TRUE]

\* Mistakes that the mutation runs put in place of the definitions they are named for.
FailRowKeepingManifest(x) == [Release(x) EXCEPT !.status = "failed"]

RetryRowAlways(x, permanent) == [Release(x) EXCEPT !.status = "pending", !.due = FALSE]

DispatchableWhenPending(x) ==
  x.status = "pending" /\ x.due /\ ~x.published /\ ~(x.stamp # Nobody /\ x.fresh)

Claimable(x) ==
  /\ x.attempt < MaxAttempts
  /\ \/ x.status = "pending" /\ x.due
     \/ x.status = "running" /\ ~x.live

ClaimRow(x, w) == [Release(x) EXCEPT !.status = "running", !.attempt = @ + 1, !.owner = w,
                                     !.live = TRUE, !.reserved = TRUE]

\* claim_export_job and defer_claimed_export_for_storage in one transaction.
DeferRow(x) == [Release(x) EXCEPT !.status = "pending", !.due = FALSE]

FinishRow(x, a) == [Release(x) EXCEPT !.status = "succeeded", !.file = a, !.manifest = FALSE]

FailRow(x) == [Release(x) EXCEPT !.status = "failed", !.manifest = FALSE]

RetryRow(x, permanent) ==
  IF ~permanent /\ x.attempt < MaxAttempts
  THEN [Release(x) EXCEPT !.status = "pending", !.due = FALSE]
  ELSE FailRow(x)

Dispatchable(x) == Claimable(x) /\ ~x.published /\ ~(x.stamp # Nobody /\ x.fresh)

Exhausted(x) == x.status = "running" /\ ~x.live /\ x.attempt >= MaxAttempts

ExpireRow(x) == [Release(x) EXCEPT !.status = "expired", !.reserved = x.reserved]

DeleteRow(x) == [Release(x) EXCEPT !.status = "deleting", !.manifest = FALSE]

\* The row is gone, and with it its manifest.
GoneRow == [AbsentRow EXCEPT !.status = "gone"]

----------------------------------------------------------------------------
(* Publishing.                                                             *)

\* The update of mark_export_dispatch_published matches a row by its dispatch
\* lease, and locks it until the commit.
Marks(s) == {j \in sender[s].sent : ~job[j].published /\ job[j].stamp = s}

Locked(j) == \E s \in Senders : sender[s].pc = "marking" /\ j \in sender[s].sent

\* An owner's request: quotas are counted under advisory locks.
Create(j, s) ==
  /\ job[j].status = "absent" /\ sender[s].pc = "idle"
  /\ Cardinality({i \in Jobs : Active(job[i])}) < MaxActive
  /\ Cardinality({i \in Jobs : Active(job[i]) \/ Retained(job[i])}) < MaxFiles
  /\ job' = [job EXCEPT ![j] = NewRow(s)]
  /\ sender' = [sender EXCEPT ![s] = [pc |-> "publishing", todo |-> {j}, sent |-> {}]]
  /\ UNCHANGED <<volume, queue, worker, janitor, removal>>

\* The maintenance task leases what may be dispatched, skipping locked rows.
LeaseDispatches(s) ==
  LET batch == {j \in Jobs : Dispatchable(job[j]) /\ ~Locked(j)} IN
  /\ sender[s].pc = "idle" /\ batch # {}
  /\ job' = [j \in Jobs |-> IF j \in batch THEN [job[j] EXCEPT !.stamp = s, !.fresh = TRUE]
                            ELSE job[j]]
  /\ sender' = [sender EXCEPT ![s] = [pc |-> "publishing", todo |-> batch, sent |-> {}]]
  /\ UNCHANGED <<volume, queue, worker, janitor, removal>>

\* send_task succeeds, or raises before or after the broker has the message.
Publish(j, s) ==
  /\ sender[s].pc = "publishing" /\ j \in sender[s].todo
  /\ queue[j] < MaxMessages
  /\ queue' = [queue EXCEPT ![j] = @ + 1]
  /\ sender' = [sender EXCEPT ![s].todo = @ \ {j}, ![s].sent = @ \cup {j}]
  /\ UNCHANGED <<job, volume, worker, janitor, removal>>

PublishRaises(j, s) ==
  /\ sender[s].pc = "publishing" /\ j \in sender[s].todo
  /\ queue' \in {queue, [queue EXCEPT ![j] = IF @ < MaxMessages THEN @ + 1 ELSE @]}
  /\ sender' = [sender EXCEPT ![s].todo = @ \ {j}]
  /\ UNCHANGED <<job, volume, worker, janitor, removal>>

\* From here the rows that match are locked; an update waits for a locked row.
MarkStarts(s) ==
  /\ sender[s].pc = "publishing" /\ sender[s].todo = {}
  /\ \A j \in Marks(s) : ~Locked(j)
  /\ sender' = [sender EXCEPT ![s] =
       IF Marks(s) = {} THEN IdleSender ELSE [pc |-> "marking", todo |-> {}, sent |-> Marks(s)]]
  /\ UNCHANGED <<job, volume, queue, worker, janitor, removal>>

MarkCommits(s) ==
  /\ sender[s].pc = "marking"
  /\ job' = [j \in Jobs |-> IF j \in sender[s].sent
                            THEN [job[j] EXCEPT !.published = TRUE, !.stamp = Nobody, !.fresh = FALSE]
                            ELSE job[j]]
  /\ sender' = [sender EXCEPT ![s] = IdleSender]
  /\ UNCHANGED <<volume, queue, worker, janitor, removal>>

\* The process dies, or its transaction fails: locks go, the dispatch lease runs out.
\* (Dying with nothing left to do is no different from the end of MarkStarts.)
SenderDies(s) ==
  /\ sender[s].pc # "idle"
  /\ sender[s].pc = "publishing" /\ sender[s].todo = {} => Marks(s) # {}
  /\ sender' = [sender EXCEPT ![s] = IdleSender]
  /\ UNCHANGED <<job, volume, queue, worker, janitor, removal>>

\* A claim skips a row that cannot be claimed, or that somebody has locked.
Skipped(j) == ~Claimable(job[j]) \/ Locked(j)

\* (A message that an idle worker would skip is as good as lost already.)
BrokerLoses(j) ==
  /\ BrokerMayLose /\ queue[j] > 0
  /\ Skipped(j) => \A w \in Workers : worker[w].pc # "idle"
  /\ queue' = [queue EXCEPT ![j] = @ - 1]
  /\ UNCHANGED <<job, volume, worker, sender, janitor, removal>>

----------------------------------------------------------------------------
(* A worker.                                                               *)

Takes(w, j) ==
  /\ worker[w].pc = "idle" /\ queue[j] > 0
  /\ queue' = [queue EXCEPT ![j] = @ - 1]

At(w, pc) == worker[w].pc = pc
MovesTo(w, pc) == worker' = [worker EXCEPT ![w].pc = pc]
Ends(w) == worker' = [worker EXCEPT ![w] = IdleWorker]
MyFile(w) == <<worker[w].job, worker[w].attempt>>

\* The task returns and its message is acknowledged.
ClaimSkipped(w, j) ==
  /\ Takes(w, j) /\ Skipped(j)
  /\ UNCHANGED <<job, volume, worker, sender, janitor, removal>>

ClaimAccepted(w, j) ==
  /\ Takes(w, j) /\ ~Skipped(j)
  /\ job' = [job EXCEPT ![j] = ClaimRow(@, w)]
  /\ worker' = [worker EXCEPT ![w] = [pc |-> "claimed", job |-> j,
                                      attempt |-> job[j].attempt + 1, final |-> FALSE]]
  /\ UNCHANGED <<volume, sender, janitor, removal>>

\* No room on the volume for what running exports have reserved.
ClaimDeferred(w, j) ==
  /\ Takes(w, j) /\ ~Skipped(j)
  /\ job' = [job EXCEPT ![j] = DeferRow(@)]
  /\ UNCHANGED <<volume, worker, sender, janitor, removal>>

\* The subscription or the search is gone.
ClaimUnavailable(w, j) ==
  /\ Takes(w, j) /\ ~Skipped(j)
  /\ job' = [job EXCEPT ![j] = FailRow(@)]
  /\ UNCHANGED <<volume, worker, sender, janitor, removal>>

\* The claim's transaction fails: the task raises, and its message is acknowledged.
ClaimRaises(w, j) ==
  /\ Takes(w, j) /\ ~Skipped(j)
  /\ UNCHANGED <<job, volume, worker, sender, janitor, removal>>

StartsFile(w) ==
  /\ At(w, "claimed") /\ MovesTo(w, "writing")
  /\ temp' = temp \cup {MyFile(w)}
  /\ UNCHANGED <<job, final, aged, queue, sender, janitor, removal>>

\* A failure while generating removes the temporary file, if it can.
Unlinked(S, f) == {S, S \ {f}}

GenerationFails(w) ==
  /\ At(w, "claimed") \/ At(w, "writing")
  /\ temp' \in Unlinked(temp, MyFile(w))
  /\ \E permanent \in BOOLEAN :
       worker' = [worker EXCEPT ![w].pc = "failing", ![w].final = permanent]
  /\ UNCHANGED <<job, final, aged, queue, sender, janitor, removal>>

\* The update of every step of an attempt matches only the row the worker holds;
\* it waits for a locked row.
Holds(w) ==
  LET x == job[worker[w].job] IN x.status = "running" /\ x.owner = w /\ x.live

\* The heartbeat after a page finds the lease gone.
HeartbeatFails(w) ==
  /\ At(w, "writing") /\ ~Locked(worker[w].job) /\ ~Holds(w)
  /\ temp' \in Unlinked(temp, MyFile(w))
  /\ Ends(w)
  /\ UNCHANGED <<job, final, aged, queue, sender, janitor, removal>>

\* All pages are written; the last one may be long ago.
InstallsFile(w) ==
  /\ At(w, "writing") /\ MovesTo(w, "installed")
  /\ temp' = temp \ {MyFile(w)}
  /\ final' = final \cup {MyFile(w)}
  /\ UNCHANGED <<job, aged, queue, sender, janitor, removal>>

Finishes(w) ==
  /\ At(w, "installed") /\ ~Locked(worker[w].job) /\ Holds(w)
  /\ job' = [job EXCEPT ![worker[w].job] = FinishRow(@, worker[w].attempt)]
  /\ Ends(w)
  /\ UNCHANGED <<volume, queue, sender, janitor, removal>>

\* The transaction fails, or commits and its reply is lost.
FinishRaises(w) ==
  /\ At(w, "installed") /\ MovesTo(w, "discarding")
  /\ \/ UNCHANGED job
     \/ /\ ~Locked(worker[w].job) /\ Holds(w)
        /\ job' = [job EXCEPT ![worker[w].job] =
                     [FinishRow(@, worker[w].attempt) EXCEPT !.doubt = TRUE]]
  /\ UNCHANGED <<volume, queue, sender, janitor, removal>>

FinishLosesLease(w) ==
  /\ At(w, "installed") /\ ~Locked(worker[w].job) /\ ~Holds(w)
  /\ final' \in Unlinked(final, MyFile(w))
  /\ Ends(w)
  /\ UNCHANGED <<job, temp, aged, queue, sender, janitor, removal>>

DiscardsFile(w) ==
  /\ At(w, "discarding") /\ MovesTo(w, "failing")
  /\ final' \in Unlinked(final, MyFile(w))
  /\ UNCHANGED <<job, temp, aged, queue, sender, janitor, removal>>

RecordsFailure(w) ==
  /\ At(w, "failing") /\ ~Locked(worker[w].job)
  /\ job' = IF Holds(w)
            THEN [job EXCEPT ![worker[w].job] = RetryRow(@, worker[w].final)]
            ELSE job
  /\ Ends(w)
  /\ UNCHANGED <<volume, queue, sender, janitor, removal>>

\* The failure cannot be recorded; the lease will run out.
RecordRaises(w) ==
  /\ At(w, "failing") /\ Ends(w)
  /\ UNCHANGED <<job, volume, queue, sender, janitor, removal>>

\* A dead worker's message is delivered again.
Dies(w) ==
  /\ worker[w].pc # "idle" /\ queue[worker[w].job] < MaxMessages
  /\ queue' = [queue EXCEPT ![worker[w].job] = @ + 1]
  /\ Ends(w)
  /\ UNCHANGED <<job, volume, sender, janitor, removal>>

\* An attempt that outlives the visibility timeout is delivered a second time.
Redelivered(w) ==
  /\ worker[w].pc # "idle" /\ queue[worker[w].job] < MaxMessages
  /\ queue' = [queue EXCEPT ![worker[w].job] = @ + 1]
  /\ UNCHANGED <<job, volume, worker, sender, janitor, removal>>

----------------------------------------------------------------------------
(* The maintenance task, one transaction or one pass over files a step.    *)

Settle ==
  \E stale \in SUBSET {j \in Jobs : job[j].status = "pending" /\ ~Locked(j)},
     ended \in SUBSET {j \in Jobs : job[j].status = "succeeded"} :
  LET exhausted == {j \in Jobs : Exhausted(job[j]) /\ ~Locked(j)}
      expiring  == ended \cup {j \in Jobs : job[j].status = "expired" /\ job[j].file # NoFile}
  IN
  /\ janitor.pc = "idle"
  /\ job' = [j \in Jobs |-> IF j \in stale \cup exhausted THEN FailRow(job[j])
                            ELSE IF j \in expiring THEN ExpireRow(job[j])
                            ELSE job[j]]
  /\ janitor' = [pc |-> "removing", orphans |-> {},
                 expired |-> {j \in expiring : job[j].file # NoFile},
                 deleting |-> {j \in Jobs : job[j].status = "deleting"}]
  /\ UNCHANGED <<volume, queue, worker, sender, removal>>

\* A file that is not there counts as removed; a file that cannot be removed
\* keeps its job on the list of the next pass.
FileOf(j) == <<j, job[j].file>>

RemoveFiles(stuck) ==
  /\ janitor.pc = "removing"
  /\ stuck \subseteq {j \in janitor.expired \cup janitor.deleting : FileOf(j) \in final}
  /\ final' = final \ {FileOf(j) : j \in (janitor.expired \cup janitor.deleting) \ stuck}
  /\ janitor' = [janitor EXCEPT !.pc = "finalizing", !.expired = @ \ stuck,
                                !.deleting = @ \ stuck]
  /\ UNCHANGED <<job, temp, aged, queue, worker, sender, removal>>

FinalizeRemovals ==
  /\ janitor.pc = "finalizing"
  /\ job' = [j \in Jobs |->
       IF j \in janitor.expired /\ job[j].status = "expired"
       THEN [job[j] EXCEPT !.file = NoFile]
       ELSE IF j \in janitor.deleting /\ job[j].status = "deleting"
       THEN GoneRow
       ELSE job[j]]
  /\ janitor' = [IdleJanitor EXCEPT !.pc = "listing"]
  /\ UNCHANGED <<volume, queue, worker, sender, removal>>

\* Names that rows refer to, and the age a file must have, are fixed together.
Referenced == {FileOf(j) : j \in {i \in Jobs : job[i].file # NoFile}}

ListOrphansAmongFinal ==
  /\ janitor.pc = "listing"
  /\ janitor' = [janitor EXCEPT !.pc = "sweeping", !.orphans = aged \cap (final \ Referenced)]
  /\ UNCHANGED <<job, volume, queue, worker, sender, removal>>

ListOrphans ==
  /\ janitor.pc = "listing"
  /\ janitor' = [janitor EXCEPT !.pc = "sweeping",
                   !.orphans = aged \cap (temp \cup (final \ Referenced))]
  /\ UNCHANGED <<job, volume, queue, worker, sender, removal>>

SweepOrphans(stuck) ==
  /\ janitor.pc = "sweeping" /\ stuck \subseteq janitor.orphans \cap (temp \cup final)
  /\ temp' = temp \ (janitor.orphans \ stuck)
  /\ final' = final \ (janitor.orphans \ stuck)
  /\ janitor' = IdleJanitor
  /\ UNCHANGED <<job, aged, queue, worker, sender, removal>>

JanitorDies ==
  /\ janitor.pc # "idle"
  /\ janitor.pc = "sweeping" => janitor.orphans \cap (temp \cup final) # {}
  /\ janitor' = IdleJanitor
  /\ UNCHANGED <<job, volume, queue, worker, sender, removal>>

----------------------------------------------------------------------------
(* The owner's DELETE request: mark, remove the file, delete the row.      *)

RequestDelete(j) ==
  /\ removal[j] = "none" /\ ~Locked(j)
  /\ job[j].status \notin {"absent", "gone", "running"}
  /\ job' = [job EXCEPT ![j] = DeleteRow(@)]
  /\ removal' = [removal EXCEPT ![j] = IF job[j].file = NoFile THEN "finalizing" ELSE "removing"]
  /\ UNCHANGED <<volume, queue, worker, sender, janitor>>

\* The request knows the name of the file from its first transaction.
DeleteFile(j) ==
  /\ removal[j] = "removing"
  /\ \/ /\ final' = {f \in final : f[1] # j \/ f[2] # job[j].file}
        /\ removal' = [removal EXCEPT ![j] = "finalizing"]
     \/ /\ UNCHANGED final                           \* answered 202: left to maintenance
        /\ removal' = [removal EXCEPT ![j] = "none"]
  /\ UNCHANGED <<job, temp, aged, queue, worker, sender, janitor>>

FinalizeDelete(j) ==
  /\ removal[j] = "finalizing"
  /\ job' = [job EXCEPT ![j] = IF @.status = "deleting" THEN GoneRow ELSE @]
  /\ removal' = [removal EXCEPT ![j] = "none"]
  /\ UNCHANGED <<volume, queue, worker, sender, janitor>>

RequestDies(j) ==
  /\ removal[j] # "none"
  /\ removal[j] = "finalizing" => job[j].status = "deleting"
  /\ removal' = [removal EXCEPT ![j] = "none"]
  /\ UNCHANGED <<job, volume, queue, worker, sender, janitor>>

----------------------------------------------------------------------------
(* Time.                                                                   *)

LeaseRunsOut(j) ==
  /\ job[j].live
  /\ job' = [job EXCEPT ![j].live = FALSE]
  /\ UNCHANGED <<volume, queue, worker, sender, janitor, removal>>

BackoffEnds(j) ==
  /\ job[j].status = "pending" /\ ~job[j].due
  /\ job' = [job EXCEPT ![j].due = TRUE]
  /\ UNCHANGED <<volume, queue, worker, sender, janitor, removal>>

DispatchLeaseRunsOut(j) ==
  /\ job[j].fresh
  /\ job' = [job EXCEPT ![j].fresh = FALSE]
  /\ UNCHANGED <<volume, queue, worker, sender, janitor, removal>>

\* The orphan grace is at least two leases (Settings): a file whose attempt still
\* holds its lease was written since the lease was last renewed, so it is younger.
InUseNever(f) == FALSE

InUse(f) == \E w \in Workers : MyFile(w) = f /\ worker[w].pc # "idle" /\ Holds(w)

GrowsOld(f) ==
  /\ f \in (temp \cup final) \ aged /\ ~InUse(f)
  /\ aged' = aged \cup {f}
  /\ UNCHANGED <<job, temp, final, queue, worker, sender, janitor, removal>>

----------------------------------------------------------------------------
Sending(s) ==
  \/ LeaseDispatches(s)
  \/ \E j \in Jobs : Publish(j, s) \/ PublishRaises(j, s)
  \/ MarkStarts(s) \/ MarkCommits(s)

Claiming(w, j) ==
  \/ ClaimSkipped(w, j) \/ ClaimAccepted(w, j) \/ ClaimDeferred(w, j)
  \/ ClaimUnavailable(w, j)

Working(w) ==
  \/ StartsFile(w) \/ GenerationFails(w) \/ HeartbeatFails(w) \/ InstallsFile(w)
  \/ Finishes(w) \/ FinishRaises(w) \/ FinishLosesLease(w) \/ DiscardsFile(w)
  \/ RecordsFailure(w) \/ RecordRaises(w)

Maintaining ==
  \/ Settle
  \/ \E stuck \in SUBSET Jobs : RemoveFiles(stuck)
  \/ FinalizeRemovals \/ ListOrphans
  \/ \E stuck \in SUBSET janitor.orphans : SweepOrphans(stuck)

Deleting(j) == RequestDelete(j) \/ DeleteFile(j) \/ FinalizeDelete(j) \/ RequestDies(j)

Next ==
  \/ \E j \in Jobs, s \in Senders : Create(j, s)
  \/ \E s \in Senders : Sending(s) \/ SenderDies(s)
  \/ \E j \in Jobs : BrokerLoses(j)
  \/ \E w \in Workers, j \in Jobs : Claiming(w, j) \/ ClaimRaises(w, j)
  \/ \E w \in Workers : Working(w) \/ Dies(w) \/ Redelivered(w)
  \/ Maintaining \/ JanitorDies
  \/ \E j \in Jobs : Deleting(j)
  \/ \E j \in Jobs : LeaseRunsOut(j) \/ BackoffEnds(j) \/ DispatchLeaseRunsOut(j)
  \/ \E f \in File : GrowsOld(f)

Spec == Init /\ [][Next]_vars

----------------------------------------------------------------------------
\* A job that is offered for download has its file on the volume, whatever late
\* workers, deletions and the orphan sweep do, unless the reply to the commit
\* that finished it was lost: then the worker removes the file it has delivered.
ReadyHasFile ==
  \A j \in Jobs :
    job[j].status = "succeeded" /\ ~job[j].doubt => FileOf(j) \in final

\* What a job occupies is given back: a settled job keeps no lease, reservation,
\* dispatch or manifest (which would block the volume, or a purge), an active one
\* has its manifest, and only a running one reserves space.
NothingIsKept ==
  \A j \in Jobs :
    LET x == job[j] IN
    /\ x.manifest = Active(x)
    /\ x.reserved = (x.status = "running")
    /\ ~Active(x) => x.owner = Nobody /\ ~x.live /\ x.stamp = Nobody /\ ~x.published
    /\ x.status = "pending" => x.owner = Nobody /\ ~x.live /\ x.attempt < MaxAttempts

\* Every step is a step of the abstract life of the jobs: attempts only grow and
\* are bounded, the file on offer is the one of the last attempt, and neither a
\* stale worker nor a duplicated message reopens a settled job.
Stage(x) ==
  CASE x.status = "pending" -> "waiting"
    [] x.status = "running" -> "working"
    [] x.status = "succeeded" -> "ready"
    [] OTHER -> x.status

Lives == [j \in Jobs |-> [stage |-> Stage(job[j]), attempt |-> job[j].attempt,
                         file |-> job[j].file]]

Life == INSTANCE ExportLife WITH life <- Lives
RefinesLife == Life!Spec

----------------------------------------------------------------------------
(* Liveness.                                                               *)

\* A recovered attempt whose dispatch is marked as published although nothing
\* carries its message any more: no query of the code finds it, its owner may not
\* delete it, and it counts against the quota and holds up purges.
Stranded(j) ==
  /\ job[j].status = "running" /\ ~job[j].live /\ job[j].published
  /\ job[j].attempt < MaxAttempts /\ queue[j] = 0

Fault ==
  \/ \E s \in Senders : SenderDies(s) \/ \E j \in Jobs : PublishRaises(j, s)
  \/ \E j \in Jobs : BrokerLoses(j) \/ RequestDies(j)
  \/ \E w \in Workers : Dies(w) \/ \E j \in Jobs : ClaimRaises(w, j)
  \/ \E stuck \in (SUBSET Jobs) \ {{}} : RemoveFiles(stuck)
  \/ \E stuck \in (SUBSET File) \ {{}} : SweepOrphans(stuck)
  \/ JanitorDies
  \/ Settle /\ \E j \in Jobs : Locked(j)   \* always at the moment of a mark

FaultsCease == <>[][~Fault]_vars

\* Time passes, live processes take their next step, and maintenance runs: what
\* stays pending, or pending again and again, outlives its queue timeout.
Fairness ==
  /\ \A j \in Jobs :
       /\ WF_vars(LeaseRunsOut(j)) /\ WF_vars(BackoffEnds(j)) /\ WF_vars(DispatchLeaseRunsOut(j))
       /\ WF_vars(\E w \in Workers : Claiming(w, j))
       /\ WF_vars(DeleteFile(j) \/ FinalizeDelete(j))
       /\ SF_vars(Settle /\ job[j].status = "pending" /\ job'[j].status = "failed")
  /\ \A s \in Senders : WF_vars(Sending(s))
  /\ \A w \in Workers : WF_vars(Working(w))
  /\ \A f \in File : WF_vars(GrowsOld(f))
  /\ WF_vars(Maintaining)

FairSpec == Spec /\ Fairness /\ FaultsCease

\* Every export is eventually settled, or stranded in the one way described above.
SettlesOrStranded ==
  \A j \in Jobs : Active(job[j]) ~> (~Active(job[j]) \/ Stranded(j))

\* Whatever dies between the steps of an attempt, a deletion or a clean-up, no
\* file stays on the volume that no row refers to, and no deletion stays half done.
CleanUpHappens ==
  /\ \A f \in File : [](f \in temp \cup final => <>(f \notin temp \cup final \/ f \in Referenced))
  /\ \A j \in Jobs : job[j].status = "deleting" ~> job[j].status = "gone"
=============================================================================
