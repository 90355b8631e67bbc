---------------------------- MODULE ExportsProofs ----------------------------
(***************************************************************************)
(* Proofs about the rows of Exports, for every set of jobs, workers and    *)
(* publishers and every limit, and then about the files.                   *)
(*                                                                         *)
(* The inductive invariant is a property of each row (RowOK), the fence (a *)
(* row that names a busy worker as its owner is at that worker's attempt)  *)
(* and that rows locked by a mark are active.  Rows change only through    *)
(* the row operations, so what a step does to a row is proved once for     *)
(* each operation.  Most steps are quiet (Quiet): they start no attempt    *)
(* and finish none.                                                        *)
(***************************************************************************)
EXTENDS Exports, TLAPS

Row ==
  [status: {"absent", "pending", "running", "succeeded", "failed", "expired", "deleting", "gone"},
   attempt: 0..MaxAttempts, owner: Workers \cup {Nobody}, live: BOOLEAN, due: BOOLEAN,
   stamp: Senders \cup {Nobody}, fresh: BOOLEAN, published: BOOLEAN, reserved: BOOLEAN,
   manifest: BOOLEAN, file: 0..MaxAttempts, doubt: BOOLEAN]

WorkerState ==
  [pc: {"idle", "claimed", "writing", "installed", "discarding", "failing"},
   job: Jobs \cup {Nobody}, attempt: 0..MaxAttempts, final: BOOLEAN]

SenderState == [pc: {"idle", "publishing", "marking"}, todo: SUBSET Jobs, sent: SUBSET Jobs]

Leaving == {"expired", "deleting", "gone"}

RowOK(x) ==
  /\ x \in Row
  /\ x.manifest <=> Active(x)
  /\ x.reserved <=> x.status = "running"
  /\ ~Active(x) => x.owner = Nobody /\ ~x.live /\ x.stamp = Nobody /\ ~x.published
  /\ x.status = "pending" => x.owner = Nobody /\ ~x.live /\ x.attempt < MaxAttempts
  /\ x.status = "running" => x.attempt > 0
  /\ x.status \in {"absent", "gone"} => x.attempt = 0 /\ x.file = NoFile
  /\ x.file # NoFile => x.status \in {"succeeded", "expired", "deleting"} /\ x.file = x.attempt
  /\ x.status = "succeeded" => x.file # NoFile

LifeOf(x) == [stage |-> Stage(x), attempt |-> x.attempt, file |-> x.file]

Evolves(x, y) == RowOK(y) /\ (LifeOf(y) = LifeOf(x) \/ Life!Advance(LifeOf(x), LifeOf(y)))

\* A change of a row that neither starts an attempt nor finishes one.
Quiet(x, y) ==
  /\ y.status = "running" => /\ x.status = "running" /\ x.owner = y.owner
                             /\ y.live => x.live
  /\ y.attempt = x.attempt \/ y.status = "gone"
  /\ y.file # NoFile => y.file = x.file /\ y.doubt = x.doubt
  /\ y.status = "succeeded" => x.status = "succeeded"
  /\ x.status = "gone" => y.status = "gone"
  /\ x.status \in Leaving => y.status \in Leaving

QuietStep(x, y) == Evolves(x, y) /\ Quiet(x, y)

----------------------------------------------------------------------------
(* The row operations.                                                     *)

LEMMA AtLeastOneAttempt == MaxAttempts \in Nat /\ MaxAttempts > 0
  BY ExportsAssumption

LEMMA AbsentIsARow == AbsentRow \in Row
<1>1. 0 \in 0..MaxAttempts
  BY AtLeastOneAttempt
<1> QED  BY <1>1 DEF AbsentRow, Row, NoFile

LEMMA SameRow == ASSUME NEW x, RowOK(x) PROVE QuietStep(x, x)
  BY DEF QuietStep, Evolves, Quiet

LEMMA NewRowStep ==
  ASSUME NEW x, RowOK(x), x.status = "absent", NEW s \in Senders
  PROVE  QuietStep(x, NewRow(s))
<1> DEFINE y == NewRow(s)
<1>0. /\ y \in Row /\ y.status = "pending" /\ y.attempt = 0 /\ y.owner = Nobody
      /\ y.live = FALSE /\ y.reserved = FALSE /\ y.manifest = TRUE /\ y.file = NoFile
  <2>1. y \in Row
    BY AbsentIsARow DEF Row, NewRow
  <2> QED  BY <2>1 DEF NewRow, AbsentRow
<1> HIDE DEF y
<1>1. RowOK(y)
  BY <1>0, ExportsAssumption DEF RowOK, Active
<1> USE DEF y
<1>2. LifeOf(x).stage = "absent"
      /\ LifeOf(NewRow(s)) = [stage |-> "waiting", attempt |-> LifeOf(x).attempt,
                               file |-> LifeOf(x).file]
  BY DEF RowOK, Row, LifeOf, Stage, NewRow, AbsentRow, NoFile
<1>3. Quiet(x, NewRow(s))
  BY DEF RowOK, Row, Quiet, NewRow, AbsentRow, NoFile, Leaving
<1> QED  BY <1>1, <1>2, <1>3 DEF QuietStep, Evolves, Life!Advance, Life!Created, Life!JobLife

LEMMA LeaseDispatchStep ==
  ASSUME NEW x, RowOK(x), Active(x), NEW s \in Senders
  PROVE  /\ QuietStep(x, [x EXCEPT !.stamp = s, !.fresh = TRUE])
         /\ Active([x EXCEPT !.stamp = s, !.fresh = TRUE])
<1> DEFINE y == [x EXCEPT !.stamp = s, !.fresh = TRUE]
<1>1. RowOK(y) /\ Active(y)
  BY DEF RowOK, Row, Active
<1>2. LifeOf(y) = LifeOf(x)
  BY DEF RowOK, Row, LifeOf, Stage
<1>3. Quiet(x, y)
  BY DEF RowOK, Row, Quiet, Leaving
<1> QED  BY <1>1, <1>2, <1>3 DEF QuietStep, Evolves

LEMMA MarkStep ==
  ASSUME NEW x, RowOK(x), Active(x)
  PROVE  /\ QuietStep(x, [x EXCEPT !.published = TRUE, !.stamp = Nobody, !.fresh = FALSE])
         /\ Active([x EXCEPT !.published = TRUE, !.stamp = Nobody, !.fresh = FALSE])
<1> DEFINE y == [x EXCEPT !.published = TRUE, !.stamp = Nobody, !.fresh = FALSE]
<1>1. RowOK(y) /\ Active(y)
  BY DEF RowOK, Row, Active
<1>2. LifeOf(y) = LifeOf(x)
  BY DEF RowOK, Row, LifeOf, Stage
<1>3. Quiet(x, y)
  BY DEF RowOK, Row, Quiet, Leaving
<1> QED  BY <1>1, <1>2, <1>3 DEF QuietStep, Evolves

\* An attempt given up, or a message put off: the row waits again.
LEMMA DeferRowStep ==
  ASSUME NEW x, RowOK(x), Active(x), x.attempt < MaxAttempts
  PROVE  QuietStep(x, DeferRow(x))
<1> DEFINE y == DeferRow(x)
<1>1. RowOK(y)
  BY DEF RowOK, Row, Active, DeferRow, Release, NoFile
<1>2. LifeOf(y) = [stage |-> "waiting", attempt |-> x.attempt, file |-> x.file]
  BY DEF RowOK, Row, LifeOf, Stage, DeferRow, Release
<1>3. LifeOf(y) = LifeOf(x) \/ Life!Requeued(LifeOf(x), LifeOf(y))
  <2>1. CASE x.status = "pending"
    BY <1>2, <2>1 DEF LifeOf, Stage
  <2>2. CASE x.status = "running"
    BY <1>2, <2>2 DEF LifeOf, Stage, Life!Requeued, Life!JobLife
  <2> QED  BY <2>1, <2>2 DEF Active
<1>4. Quiet(x, y)
  BY DEF RowOK, Row, Active, Quiet, DeferRow, Release, Leaving
<1> QED  BY <1>1, <1>3, <1>4 DEF QuietStep, Evolves, Life!Advance

LEMMA FailRowStep ==
  ASSUME NEW x, RowOK(x), Active(x)
  PROVE  QuietStep(x, FailRow(x))
<1> DEFINE y == FailRow(x)
<1>1. RowOK(y)
  BY DEF RowOK, Row, Active, FailRow, Release, NoFile
<1>2. LifeOf(y) = [stage |-> "failed", attempt |-> x.attempt, file |-> x.file]
  BY DEF RowOK, Row, LifeOf, Stage, FailRow, Release
<1>3. Life!Failed(LifeOf(x), LifeOf(y))
  BY <1>2 DEF LifeOf, Stage, Active, Life!Failed, Life!JobLife
<1>4. Quiet(x, y)
  BY DEF RowOK, Row, Active, Quiet, FailRow, Release, Leaving
<1> QED  BY <1>1, <1>3, <1>4 DEF QuietStep, Evolves, Life!Advance

LEMMA RetryRowStep ==
  ASSUME NEW x, RowOK(x), x.status = "running", NEW permanent \in BOOLEAN
  PROVE  QuietStep(x, RetryRow(x, permanent))
<1>1. CASE ~permanent /\ x.attempt < MaxAttempts
  <2>1. RetryRow(x, permanent) = DeferRow(x)
    BY <1>1 DEF RetryRow, DeferRow
  <2> QED  BY <1>1, <2>1, DeferRowStep DEF Active
<1>2. CASE ~(~permanent /\ x.attempt < MaxAttempts)
  <2>1. RetryRow(x, permanent) = FailRow(x)
    BY <1>2 DEF RetryRow
  <2> QED  BY <2>1, FailRowStep DEF Active
<1> QED  BY <1>1, <1>2

LEMMA ExpireRowStep ==
  ASSUME NEW x, RowOK(x), x.status \in {"succeeded", "expired"}
  PROVE  QuietStep(x, ExpireRow(x)) /\ ExpireRow(x).status = "expired"
<1> DEFINE y == ExpireRow(x)
<1>1. RowOK(y) /\ y.status = "expired"
  BY DEF RowOK, Row, Active, ExpireRow, Release, NoFile
<1>2. LifeOf(y) = [stage |-> "expired", attempt |-> x.attempt, file |-> x.file]
  BY DEF RowOK, Row, LifeOf, Stage, ExpireRow, Release
<1>3. LifeOf(y) = LifeOf(x) \/ Life!Expired(LifeOf(x), LifeOf(y))
  <2>1. CASE x.status = "expired"
    BY <1>2, <2>1 DEF LifeOf, Stage
  <2>2. CASE x.status = "succeeded"
    BY <1>2, <2>2 DEF LifeOf, Stage, Life!Expired, Life!JobLife
  <2> QED  BY <2>1, <2>2
<1>4. Quiet(x, y)
  BY DEF RowOK, Row, Quiet, ExpireRow, Release, Leaving
<1> QED  BY <1>1, <1>3, <1>4 DEF QuietStep, Evolves, Life!Advance

LEMMA WithdrawRowStep ==
  ASSUME NEW x, RowOK(x), x.status = "expired"
  PROVE  QuietStep(x, [x EXCEPT !.file = NoFile])
<1> DEFINE y == [x EXCEPT !.file = NoFile]
<1>1. RowOK(y)
  BY ExportsAssumption DEF RowOK, Row, Active, NoFile
<1>2. LifeOf(x).stage = "expired"
      /\ LifeOf(y) = [stage |-> "expired", attempt |-> LifeOf(x).attempt, file |-> 0]
  BY DEF RowOK, Row, LifeOf, Stage, NoFile
<1>3. Quiet(x, y)
  BY DEF RowOK, Row, Quiet, NoFile, Leaving
<1> QED  BY <1>1, <1>2, <1>3 DEF QuietStep, Evolves, Life!Advance, Life!Withdrawn, Life!JobLife

LEMMA DeleteRowStep ==
  ASSUME NEW x, RowOK(x), x.status \notin {"absent", "gone", "running"}
  PROVE  QuietStep(x, DeleteRow(x)) /\ DeleteRow(x).status = "deleting"
<1> DEFINE y == DeleteRow(x)
<1>1. RowOK(y) /\ y.status = "deleting"
  BY DEF RowOK, Row, Active, DeleteRow, Release, NoFile
<1>2. LifeOf(y) = [stage |-> "deleting", attempt |-> x.attempt, file |-> x.file]
  BY DEF RowOK, Row, LifeOf, Stage, DeleteRow, Release
<1>3. LifeOf(y) = LifeOf(x) \/ Life!Deleted(LifeOf(x), LifeOf(y))
  <2>1. CASE x.status = "deleting"
    BY <1>2, <2>1 DEF LifeOf, Stage
  <2>2. CASE x.status \in {"pending", "succeeded", "failed", "expired"}
    BY <1>2, <2>2 DEF LifeOf, Stage, Life!Deleted, Life!JobLife
  <2> QED  BY <2>1, <2>2 DEF RowOK, Row
<1>4. Quiet(x, y)
  BY DEF RowOK, Row, Quiet, DeleteRow, Release, Leaving
<1> QED  BY <1>1, <1>3, <1>4 DEF QuietStep, Evolves, Life!Advance

LEMMA GoneRowStep ==
  ASSUME NEW x, RowOK(x), x.status = "deleting"
  PROVE  QuietStep(x, GoneRow) /\ GoneRow.status = "gone"
<1>0. /\ GoneRow \in Row /\ GoneRow.status = "gone" /\ GoneRow.attempt = 0
      /\ GoneRow.owner = Nobody /\ GoneRow.stamp = Nobody /\ GoneRow.live = FALSE
      /\ GoneRow.published = FALSE /\ GoneRow.reserved = FALSE
      /\ GoneRow.manifest = FALSE /\ GoneRow.file = NoFile
  <2>1. GoneRow \in Row
    BY AbsentIsARow DEF Row, GoneRow
  <2> QED  BY <2>1 DEF GoneRow, AbsentRow
<1>1. RowOK(GoneRow) /\ GoneRow.status = "gone"
  BY <1>0 DEF RowOK, Active
<1>2. LifeOf(x).stage = "deleting"
      /\ LifeOf(GoneRow) = [stage |-> "gone", attempt |-> 0, file |-> 0]
  BY DEF LifeOf, Stage, GoneRow, AbsentRow, NoFile
<1>3. Quiet(x, GoneRow)
  BY DEF Quiet, GoneRow, AbsentRow, NoFile, Leaving
<1> QED  BY <1>1, <1>2, <1>3 DEF QuietStep, Evolves, Life!Advance, Life!Removed, Life!JobLife

LEMMA TimeRowStep ==
  ASSUME NEW x, RowOK(x)
  PROVE  /\ QuietStep(x, [x EXCEPT !.live = FALSE]) /\ QuietStep(x, [x EXCEPT !.fresh = FALSE])
         /\ QuietStep(x, [x EXCEPT !.due = TRUE])
         /\ Active(x) => /\ Active([x EXCEPT !.live = FALSE]) /\ Active([x EXCEPT !.fresh = FALSE])
                         /\ Active([x EXCEPT !.due = TRUE])
<1> DEFINE Later(y) == QuietStep(x, y) /\ (Active(x) => Active(y))
<1>1. Later([x EXCEPT !.live = FALSE])
  <2> DEFINE y == [x EXCEPT !.live = FALSE]
  <2>1. RowOK(y) /\ (Active(x) => Active(y)) /\ Quiet(x, y) /\ LifeOf(y) = LifeOf(x)
    BY DEF RowOK, Row, Active, Quiet, Leaving, LifeOf, Stage
  <2> QED  BY <2>1 DEF QuietStep, Evolves
<1>2. Later([x EXCEPT !.fresh = FALSE])
  <2> DEFINE y == [x EXCEPT !.fresh = FALSE]
  <2>1. RowOK(y) /\ (Active(x) => Active(y)) /\ Quiet(x, y) /\ LifeOf(y) = LifeOf(x)
    BY DEF RowOK, Row, Active, Quiet, Leaving, LifeOf, Stage
  <2> QED  BY <2>1 DEF QuietStep, Evolves
<1>3. Later([x EXCEPT !.due = TRUE])
  <2> DEFINE y == [x EXCEPT !.due = TRUE]
  <2>1. RowOK(y) /\ (Active(x) => Active(y)) /\ Quiet(x, y) /\ LifeOf(y) = LifeOf(x)
    BY DEF RowOK, Row, Active, Quiet, Leaving, LifeOf, Stage
  <2> QED  BY <2>1 DEF QuietStep, Evolves
<1> QED  BY <1>1, <1>2, <1>3

LEMMA ClaimRowStep ==
  ASSUME NEW x, RowOK(x), Claimable(x), NEW w \in Workers
  PROVE  /\ Evolves(x, ClaimRow(x, w)) /\ x.file = NoFile
         /\ ClaimRow(x, w).status = "running" /\ ClaimRow(x, w).owner = w
         /\ ClaimRow(x, w).attempt = x.attempt + 1 /\ ClaimRow(x, w).file = NoFile
<1> DEFINE y == ClaimRow(x, w)
<1>1. x.status \in {"pending", "running"} /\ x.attempt < MaxAttempts /\ x.file = NoFile
  BY DEF Claimable, RowOK, Active
<1>2. /\ y.status = "running" /\ y.attempt = x.attempt + 1 /\ y.owner = w
      /\ y.file = x.file
  BY DEF RowOK, Row, ClaimRow, Release
<1>3. x.attempt + 1 \in 0..MaxAttempts /\ x.attempt + 1 > 0
  BY <1>1, ExportsAssumption DEF RowOK, Row
<1>4. RowOK(y)
  BY <1>1, <1>3 DEF RowOK, Row, Active, ClaimRow, Release, NoFile
<1> HIDE DEF y
<1>5. Life!Started(LifeOf(x), LifeOf(y))
  <2>1. LifeOf(x).stage \in {"waiting", "working"}
    BY <1>1 DEF LifeOf, Stage
  <2>2. LifeOf(y) = [stage |-> "working", attempt |-> x.attempt + 1, file |-> x.file]
    BY <1>2 DEF LifeOf, Stage
  <2> QED  BY <1>1, <2>1, <2>2 DEF LifeOf, Life!Started, Life!JobLife
<1>6. Evolves(x, y)
  BY <1>4, <1>5 DEF Evolves, Life!Advance
<1> QED  BY <1>1, <1>2, <1>6 DEF y

LEMMA FinishRowStep ==
  ASSUME NEW x, RowOK(x), x.status = "running", NEW d \in BOOLEAN
  PROVE  LET y == [FinishRow(x, x.attempt) EXCEPT !.doubt = d] IN
         /\ Evolves(x, y)
         /\ y.status = "succeeded" /\ y.file = x.attempt /\ y.attempt = x.attempt /\ y.doubt = d
<1> DEFINE y == [FinishRow(x, x.attempt) EXCEPT !.doubt = d]
<1>1. /\ y.status = "succeeded" /\ y.attempt = x.attempt /\ y.file = x.attempt /\ y.doubt = d
  BY DEF RowOK, Row, FinishRow, Release
<1>2. /\ y \in Row /\ y.owner = Nobody /\ y.stamp = Nobody /\ y.live = FALSE
      /\ y.published = FALSE /\ y.reserved = FALSE /\ y.manifest = FALSE
  BY DEF RowOK, Row, FinishRow, Release
<1> HIDE DEF y
<1>4. RowOK(y)
  BY <1>1, <1>2, ExportsAssumption DEF RowOK, Row, Active, NoFile
<1>3. Life!Finished(LifeOf(x), LifeOf(y))
  <2>1. LifeOf(x).stage = "working"
    BY DEF LifeOf, Stage
  <2>2. LifeOf(y) = [stage |-> "ready", attempt |-> x.attempt, file |-> x.attempt]
    BY <1>1 DEF LifeOf, Stage
  <2> QED  BY <2>1, <2>2 DEF LifeOf, Life!Finished, Life!JobLife
<1>5. Evolves(x, y)
  BY <1>3, <1>4 DEF Evolves, Life!Advance
<1> QED  BY <1>1, <1>5 DEF y

----------------------------------------------------------------------------
(* The inductive invariant.                                                *)

Busy(w) == worker[w].pc # "idle"

RowsOK == job \in [Jobs -> Row] /\ \A j \in Jobs : RowOK(job[j])

\* The fence: a row that names a busy worker as owner is at that worker's attempt.
WorkerOK(w) ==
  Busy(w) => /\ worker[w].job \in Jobs
             /\ LET x == job[worker[w].job] IN
                x.status = "running" /\ x.owner = w => x.attempt = worker[w].attempt

WorkersOK == worker \in [Workers -> WorkerState] /\ \A w \in Workers : WorkerOK(w)

MarkOK(s) == sender[s].pc = "marking" => \A j \in sender[s].sent : Active(job[j])

SendersOK == sender \in [Senders -> SenderState] /\ \A s \in Senders : MarkOK(s)

IInv == RowsOK /\ WorkersOK /\ SendersOK

LEMMA InitIInv == Init => IInv
<1> SUFFICES ASSUME Init PROVE IInv
  OBVIOUS
<1>1. RowOK(AbsentRow)
  <2>1. /\ AbsentRow.status = "absent" /\ AbsentRow.attempt = 0 /\ AbsentRow.owner = Nobody
        /\ AbsentRow.stamp = Nobody /\ AbsentRow.live = FALSE
        /\ AbsentRow.published = FALSE /\ AbsentRow.reserved = FALSE
        /\ AbsentRow.manifest = FALSE /\ AbsentRow.file = NoFile
    BY DEF AbsentRow
  <2> QED  BY <2>1, AbsentIsARow DEF RowOK, Active
<1>2. RowsOK
  BY <1>1, AbsentIsARow DEF Init, RowsOK
<1>3. WorkersOK
  <2>1. IdleWorker \in WorkerState /\ IdleWorker.pc = "idle"
    BY AtLeastOneAttempt DEF IdleWorker, WorkerState
  <2> QED  BY <2>1 DEF Init, WorkersOK, WorkerOK, Busy
<1>4. SendersOK
  <2>1. IdleSender \in SenderState /\ IdleSender.pc = "idle"
    BY DEF IdleSender, SenderState
  <2> QED  BY <2>1 DEF Init, SendersOK, MarkOK
<1> QED  BY <1>2, <1>3, <1>4 DEF IInv

----------------------------------------------------------------------------
(* What every step does to the rows.                                       *)

RowsStep == job' \in [Jobs -> Row] /\ \A j \in Jobs : Evolves(job[j], job'[j])

QuietRows == job' \in [Jobs -> Row] /\ \A j \in Jobs : QuietStep(job[j], job'[j])

\* A row that a mark has locked stays active.
Stays(j) == Locked(j) /\ Active(job[j]) => Active(job'[j])

LocksKept == \A j \in Jobs : Stays(j)

LEMMA SameRows == ASSUME RowsOK, UNCHANGED job PROVE QuietRows /\ LocksKept
  BY SameRow DEF RowsOK, QuietRows, LocksKept, Stays

LEMMA OneRow ==
  ASSUME RowsOK, NEW j \in Jobs, NEW y, Evolves(job[j], y), job' = [job EXCEPT ![j] = y],
         Locked(j) /\ Active(job[j]) => Active(y)
  PROVE  /\ RowsStep /\ LocksKept /\ job'[j] = y
         /\ \A i \in Jobs : i # j => job'[i] = job[i]
         /\ Quiet(job[j], y) => QuietRows
<1>1. y \in Row
  BY DEF Evolves, RowOK
<1>2. job' \in [Jobs -> Row] /\ job'[j] = y /\ \A i \in Jobs : i # j => job'[i] = job[i]
  BY <1>1 DEF RowsOK
<1>3. \A i \in Jobs : QuietStep(job[i], job[i])
  BY SameRow DEF RowsOK
<1>4. RowsStep
  BY <1>2, <1>3 DEF RowsStep, QuietStep
<1>5. LocksKept
  BY <1>2 DEF LocksKept, Stays
<1>6. Quiet(job[j], y) => QuietRows
  BY <1>2, <1>3 DEF QuietRows, QuietStep
<1> QED  BY <1>2, <1>4, <1>5, <1>6

LEMMA CreateRows ==
  ASSUME RowsOK, NEW j \in Jobs, NEW s \in Senders, Create(j, s)
  PROVE  QuietRows /\ LocksKept
<1>1. QuietStep(job[j], NewRow(s)) /\ ~Active(job[j])
  BY NewRowStep DEF RowsOK, Create, Active
<1> QED  BY <1>1, OneRow DEF Create, QuietStep

LEMMA SendingRows ==
  ASSUME RowsOK, SendersOK, NEW s \in Senders, Sending(s)
  PROVE  QuietRows /\ LocksKept
<1>1. CASE LeaseDispatches(s)
  <2> DEFINE batch == {j \in Jobs : Dispatchable(job[j]) /\ ~Locked(j)}
  <2>1. job' = [j \in Jobs |-> IF j \in batch THEN [job[j] EXCEPT !.stamp = s, !.fresh = TRUE]
                              ELSE job[j]]
    BY <1>1 DEF LeaseDispatches
  <2>2. ASSUME NEW j \in Jobs PROVE QuietStep(job[j], job'[j]) /\ Stays(j)
    <3>1. CASE j \in batch
      <4>1. RowOK(job[j]) /\ Active(job[j])
        BY <3>1 DEF RowsOK, Dispatchable, Claimable, Active
      <4>2. job'[j] = [job[j] EXCEPT !.stamp = s, !.fresh = TRUE]
        BY <2>1, <3>1
      <4>3. /\ QuietStep(job[j], [job[j] EXCEPT !.stamp = s, !.fresh = TRUE])
            /\ Active([job[j] EXCEPT !.stamp = s, !.fresh = TRUE])
        BY <4>1, LeaseDispatchStep
      <4> QED  BY <4>2, <4>3 DEF Stays
    <3>2. CASE j \notin batch
      <4>1. job'[j] = job[j]
        BY <2>1, <3>2
      <4> QED  BY <4>1, SameRow DEF RowsOK, Stays
    <3> QED  BY <3>1, <3>2
  <2>3. job' \in [Jobs -> Row]
    <3>1. \A j \in Jobs : job'[j] \in Row
      BY <2>2 DEF QuietStep, Evolves, RowOK
    <3> QED  BY <2>1, <3>1
  <2> QED  BY <2>2, <2>3 DEF QuietRows, LocksKept
<1>2. CASE MarkCommits(s)
  <2>1. job' = [j \in Jobs |-> IF j \in sender[s].sent
                              THEN [job[j] EXCEPT !.published = TRUE, !.stamp = Nobody, !.fresh = FALSE]
                              ELSE job[j]]
    BY <1>2 DEF MarkCommits
  <2>2. ASSUME NEW j \in Jobs PROVE QuietStep(job[j], job'[j]) /\ Stays(j)
    <3>1. CASE j \in sender[s].sent
      <4>1. RowOK(job[j]) /\ Active(job[j])
        BY <1>2, <3>1 DEF RowsOK, SendersOK, MarkOK, MarkCommits
      <4>2. job'[j] = [job[j] EXCEPT !.published = TRUE, !.stamp = Nobody, !.fresh = FALSE]
        BY <2>1, <3>1
      <4> QED  BY <4>1, <4>2, MarkStep DEF Stays
    <3>2. CASE j \notin sender[s].sent
      <4>1. job'[j] = job[j]
        BY <2>1, <3>2
      <4> QED  BY <4>1, SameRow DEF RowsOK, Stays
    <3> QED  BY <3>1, <3>2
  <2>3. job' \in [Jobs -> Row]
    <3>1. \A j \in Jobs : job'[j] \in Row
      BY <2>2 DEF QuietStep, Evolves, RowOK
    <3> QED  BY <2>1, <3>1
  <2> QED  BY <2>2, <2>3 DEF QuietRows, LocksKept
<1>3. CASE UNCHANGED job
  BY <1>3, SameRows
<1> QED
  BY <1>1, <1>2, <1>3 DEF Sending, Publish, PublishRaises, MarkStarts

\* A claim that is accepted, deferred or refused finds a row that is active and unlocked.
LEMMA ClaimedRow ==
  ASSUME RowsOK, NEW j \in Jobs, ~Skipped(j)
  PROVE  RowOK(job[j]) /\ Active(job[j]) /\ Claimable(job[j]) /\ ~Locked(j)
         /\ job[j].attempt < MaxAttempts
  BY DEF RowsOK, Skipped, Claimable, Active

LEMMA ClaimAcceptedRows ==
  ASSUME RowsOK, NEW w \in Workers, NEW j \in Jobs, ClaimAccepted(w, j)
  PROVE  /\ RowsStep /\ LocksKept
         /\ \A i \in Jobs : i # j => job'[i] = job[i]
         /\ job'[j].status = "running" /\ job'[j].owner = w
         /\ job'[j].attempt = job[j].attempt + 1
         /\ job[j].file = NoFile /\ job'[j].file = NoFile
<1>1. RowOK(job[j]) /\ Claimable(job[j]) /\ ~Locked(j)
  BY ClaimedRow DEF ClaimAccepted
<1>2. job' = [job EXCEPT ![j] = ClaimRow(job[j], w)]
  BY DEF ClaimAccepted
<1>3. Evolves(job[j], ClaimRow(job[j], w))
  BY <1>1, ClaimRowStep
<1>4. /\ RowsStep /\ LocksKept /\ job'[j] = ClaimRow(job[j], w)
      /\ \A i \in Jobs : i # j => job'[i] = job[i]
  BY <1>1, <1>2, <1>3, OneRow
<1> QED  BY <1>1, <1>4, ClaimRowStep

LEMMA ClaimingRows ==
  ASSUME RowsOK, NEW w \in Workers, NEW j \in Jobs,
         ClaimSkipped(w, j) \/ ClaimDeferred(w, j) \/ ClaimUnavailable(w, j) \/ ClaimRaises(w, j)
  PROVE  QuietRows /\ LocksKept
<1>1. CASE ClaimDeferred(w, j)
  <2>1. QuietStep(job[j], DeferRow(job[j])) /\ ~Locked(j)
    BY <1>1, ClaimedRow, DeferRowStep DEF ClaimDeferred
  <2> QED  BY <1>1, <2>1, OneRow DEF ClaimDeferred, QuietStep
<1>2. CASE ClaimUnavailable(w, j)
  <2>1. QuietStep(job[j], FailRow(job[j])) /\ ~Locked(j)
    BY <1>2, ClaimedRow, FailRowStep DEF ClaimUnavailable
  <2> QED  BY <1>2, <2>1, OneRow DEF ClaimUnavailable, QuietStep
<1>3. CASE UNCHANGED job
  BY <1>3, SameRows
<1> QED  BY <1>1, <1>2, <1>3 DEF ClaimSkipped, ClaimRaises

\* The worker holds a row at its own attempt.
LEMMA HeldRow ==
  ASSUME RowsOK, WorkersOK, NEW w \in Workers, Busy(w)
  PROVE  /\ worker[w].job \in Jobs /\ RowOK(job[worker[w].job])
         /\ Holds(w) => /\ job[worker[w].job].status = "running"
                        /\ job[worker[w].job].attempt = worker[w].attempt
  BY DEF RowsOK, WorkersOK, WorkerOK, Holds

\* The file of the attempt is on offer once the transaction has committed.
LEMMA FinishedRows ==
  ASSUME RowsOK, WorkersOK, NEW w \in Workers, Finishes(w) \/ FinishRaises(w), ~UNCHANGED job
  PROVE  LET j == worker[w].job IN
         /\ RowsStep /\ LocksKept
         /\ j \in Jobs /\ Holds(w) /\ job[j].status = "running"
         /\ job[j].attempt = worker[w].attempt
         /\ \A i \in Jobs : i # j => job'[i] = job[i]
         /\ job'[j].status = "succeeded" /\ job'[j].attempt = worker[w].attempt
         /\ job'[j].file = worker[w].attempt
         /\ FinishRaises(w) => job'[j].doubt
<1> DEFINE j == worker[w].job
           x == job[j]
<1>1. Busy(w) /\ Holds(w) /\ ~Locked(j)
  BY DEF Finishes, FinishRaises, At, Busy
<1>2. j \in Jobs /\ RowOK(x) /\ x.status = "running" /\ x.attempt = worker[w].attempt
  BY <1>1, HeldRow
<1>3. PICK d \in BOOLEAN : /\ job' = [job EXCEPT ![j] = [FinishRow(x, x.attempt) EXCEPT !.doubt = d]]
                           /\ FinishRaises(w) => d
  <2>1. CASE Finishes(w)
    <3>1. job' = [job EXCEPT ![j] = FinishRow(x, x.attempt)] /\ ~FinishRaises(w)
      <4>1. job' = [job EXCEPT ![j] = FinishRow(x, x.attempt)]
        BY <1>2, <2>1 DEF Finishes
      <4>2. worker'[w].pc = "idle"
        BY <2>1 DEF Finishes, Ends, IdleWorker, WorkersOK
      <4>3. FinishRaises(w) => worker'[w].pc = "discarding"
        BY DEF FinishRaises, MovesTo, WorkersOK, WorkerState
      <4> QED  BY <4>1, <4>2, <4>3
    <3>2. /\ x.doubt \in BOOLEAN
          /\ FinishRow(x, x.attempt) = [FinishRow(x, x.attempt) EXCEPT !.doubt = x.doubt]
      BY <1>2 DEF RowOK, Row, FinishRow, Release
    <3> QED  BY <3>1, <3>2
  <2>2. CASE FinishRaises(w)
    BY <1>2, <2>2 DEF FinishRaises
  <2> QED  BY <2>1, <2>2
<1> DEFINE y == [FinishRow(x, x.attempt) EXCEPT !.doubt = d]
<1>4. /\ Evolves(x, y) /\ y.status = "succeeded" /\ y.file = x.attempt
      /\ y.attempt = x.attempt /\ y.doubt = d
  BY <1>2, FinishRowStep
<1> HIDE DEF y, x, j
<1>5. job' = [job EXCEPT ![j] = y] /\ (FinishRaises(w) => d)
  BY <1>3 DEF y, x
<1>6. RowsStep /\ LocksKept /\ job'[j] = y /\ \A i \in Jobs : i # j => job'[i] = job[i]
  BY <1>1, <1>2, <1>4, <1>5, OneRow DEF x
<1> QED  BY <1>1, <1>2, <1>4, <1>5, <1>6 DEF j, x

LEMMA WorkingRows ==
  ASSUME RowsOK, WorkersOK, NEW w \in Workers, Working(w) \/ Dies(w) \/ Redelivered(w)
  PROVE  LocksKept /\ (QuietRows \/ ((Finishes(w) \/ FinishRaises(w)) /\ ~UNCHANGED job))
<1>1. CASE UNCHANGED job
  BY <1>1, SameRows
<1>2. CASE (Finishes(w) \/ FinishRaises(w)) /\ ~UNCHANGED job
  BY <1>2, FinishedRows
<1>3. CASE RecordsFailure(w) /\ ~UNCHANGED job
  <2> DEFINE j == worker[w].job
  <2>1. Busy(w) /\ Holds(w) /\ ~Locked(j)
        /\ job' = [job EXCEPT ![j] = RetryRow(job[j], worker[w].final)]
    BY <1>3 DEF RecordsFailure, At, Busy
  <2>2. j \in Jobs /\ RowOK(job[j]) /\ job[j].status = "running"
    BY <2>1, HeldRow
  <2>3. worker[w].final \in BOOLEAN
    BY DEF WorkersOK, WorkerState
  <2>4. QuietStep(job[j], RetryRow(job[j], worker[w].final))
    BY <2>2, <2>3, RetryRowStep
  <2> QED  BY <2>1, <2>2, <2>4, OneRow DEF QuietStep
<1> QED
  BY <1>1, <1>2, <1>3
  DEF Working, StartsFile, GenerationFails, HeartbeatFails, InstallsFile, FinishLosesLease,
      DiscardsFile, RecordRaises, Dies, Redelivered

\* What may be expired is not active, so that no mark holds it.
LEMMA SettleRows ==
  ASSUME RowsOK, Settle
  PROVE  /\ QuietRows /\ LocksKept
         /\ \A j \in janitor'.expired \cup janitor'.deleting : j \in Jobs /\ job'[j].status \in Leaving
         /\ janitor'.orphans = {}
<1> DEFINE exhausted == {j \in Jobs : Exhausted(job[j]) /\ ~Locked(j)}
           withdrawing == {j \in Jobs : job[j].status = "expired" /\ job[j].file # NoFile}
<1>1. PICK stale \in SUBSET {j \in Jobs : job[j].status = "pending" /\ ~Locked(j)},
           ended \in SUBSET {j \in Jobs : job[j].status = "succeeded"} :
        /\ job' = [j \in Jobs |-> IF j \in stale \cup exhausted THEN FailRow(job[j])
                                  ELSE IF j \in ended \cup withdrawing THEN ExpireRow(job[j])
                                  ELSE job[j]]
        /\ janitor' = [pc |-> "removing", orphans |-> {},
                       expired |-> {j \in ended \cup withdrawing : job[j].file # NoFile},
                       deleting |-> {j \in Jobs : job[j].status = "deleting"}]
  BY DEF Settle
<1> DEFINE failing == stale \cup exhausted
           expiring == ended \cup withdrawing
<1>2. ASSUME NEW j \in failing PROVE j \in Jobs /\ RowOK(job[j]) /\ Active(job[j]) /\ ~Locked(j)
  BY DEF RowsOK, Exhausted, Active
<1>3. ASSUME NEW j \in expiring
      PROVE  /\ j \in Jobs /\ RowOK(job[j]) /\ job[j].status \in {"succeeded", "expired"}
             /\ ~Active(job[j])
  BY DEF RowsOK, Active
<1>4. /\ job' = [j \in Jobs |-> IF j \in failing THEN FailRow(job[j])
                                ELSE IF j \in expiring THEN ExpireRow(job[j]) ELSE job[j]]
      /\ janitor'.expired \subseteq expiring /\ janitor'.orphans = {}
      /\ janitor'.deleting = {j \in Jobs : job[j].status = "deleting"}
  BY <1>1
<1> HIDE DEF failing, expiring
<1>5. ASSUME NEW j \in Jobs
      PROVE  /\ QuietStep(job[j], job'[j]) /\ Stays(j)
             /\ j \in expiring \/ job[j].status = "deleting" => job'[j].status \in Leaving
  <2>1. CASE j \in failing
    <3>1. job'[j] = FailRow(job[j]) /\ RowOK(job[j]) /\ Active(job[j]) /\ ~Locked(j)
      BY <1>2, <1>4, <2>1
    <3>2. j \notin expiring /\ job[j].status # "deleting"
      BY <1>3, <3>1 DEF Active
    <3> QED  BY <3>1, <3>2, FailRowStep DEF Stays
  <2>2. CASE j \notin failing /\ j \in expiring
    <3>1. job'[j] = ExpireRow(job[j]) /\ RowOK(job[j]) /\ ~Active(job[j])
          /\ job[j].status \in {"succeeded", "expired"}
      BY <1>3, <1>4, <2>2
    <3> QED  BY <3>1, ExpireRowStep DEF Stays, Leaving
  <2>3. CASE j \notin failing /\ j \notin expiring
    <3>1. job'[j] = job[j] /\ RowOK(job[j])
      BY <1>4, <2>3 DEF RowsOK
    <3> QED  BY <2>3, <3>1, SameRow DEF Stays, Leaving
  <2> QED  BY <2>1, <2>2, <2>3
<1>6. job' \in [Jobs -> Row]
  <2>1. \A j \in Jobs : job'[j] \in Row
    BY <1>5 DEF QuietStep, Evolves, RowOK
  <2>2. job' = [j \in Jobs |-> job'[j]]
    BY <1>4
  <2> QED  BY <2>1, <2>2
<1>7. ASSUME NEW j \in janitor'.expired \cup janitor'.deleting
      PROVE  j \in Jobs /\ job'[j].status \in Leaving
  <2>1. j \in Jobs /\ (j \in expiring \/ job[j].status = "deleting")
    BY <1>3, <1>4
  <2> QED  BY <1>5, <2>1
<1> QED  BY <1>4, <1>5, <1>6, <1>7 DEF QuietRows, LocksKept

LEMMA FinalizeRows ==
  ASSUME RowsOK, FinalizeRemovals
  PROVE  QuietRows /\ LocksKept
<1>1. job' = [j \in Jobs |->
        IF j \in janitor.expired /\ job[j].status = "expired"
        THEN [job[j] EXCEPT !.file = NoFile]
        ELSE IF j \in janitor.deleting /\ job[j].status = "deleting"
        THEN GoneRow ELSE job[j]]
  BY DEF FinalizeRemovals
<1>2. ASSUME NEW j \in Jobs PROVE QuietStep(job[j], job'[j]) /\ Stays(j)
  <2>0. RowOK(job[j])
    BY DEF RowsOK
  <2>1. CASE job'[j] = [job[j] EXCEPT !.file = NoFile] /\ job[j].status = "expired"
    <3>1. QuietStep(job[j], [job[j] EXCEPT !.file = NoFile]) /\ ~Active(job[j])
      BY <2>0, <2>1, WithdrawRowStep DEF Active
    <3> QED  BY <2>1, <3>1 DEF Stays
  <2>2. CASE job'[j] = GoneRow /\ job[j].status = "deleting"
    <3>1. QuietStep(job[j], GoneRow) /\ ~Active(job[j])
      BY <2>0, <2>2, GoneRowStep DEF Active
    <3> QED  BY <2>2, <3>1 DEF Stays
  <2>3. CASE job'[j] = job[j]
    BY <2>0, <2>3, SameRow DEF Stays
  <2> QED  BY <1>1, <2>1, <2>2, <2>3
<1>3. job' \in [Jobs -> Row]
  <2>1. \A j \in Jobs : job'[j] \in Row
    BY <1>2 DEF QuietStep, Evolves, RowOK
  <2>2. job' = [j \in Jobs |-> job'[j]]
    BY <1>1
  <2> QED  BY <2>1, <2>2
<1> QED  BY <1>2, <1>3 DEF QuietRows, LocksKept

LEMMA DeletingRows ==
  ASSUME RowsOK, NEW j \in Jobs, Deleting(j)
  PROVE  /\ QuietRows /\ LocksKept
         /\ RequestDelete(j) => job'[j].status = "deleting"
<1>0. RowOK(job[j])
  BY DEF RowsOK
<1>1. CASE RequestDelete(j)
  <2>1. QuietStep(job[j], DeleteRow(job[j])) /\ DeleteRow(job[j]).status = "deleting"
    BY <1>0, <1>1, DeleteRowStep DEF RequestDelete
  <2>2. job' = [job EXCEPT ![j] = DeleteRow(job[j])] /\ ~Locked(j)
    BY <1>1 DEF RequestDelete
  <2> QED  BY <2>1, <2>2, OneRow DEF QuietStep
<1>2. CASE FinalizeDelete(j) /\ job[j].status = "deleting"
  <2>1. QuietStep(job[j], GoneRow) /\ ~Active(job[j])
    BY <1>0, <1>2, GoneRowStep DEF Active
  <2>2. job' = [job EXCEPT ![j] = GoneRow] /\ ~RequestDelete(j)
    BY <1>2 DEF FinalizeDelete, RequestDelete
  <2> QED  BY <2>1, <2>2, OneRow DEF QuietStep
<1>3. CASE UNCHANGED job /\ ~RequestDelete(j)
  BY <1>3, SameRows
<1>4. FinalizeDelete(j) /\ job[j].status # "deleting" => UNCHANGED job
  BY DEF FinalizeDelete, RowsOK
<1> QED
  BY <1>1, <1>2, <1>3, <1>4 DEF Deleting, DeleteFile, RequestDies

LEMMA TimeRows ==
  ASSUME RowsOK, NEW j \in Jobs, LeaseRunsOut(j) \/ BackoffEnds(j) \/ DispatchLeaseRunsOut(j)
  PROVE  QuietRows /\ LocksKept
<1>0. RowOK(job[j])
  BY DEF RowsOK
<1>1. CASE LeaseRunsOut(j)
  BY <1>0, <1>1, TimeRowStep, OneRow DEF LeaseRunsOut, QuietStep
<1>2. CASE BackoffEnds(j)
  BY <1>0, <1>2, TimeRowStep, OneRow DEF BackoffEnds, QuietStep
<1>3. CASE DispatchLeaseRunsOut(j)
  BY <1>0, <1>3, TimeRowStep, OneRow DEF DispatchLeaseRunsOut, QuietStep
<1> QED  BY <1>1, <1>2, <1>3

\* Only a claim that is accepted starts an attempt, and only Finishes and
\* FinishRaises finish one.
LEMMA AllRows ==
  ASSUME IInv, [Next]_vars
  PROVE  /\ LocksKept
         /\ \/ QuietRows
            \/ \E w \in Workers, j \in Jobs : ClaimAccepted(w, j)
            \/ \E w \in Workers : (Finishes(w) \/ FinishRaises(w)) /\ ~UNCHANGED job
<1> USE DEF IInv
<1>1. ASSUME NEW j \in Jobs, NEW s \in Senders, Create(j, s) PROVE QuietRows /\ LocksKept
  BY <1>1, CreateRows
<1>2. ASSUME NEW s \in Senders, Sending(s) \/ SenderDies(s) PROVE QuietRows /\ LocksKept
  BY <1>2, SendingRows, SameRows DEF SenderDies
<1>3. ASSUME NEW w \in Workers, NEW j \in Jobs, Claiming(w, j) \/ ClaimRaises(w, j)
      PROVE  LocksKept /\ (QuietRows \/ ClaimAccepted(w, j))
  BY <1>3, ClaimAcceptedRows, ClaimingRows DEF Claiming
<1>4. ASSUME NEW w \in Workers, Working(w) \/ Dies(w) \/ Redelivered(w)
      PROVE  LocksKept /\ (QuietRows \/ ((Finishes(w) \/ FinishRaises(w)) /\ ~UNCHANGED job))
  BY <1>4, WorkingRows
<1>5. CASE Maintaining \/ JanitorDies
  <2>1. CASE Settle
    BY <2>1, SettleRows
  <2>2. CASE FinalizeRemovals
    BY <2>2, FinalizeRows
  <2>3. CASE UNCHANGED job
    BY <2>3, SameRows
  <2> QED  BY <1>5, <2>1, <2>2, <2>3
           DEF Maintaining, RemoveFiles, ListOrphans, SweepOrphans, JanitorDies
<1>6. ASSUME NEW j \in Jobs, Deleting(j) PROVE QuietRows /\ LocksKept
  BY <1>6, DeletingRows
<1>7. ASSUME NEW j \in Jobs, LeaseRunsOut(j) \/ BackoffEnds(j) \/ DispatchLeaseRunsOut(j)
      PROVE  QuietRows /\ LocksKept
  BY <1>7, TimeRows
<1>8. CASE UNCHANGED job
  BY <1>8, SameRows
<1> QED
  BY <1>1, <1>2, <1>3, <1>4, <1>5, <1>6, <1>7, <1>8
  DEF Next, BrokerLoses, GrowsOld, vars

----------------------------------------------------------------------------
(* What every step does to the workers and the publishers.                 *)

\* No worker becomes busy, or turns to another attempt; a failing one only fails.
WorkerQuiet(w, q) ==
  /\ q \in WorkerState
  /\ q.pc # "idle" => Busy(w) /\ q.job = worker[w].job /\ q.attempt = worker[w].attempt
  /\ worker[w].pc \in {"discarding", "failing"} => q.pc \in {"idle", "discarding", "failing"}
  /\ q.pc = "installed" => worker[w].pc = "installed" \/ InstallsFile(w)

QuietWorkers ==
  worker' \in [Workers -> WorkerState] /\ \A w \in Workers : WorkerQuiet(w, worker'[w])

LEMMA SameWorkers == ASSUME WorkersOK, UNCHANGED worker PROVE QuietWorkers
  BY DEF WorkersOK, QuietWorkers, WorkerQuiet, Busy

LEMMA OneWorker ==
  ASSUME WorkersOK, NEW w \in Workers, NEW q, WorkerQuiet(w, q), worker' = [worker EXCEPT ![w] = q]
  PROVE  /\ QuietWorkers /\ worker'[w] = q
         /\ \A v \in Workers : v # w => worker'[v] = worker[v]
<1>1. worker'[w] = q /\ \A v \in Workers : v # w => worker'[v] = worker[v]
  BY DEF WorkersOK
<1>2. worker' \in [Workers -> WorkerState]
  BY DEF WorkersOK, WorkerQuiet
<1>3. \A v \in Workers : WorkerQuiet(v, worker[v])
  BY DEF WorkersOK, WorkerQuiet, Busy
<1> QED  BY <1>1, <1>2, <1>3 DEF QuietWorkers

\* The steps of an attempt: to its next place, or to its end.
LEMMA MovingWorker ==
  ASSUME WorkersOK, NEW w \in Workers, Busy(w),
         NEW pc \in {"writing", "installed", "discarding", "failing"}, MovesTo(w, pc),
         worker[w].pc \in {"discarding", "failing"} => pc \in {"discarding", "failing"},
         pc = "installed" => InstallsFile(w)
  PROVE  /\ QuietWorkers /\ worker'[w].pc = pc
         /\ worker'[w].job = worker[w].job /\ worker'[w].attempt = worker[w].attempt
         /\ \A v \in Workers : v # w => worker'[v] = worker[v]
<1> DEFINE q == [worker[w] EXCEPT !.pc = pc]
<1>1. /\ q \in WorkerState /\ q.pc = pc /\ q.job = worker[w].job
      /\ q.attempt = worker[w].attempt
  BY DEF WorkersOK, WorkerState
<1>2. worker' = [worker EXCEPT ![w] = q]
  BY DEF MovesTo, WorkersOK
<1> HIDE DEF q
<1>3. WorkerQuiet(w, q)
  BY <1>1 DEF WorkerQuiet
<1> QED  BY <1>1, <1>2, <1>3, OneWorker

LEMMA EndingWorker ==
  ASSUME WorkersOK, NEW w \in Workers, Ends(w)
  PROVE  /\ QuietWorkers /\ worker'[w].pc = "idle"
         /\ \A v \in Workers : v # w => worker'[v] = worker[v]
<1>1. IdleWorker \in WorkerState /\ IdleWorker.pc = "idle"
  BY AtLeastOneAttempt DEF IdleWorker, WorkerState
<1>2. WorkerQuiet(w, IdleWorker)
  BY <1>1 DEF WorkerQuiet
<1> QED  BY <1>1, <1>2, OneWorker DEF Ends

LEMMA FailingWorker ==
  ASSUME WorkersOK, NEW w \in Workers, GenerationFails(w)
  PROVE  /\ QuietWorkers /\ worker'[w].pc = "failing"
         /\ worker'[w].job = worker[w].job /\ worker'[w].attempt = worker[w].attempt
         /\ \A v \in Workers : v # w => worker'[v] = worker[v]
<1>1. PICK permanent \in BOOLEAN :
        worker' = [worker EXCEPT ![w].pc = "failing", ![w].final = permanent]
  BY DEF GenerationFails
<1> DEFINE q == [worker[w] EXCEPT !.pc = "failing", !.final = permanent]
<1>2. /\ q \in WorkerState /\ q.pc = "failing" /\ q.job = worker[w].job
      /\ q.attempt = worker[w].attempt
  BY DEF WorkersOK, WorkerState
<1>3. worker' = [worker EXCEPT ![w] = q]
  BY <1>1 DEF WorkersOK
<1> HIDE DEF q
<1>4. WorkerQuiet(w, q)
  BY <1>2 DEF WorkerQuiet, GenerationFails, At, Busy
<1> QED  BY <1>2, <1>3, <1>4, OneWorker

LEMMA WorkingWorkers ==
  ASSUME WorkersOK, NEW w \in Workers, Working(w) \/ Dies(w) \/ Redelivered(w)
  PROVE  QuietWorkers
<1>1. CASE Ends(w)
  BY <1>1, EndingWorker
<1>2. CASE GenerationFails(w)
  BY <1>2, FailingWorker
<1>3. CASE StartsFile(w) \/ InstallsFile(w) \/ FinishRaises(w) \/ DiscardsFile(w)
  BY <1>3, MovingWorker DEF StartsFile, InstallsFile, FinishRaises, DiscardsFile, At, Busy
<1>4. CASE UNCHANGED worker
  BY <1>4, SameWorkers
<1> QED
  BY <1>1, <1>2, <1>3, <1>4
  DEF Working, HeartbeatFails, Finishes, FinishLosesLease, RecordsFailure, RecordRaises, Dies,
      Redelivered

LEMMA ClaimAcceptedWorker ==
  ASSUME WorkersOK, RowsOK, NEW w \in Workers, NEW j \in Jobs, ClaimAccepted(w, j)
  PROVE  /\ worker' \in [Workers -> WorkerState]
         /\ worker'[w].pc = "claimed" /\ worker'[w].job = j
         /\ worker'[w].attempt = job[j].attempt + 1
         /\ \A v \in Workers : v # w => worker'[v] = worker[v]
<1> DEFINE q == [pc |-> "claimed", job |-> j, attempt |-> job[j].attempt + 1, final |-> FALSE]
<1>1. worker' = [worker EXCEPT ![w] = q]
  BY DEF ClaimAccepted
<1>2. job[j].attempt \in 0..MaxAttempts /\ job[j].attempt < MaxAttempts
  BY ClaimedRow DEF ClaimAccepted, RowOK, Row
<1>3. q \in WorkerState
  BY <1>2, AtLeastOneAttempt DEF WorkerState
<1> QED  BY <1>1, <1>3 DEF WorkersOK

LEMMA AllWorkers ==
  ASSUME IInv, [Next]_vars
  PROVE  QuietWorkers \/ \E w \in Workers, j \in Jobs : ClaimAccepted(w, j)
<1> USE DEF IInv
<1>1. ASSUME NEW w \in Workers, Working(w) \/ Dies(w) \/ Redelivered(w) PROVE QuietWorkers
  BY <1>1, WorkingWorkers
<1>2. ASSUME NEW w \in Workers, NEW j \in Jobs, Claiming(w, j) \/ ClaimRaises(w, j)
      PROVE  QuietWorkers \/ ClaimAccepted(w, j)
  BY <1>2, SameWorkers DEF Claiming, ClaimRaises, ClaimSkipped, ClaimDeferred, ClaimUnavailable
<1>3. CASE UNCHANGED worker
  BY <1>3, SameWorkers
<1>4. ASSUME NEW s \in Senders, Sending(s) \/ SenderDies(s) PROVE UNCHANGED worker
  BY <1>4 DEF Sending, SenderDies, LeaseDispatches, Publish, PublishRaises, MarkStarts, MarkCommits
<1>5. CASE Maintaining \/ JanitorDies
  <2>1. UNCHANGED worker
    BY <1>5 DEF Maintaining, JanitorDies, Settle, RemoveFiles, FinalizeRemovals, ListOrphans,
                SweepOrphans
  <2> QED  BY <2>1, SameWorkers
<1>6. ASSUME NEW j \in Jobs, Deleting(j) PROVE UNCHANGED worker
  BY <1>6 DEF Deleting, RequestDelete, DeleteFile, FinalizeDelete, RequestDies
<1> QED
  BY <1>1, <1>2, <1>3, <1>4, <1>5, <1>6
  DEF Next, Create, BrokerLoses, LeaseRunsOut, BackoffEnds, DispatchLeaseRunsOut, GrowsOld, vars

\* A mark locks rows in one place only.
QuietSender(s, q) ==
  q \in SenderState /\ (q.pc = "marking" => sender[s].pc = "marking" /\ q.sent = sender[s].sent)

LEMMA OneSender ==
  ASSUME SendersOK, LocksKept, NEW s \in Senders, NEW q, QuietSender(s, q),
         sender' = [sender EXCEPT ![s] = q]
  PROVE  SendersOK'
<1>1. sender' \in [Senders -> SenderState]
  BY DEF SendersOK, QuietSender
<1>2. ASSUME NEW t \in Senders, sender'[t].pc = "marking", NEW j \in sender'[t].sent
      PROVE  Active(job'[j])
  <2>1. sender[t].pc = "marking" /\ j \in sender[t].sent
    BY <1>2 DEF SendersOK, QuietSender
  <2>2. Active(job[j]) /\ j \in Jobs
    BY <2>1 DEF SendersOK, MarkOK, SenderState
  <2> QED  BY <2>1, <2>2 DEF LocksKept, Stays, Locked
<1> QED  BY <1>1, <1>2 DEF SendersOK, MarkOK, Active

LEMMA SameSenders == ASSUME SendersOK, LocksKept, UNCHANGED sender PROVE SendersOK'
<1>1. ASSUME NEW t \in Senders, sender'[t].pc = "marking", NEW j \in sender'[t].sent
      PROVE  Active(job'[j])
  <2>1. Active(job[j]) /\ j \in Jobs
    BY <1>1 DEF SendersOK, MarkOK, SenderState
  <2> QED  BY <1>1, <2>1 DEF LocksKept, Stays, Locked
<1> QED  BY <1>1 DEF SendersOK, MarkOK, Active

LEMMA IdleIsASender == IdleSender \in SenderState /\ IdleSender.pc = "idle"
  BY DEF IdleSender, SenderState

LEMMA MarkStartsSenders ==
  ASSUME RowsOK, SendersOK, LocksKept, NEW s \in Senders, MarkStarts(s)
  PROVE  SendersOK'
<1>1. CASE Marks(s) = {}
  <2>1. sender' = [sender EXCEPT ![s] = IdleSender]
    BY <1>1 DEF MarkStarts
  <2> QED  BY <2>1, IdleIsASender, OneSender DEF QuietSender
<1>2. CASE Marks(s) # {}
  <2> DEFINE q == [pc |-> "marking", todo |-> {}, sent |-> Marks(s)]
  <2>1. sender' = [sender EXCEPT ![s] = q] /\ UNCHANGED job
    BY <1>2 DEF MarkStarts
  <2>2. Marks(s) \subseteq Jobs
    BY DEF Marks, SendersOK, SenderState
  <2>3. \A j \in Marks(s) : Active(job[j])
    BY <2>2, ExportsAssumption DEF Marks, RowsOK, RowOK
  <2>4. q \in SenderState
    BY <2>2 DEF SenderState
  <2> HIDE DEF q
  <2>5. sender' \in [Senders -> SenderState] /\ sender'[s] = q
        /\ \A t \in Senders : t # s => sender'[t] = sender[t]
    BY <2>1, <2>4 DEF SendersOK
  <2>6. ASSUME NEW t \in Senders, sender'[t].pc = "marking", NEW j \in sender'[t].sent
        PROVE  Active(job'[j])
    <3>1. CASE t = s
      BY <2>1, <2>3, <2>5, <2>6, <3>1 DEF q
    <3>2. CASE t # s
      BY <2>1, <2>5, <2>6, <3>2 DEF SendersOK, MarkOK
    <3> QED  BY <3>1, <3>2
  <2> QED  BY <2>5, <2>6 DEF SendersOK, MarkOK, Active
<1> QED  BY <1>1, <1>2

LEMMA AllSenders == ASSUME IInv, [Next]_vars, LocksKept PROVE SendersOK'
<1> USE DEF IInv
<1>1. ASSUME NEW j \in Jobs, NEW s \in Senders, Create(j, s) PROVE SendersOK'
  <2> DEFINE q == [pc |-> "publishing", todo |-> {j}, sent |-> {}]
  <2>1. QuietSender(s, q)
    BY DEF QuietSender, SenderState
  <2> QED  BY <1>1, <2>1, OneSender DEF Create
<1>2. ASSUME NEW s \in Senders, Sending(s) \/ SenderDies(s) PROVE SendersOK'
  <2>1. CASE LeaseDispatches(s)
    <3> DEFINE batch == {j \in Jobs : Dispatchable(job[j]) /\ ~Locked(j)}
               q == [pc |-> "publishing", todo |-> batch, sent |-> {}]
    <3>1. QuietSender(s, q)
      BY DEF QuietSender, SenderState
    <3>2. sender' = [sender EXCEPT ![s] = q]
      BY <2>1 DEF LeaseDispatches
    <3> QED  BY <3>1, <3>2, OneSender
  <2>2. ASSUME NEW j \in Jobs, Publish(j, s) PROVE SendersOK'
    <3> DEFINE q == [sender[s] EXCEPT !.todo = sender[s].todo \ {j},
                                      !.sent = sender[s].sent \cup {j}]
    <3>1. q \in SenderState /\ q.pc = "publishing"
      BY <2>2 DEF Publish, SendersOK, SenderState
    <3>2. sender' = [sender EXCEPT ![s] = q]
      BY <2>2 DEF Publish, SendersOK
    <3> HIDE DEF q
    <3> QED  BY <3>1, <3>2, OneSender DEF QuietSender
  <2>3. ASSUME NEW j \in Jobs, PublishRaises(j, s) PROVE SendersOK'
    <3> DEFINE q == [sender[s] EXCEPT !.todo = sender[s].todo \ {j}]
    <3>1. q \in SenderState /\ q.pc = "publishing"
      BY <2>3 DEF PublishRaises, SendersOK, SenderState
    <3>2. sender' = [sender EXCEPT ![s] = q]
      BY <2>3 DEF PublishRaises, SendersOK
    <3> HIDE DEF q
    <3> QED  BY <3>1, <3>2, OneSender DEF QuietSender
  <2>4. CASE MarkStarts(s)
    BY <2>4, MarkStartsSenders
  <2>5. CASE MarkCommits(s) \/ SenderDies(s)
    <3>1. sender' = [sender EXCEPT ![s] = IdleSender]
      BY <2>5 DEF MarkCommits, SenderDies
    <3> QED  BY <3>1, IdleIsASender, OneSender DEF QuietSender
  <2> QED  BY <1>2, <2>1, <2>2, <2>3, <2>4, <2>5 DEF Sending
<1>3. CASE UNCHANGED sender
  BY <1>3, SameSenders
<1>4. ASSUME NEW w \in Workers, Working(w) \/ Dies(w) \/ Redelivered(w) PROVE UNCHANGED sender
  BY <1>4 DEF Working, Dies, Redelivered, StartsFile, GenerationFails, HeartbeatFails,
              InstallsFile, Finishes, FinishRaises, FinishLosesLease, DiscardsFile,
              RecordsFailure, RecordRaises
<1>5. ASSUME NEW w \in Workers, NEW j \in Jobs, Claiming(w, j) \/ ClaimRaises(w, j)
      PROVE  UNCHANGED sender
  BY <1>5 DEF Claiming, ClaimRaises, ClaimAccepted, ClaimSkipped, ClaimDeferred, ClaimUnavailable
<1>6. CASE Maintaining \/ JanitorDies
  <2>1. UNCHANGED sender
    BY <1>6 DEF Maintaining, JanitorDies, Settle, RemoveFiles, FinalizeRemovals, ListOrphans,
                SweepOrphans
  <2> QED  BY <2>1, SameSenders
<1>7. ASSUME NEW j \in Jobs, Deleting(j) PROVE UNCHANGED sender
  BY <1>7 DEF Deleting, RequestDelete, DeleteFile, FinalizeDelete, RequestDies
<1> QED
  BY <1>1, <1>2, <1>3, <1>4, <1>5, <1>6, <1>7
  DEF Next, BrokerLoses, LeaseRunsOut, BackoffEnds, DispatchLeaseRunsOut, GrowsOld, vars

----------------------------------------------------------------------------
(* The theorems.                                                           *)

\* A busy worker after the step was busy with the same attempt before, or has claimed.
LEMMA NextWorkersOK == ASSUME IInv, [Next]_vars PROVE WorkersOK'
<1> USE DEF IInv
<1>1. CASE \E w \in Workers, j \in Jobs : ClaimAccepted(w, j)
  <2>1. PICK w \in Workers, j \in Jobs : ClaimAccepted(w, j)
    BY <1>1
  <2>2. /\ worker' \in [Workers -> WorkerState]
        /\ worker'[w].pc = "claimed" /\ worker'[w].job = j
        /\ worker'[w].attempt = job[j].attempt + 1
        /\ \A v \in Workers : v # w => worker'[v] = worker[v]
    BY <2>1, ClaimAcceptedWorker
  <2>3. /\ job'[j].owner = w /\ job'[j].attempt = job[j].attempt + 1
        /\ \A i \in Jobs : i # j => job'[i] = job[i]
    BY <2>1, ClaimAcceptedRows
  <2>4. ASSUME NEW v \in Workers PROVE WorkerOK(v)'
    <3>1. CASE v = w
      BY <2>2, <2>3, <3>1 DEF WorkerOK, Busy
    <3>2. CASE v # w
      <4>1. WorkerOK(v) /\ worker'[v] = worker[v]
        BY <2>2, <3>2 DEF WorkersOK
      <4>2. CASE worker[v].job = j
        BY <2>3, <3>2, <4>1, <4>2 DEF WorkerOK, Busy
      <4>3. CASE worker[v].job # j
        BY <2>3, <4>1, <4>3 DEF WorkerOK, Busy
      <4> QED  BY <4>2, <4>3
    <3> QED  BY <3>1, <3>2
  <2> QED  BY <2>2, <2>4 DEF WorkersOK
<1>2. CASE QuietWorkers /\ QuietRows
  <2>1. ASSUME NEW v \in Workers, Busy(v)' PROVE WorkerOK(v)'
    <3>1. /\ Busy(v) /\ worker'[v].job = worker[v].job
          /\ worker'[v].attempt = worker[v].attempt /\ WorkerOK(v)
      BY <1>2, <2>1 DEF QuietWorkers, WorkerQuiet, WorkersOK, Busy
    <3>2. worker[v].job \in Jobs
      BY <3>1 DEF WorkerOK
    <3>3. Quiet(job[worker[v].job], job'[worker[v].job])
      BY <1>2, <3>2 DEF QuietRows, QuietStep
    <3> QED  BY <3>1, <3>2, <3>3 DEF Quiet, WorkerOK
  <2> QED  BY <1>2, <2>1 DEF QuietWorkers, WorkersOK, WorkerOK, Busy
<1>3. CASE QuietWorkers /\ \E w \in Workers : (Finishes(w) \/ FinishRaises(w)) /\ ~UNCHANGED job
  <2>1. PICK w \in Workers : (Finishes(w) \/ FinishRaises(w)) /\ ~UNCHANGED job
    BY <1>3
  <2> DEFINE j == worker[w].job
  <2>2. j \in Jobs /\ job'[j].status = "succeeded" /\ \A i \in Jobs : i # j => job'[i] = job[i]
    BY <2>1, FinishedRows
  <2> HIDE DEF j
  <2>3. ASSUME NEW v \in Workers, Busy(v)' PROVE WorkerOK(v)'
    <3>1. /\ Busy(v) /\ worker'[v].job = worker[v].job
          /\ worker'[v].attempt = worker[v].attempt /\ WorkerOK(v)
      BY <1>3, <2>3 DEF QuietWorkers, WorkerQuiet, WorkersOK, Busy
    <3> QED  BY <2>2, <3>1 DEF WorkerOK
  <2> QED  BY <1>3, <2>3 DEF QuietWorkers, WorkersOK, WorkerOK, Busy
<1> QED  BY <1>1, <1>2, <1>3, AllRows, AllWorkers

LEMMA NextRowsStep == ASSUME IInv, [Next]_vars PROVE RowsStep
<1> USE DEF IInv
<1>1. QuietRows => RowsStep
  BY DEF QuietRows, RowsStep, QuietStep
<1>2. (\E w \in Workers, j \in Jobs : ClaimAccepted(w, j)) => RowsStep
  BY ClaimAcceptedRows
<1>3. (\E w \in Workers : (Finishes(w) \/ FinishRaises(w)) /\ ~UNCHANGED job) => RowsStep
  BY FinishedRows
<1> QED  BY <1>1, <1>2, <1>3, AllRows

LEMMA NextIInv == IInv /\ [Next]_vars => IInv'
<1> SUFFICES ASSUME IInv, [Next]_vars PROVE IInv'
  OBVIOUS
<1>1. RowsOK'
  BY NextRowsStep DEF RowsStep, RowsOK, Evolves, RowOK, Row, Active
<1>2. WorkersOK'
  BY NextWorkersOK
<1>3. SendersOK'
  BY AllRows, AllSenders
<1> QED  BY <1>1, <1>2, <1>3 DEF IInv

\* The rows, the fence and the locks of the marks are as they should be in every
\* reachable state.
THEOREM Invariance == Spec => []IInv
  BY InitIInv, NextIInv, PTL DEF Spec

LEMMA RowsGiveNothingIsKept == RowsOK => NothingIsKept
<1> SUFFICES ASSUME RowsOK, NEW j \in Jobs
    PROVE LET x == job[j] IN
      /\ x.manifest = Active(x)
      /\ x.reserved = (x.status = "running")
      /\ ~Active(x) => x.owner = Nobody /\ ~x.live /\ x.stamp = Nobody /\ ~x.published
      /\ x.status = "pending" => x.owner = Nobody /\ ~x.live /\ x.attempt < MaxAttempts
  BY DEF NothingIsKept
<1>1. RowOK(job[j])
  BY DEF RowsOK
<1>2. job[j].manifest \in BOOLEAN /\ job[j].reserved \in BOOLEAN
  BY <1>1 DEF RowOK, Row
<1>3. job[j].manifest = Active(job[j])
  BY <1>1, <1>2 DEF RowOK, Active
<1>4. job[j].reserved = (job[j].status = "running")
  BY <1>1, <1>2 DEF RowOK
<1> QED  BY <1>1, <1>3, <1>4 DEF RowOK

\* A settled job keeps no lease, reservation, dispatch or manifest, an active one
\* has its manifest, and only a running one reserves space on the volume.
THEOREM NothingIsKeptForNothing == Spec => []NothingIsKept
  BY Invariance, RowsGiveNothingIsKept, PTL DEF IInv

LEMMA InitRefines == Init => Life!Init
  BY DEF Init, Life!Init, Lives, Stage, AbsentRow, NoFile, Life!Unborn, Life!JobLife

LEMMA NextRefines == IInv /\ [Next]_vars => [Life!Next]_Lives
<1> SUFFICES ASSUME IInv, [Next]_vars PROVE Life!Next
  OBVIOUS
<1>1. \A j \in Jobs : Lives[j] = LifeOf(job[j]) /\ Lives'[j] = LifeOf(job'[j])
  BY DEF Lives, LifeOf, Stage
<1>2. \A j \in Jobs : Lives'[j] = Lives[j] \/ Life!Advance(Lives[j], Lives'[j])
  BY <1>1, NextRowsStep DEF RowsStep, Evolves
<1>3. Lives' = [j \in Jobs |-> Lives'[j]]
  BY DEF Lives
<1> QED  BY <1>2, <1>3 DEF Life!Next

\* Every step of the API, the workers and the maintenance task, those of a worker
\* without a lease included, is a step of the abstract life of the jobs.
THEOREM Refinement == Spec => RefinesLife
<1>1. Init => Life!Init
  BY InitRefines
<1>2. IInv /\ [Next]_vars => [Life!Next]_Lives
  BY NextRefines
<1> QED  BY <1>1, <1>2, Invariance, PTL DEF Spec, RefinesLife, Life!Spec

----------------------------------------------------------------------------

(***************************************************************************)
(* The files.  A job that is offered for download has its file:            *)
(* ReadyHasFile of Exports, for every set of jobs, workers and publishers. *)
(*                                                                         *)
(* Four parties remove files: a worker that has lost its lease or doubts   *)
(* its commit, the clean-up of expired and deleted jobs, the orphan sweep, *)
(* and the owner's deletion.  The invariant says of each why the file of a *)
(* ready job is not its file: two busy workers never share an attempt; a   *)
(* job on a list of the clean-up, or under deletion, has left for good;    *)
(* and an orphan is a file old enough that the attempt it belongs to has   *)
(* lost its lease, so that no row will come to refer to it.                *)
(***************************************************************************)
JanitorState ==
  [pc: {"idle", "removing", "finalizing", "listing", "sweeping"},
   expired: SUBSET Jobs, deleting: SUBSET Jobs, orphans: SUBSET File]

VolumeOK ==
  /\ temp \subseteq File /\ final \subseteq File /\ aged \subseteq File
  /\ janitor \in JanitorState /\ janitor.orphans \subseteq aged

\* A file, or the age of one, belongs to an attempt that has been started.
Started ==
  \A f \in temp \cup final \cup aged : job[f[1]].status = "gone" \/ f[2] <= job[f[1]].attempt

AttemptOK(w) ==
  Busy(w) => LET x == job[worker[w].job] IN
             worker[w].attempt > 0 /\ (x.status = "gone" \/ worker[w].attempt <= x.attempt)

Distinct == \A v, w \in Workers : v # w /\ Busy(v) /\ Busy(w) => MyFile(v) # MyFile(w)

\* A busy worker whose file is on offer has lost the reply to its commit.
DoubtOK(w) ==
  Busy(w) /\ job[worker[w].job].file = worker[w].attempt
    => worker[w].pc \in {"discarding", "failing"} /\ job[worker[w].job].doubt

\* The file of a live attempt is young.
YoungOK(w) == Busy(w) /\ Holds(w) => MyFile(w) \notin aged

InstalledOK(w) ==
  worker[w].pc = "installed" => MyFile(w) \notin temp /\ (Holds(w) => MyFile(w) \in final)

\* Neither a temporary file nor an orphan is on offer.
Unoffered == \A f \in temp \cup janitor.orphans : f[2] # job[f[1]].file

Left(j) == job[j].status \in Leaving

LeavingOK ==
  /\ \A j \in janitor.expired \cup janitor.deleting : Left(j)
  /\ \A j \in Jobs : removal[j] = "removing" => Left(j)

RemovalOK == removal \in [Jobs -> {"none", "removing", "finalizing"}]

WorkerFiles ==
  /\ \A w \in Workers : AttemptOK(w) /\ DoubtOK(w) /\ YoungOK(w) /\ InstalledOK(w)
  /\ Distinct

FInv ==
  /\ VolumeOK /\ RemovalOK /\ LeavingOK
  /\ Started /\ Unoffered
  /\ WorkerFiles
  /\ ReadyHasFile

LEMMA InitFInv == Init => FInv
<1> SUFFICES ASSUME Init PROVE FInv
  OBVIOUS
<1>1. \A w \in Workers : worker[w].pc = "idle"
  BY DEF Init, IdleWorker
<1>2. WorkerFiles
  BY <1>1 DEF WorkerFiles, AttemptOK, DoubtOK, YoungOK, InstalledOK, Distinct, Busy
<1>3. janitor \in JanitorState /\ janitor.orphans = {} /\ janitor.expired = {} /\ janitor.deleting = {}
  BY DEF Init, IdleJanitor, JanitorState
<1>4. VolumeOK /\ Started /\ Unoffered
  BY <1>3 DEF Init, VolumeOK, Started, Unoffered
<1>5. RemovalOK /\ LeavingOK
  BY <1>3 DEF Init, RemovalOK, LeavingOK
<1>6. ReadyHasFile
  BY DEF Init, ReadyHasFile, AbsentRow
<1> QED  BY <1>2, <1>4, <1>5, <1>6 DEF FInv

----------------------------------------------------------------------------
(* What every step that is quiet about rows and workers keeps.             *)

\* The file of a busy worker.
LEMMA BusyFile ==
  ASSUME IInv, FInv, NEW w \in Workers, Busy(w)
  PROVE  /\ worker[w].job \in Jobs /\ worker[w].attempt \in 1..MaxAttempts
         /\ MyFile(w) \in File /\ MyFile(w)[1] = worker[w].job /\ MyFile(w)[2] = worker[w].attempt
         /\ RowOK(job[worker[w].job])
<1>1. worker[w].job \in Jobs /\ worker[w].attempt \in 0..MaxAttempts
      /\ RowOK(job[worker[w].job])
  BY DEF IInv, WorkersOK, WorkerOK, WorkerState, RowsOK
<1>2. worker[w].attempt > 0
  BY DEF FInv, WorkerFiles, AttemptOK
<1>3. worker[w].attempt \in 1..MaxAttempts
  BY <1>1, <1>2, AtLeastOneAttempt
<1> QED  BY <1>1, <1>3 DEF MyFile, File

LEMMA KeptAttempts ==
  ASSUME IInv, FInv, QuietRows, QuietWorkers
  PROVE  (\A w \in Workers : AttemptOK(w)' /\ DoubtOK(w)') /\ Distinct'
<1>1. ASSUME NEW w \in Workers, Busy(w)'
      PROVE  /\ Busy(w) /\ worker'[w].job = worker[w].job /\ worker'[w].attempt = worker[w].attempt
             /\ worker[w].pc \in {"discarding", "failing"} => worker'[w].pc \in {"discarding", "failing"}
             /\ Quiet(job[worker[w].job], job'[worker[w].job]) /\ RowOK(job'[worker[w].job])
             /\ worker[w].attempt > 0
  <2>1. /\ Busy(w) /\ worker'[w].job = worker[w].job /\ worker'[w].attempt = worker[w].attempt
        /\ worker[w].pc \in {"discarding", "failing"} => worker'[w].pc \in {"discarding", "failing"}
    BY <1>1 DEF QuietWorkers, WorkerQuiet, Busy
  <2> QED  BY <2>1, BusyFile DEF QuietRows, QuietStep, Evolves
<1>2. ASSUME NEW w \in Workers, Busy(w)' PROVE AttemptOK(w)'
  BY <1>1, <1>2 DEF AttemptOK, Quiet, FInv, WorkerFiles
<1>3. ASSUME NEW w \in Workers, Busy(w)' PROVE DoubtOK(w)'
  BY <1>1, <1>3 DEF DoubtOK, Quiet, FInv, WorkerFiles, NoFile
<1>4. Distinct'
  BY <1>1 DEF Distinct, MyFile, FInv, WorkerFiles
<1> QED  BY <1>2, <1>3, <1>4 DEF AttemptOK, DoubtOK

\* A lease that is live was live before.
LEMMA KeptHold ==
  ASSUME IInv, FInv, QuietRows, QuietWorkers, NEW w \in Workers, Busy(w)', Holds(w)'
  PROVE  Busy(w) /\ Holds(w) /\ MyFile(w)' = MyFile(w)
<1>1. /\ Busy(w) /\ worker'[w].job = worker[w].job /\ worker'[w].attempt = worker[w].attempt
  BY DEF QuietWorkers, WorkerQuiet, Busy
<1>2. Quiet(job[worker[w].job], job'[worker[w].job])
  BY <1>1, BusyFile DEF QuietRows, QuietStep
<1> QED  BY <1>1, <1>2 DEF Holds, Quiet, MyFile

LEMMA KeptYoung ==
  ASSUME IInv, FInv, QuietRows, QuietWorkers,
         \A f \in aged' \ aged : ~InUse(f)
  PROVE  \A w \in Workers : YoungOK(w)'
<1> SUFFICES ASSUME NEW w \in Workers, Busy(w)', Holds(w)' PROVE MyFile(w)' \notin aged'
  BY DEF YoungOK
<1>1. Busy(w) /\ Holds(w) /\ MyFile(w)' = MyFile(w)
  BY KeptHold
<1>2. MyFile(w) \notin aged /\ InUse(MyFile(w))
  BY <1>1 DEF FInv, WorkerFiles, YoungOK, InUse, Busy
<1> QED  BY <1>1, <1>2

\* Nothing is offered that was not, and what is offered keeps its file.
LEMMA KeptReady ==
  ASSUME IInv, FInv, QuietRows,
         \A j \in Jobs : job[j].status = "succeeded" /\ ~job[j].doubt /\ FileOf(j) \in final
                           => FileOf(j) \in final'
  PROVE  ReadyHasFile'
<1> SUFFICES ASSUME NEW j \in Jobs, job'[j].status = "succeeded", ~job'[j].doubt
             PROVE  FileOf(j)' \in final'
  BY DEF ReadyHasFile
<1>1. Quiet(job[j], job'[j]) /\ RowOK(job'[j])
  BY DEF QuietRows, QuietStep, Evolves
<1>2. job[j].status = "succeeded" /\ ~job[j].doubt /\ job'[j].file = job[j].file
  BY <1>1 DEF Quiet, RowOK
<1> QED  BY <1>2 DEF FileOf, FInv, ReadyHasFile

LEMMA KeptStarted ==
  ASSUME IInv, FInv, QuietRows,
         temp' \subseteq File, final' \subseteq File, aged' \subseteq File,
         \A f \in temp' \cup final' \cup aged' :
           f \in temp \cup final \cup aged \/ \E w \in Workers : Busy(w) /\ f = MyFile(w)
  PROVE  Started'
<1> SUFFICES ASSUME NEW f \in temp' \cup final' \cup aged'
             PROVE  job'[f[1]].status = "gone" \/ f[2] <= job'[f[1]].attempt
  BY DEF Started
<1>1. f[1] \in Jobs
  BY DEF File
<1>2. Quiet(job[f[1]], job'[f[1]])
  BY <1>1 DEF QuietRows, QuietStep
<1>3. job[f[1]].status = "gone" \/ f[2] <= job[f[1]].attempt
  <2>1. CASE f \in temp \cup final \cup aged
    BY <2>1 DEF FInv, Started
  <2>2. CASE \E w \in Workers : Busy(w) /\ f = MyFile(w)
    <3>1. PICK w \in Workers : Busy(w) /\ f = MyFile(w)
      BY <2>2
    <3> QED  BY <3>1, BusyFile DEF FInv, WorkerFiles, AttemptOK
  <2> QED  BY <2>1, <2>2
<1> QED  BY <1>2, <1>3 DEF Quiet

\* A file that no row offers is not offered after a quiet step.
LEMMA KeptUnoffered ==
  ASSUME IInv, FInv, QuietRows, temp' \subseteq File, NEW orphans \in SUBSET File,
         janitor'.orphans = orphans,
         \A f \in temp' \cup orphans : f[2] # job[f[1]].file
  PROVE  Unoffered'
<1> SUFFICES ASSUME NEW f \in temp' \cup orphans PROVE f[2] # job'[f[1]].file
  BY DEF Unoffered
<1>1. f[1] \in Jobs /\ f[2] \in 1..MaxAttempts
  BY DEF File
<1>2. Quiet(job[f[1]], job'[f[1]])
  BY <1>1 DEF QuietRows, QuietStep
<1>3. f[2] # NoFile
  BY <1>1, AtLeastOneAttempt DEF NoFile
<1> QED  BY <1>2, <1>3 DEF Quiet

\* What an installed file needs, when no file is installed in the step.
LEMMA KeptInstalled ==
  ASSUME IInv, FInv, QuietRows, QuietWorkers, \A w \in Workers : ~InstallsFile(w),
         \A w \in Workers : worker[w].pc = "installed" /\ worker'[w].pc = "installed" =>
           /\ MyFile(w) \notin temp'
           /\ Holds(w) /\ MyFile(w) \in final => MyFile(w) \in final'
  PROVE  \A w \in Workers : InstalledOK(w)'
<1> SUFFICES ASSUME NEW w \in Workers, worker'[w].pc = "installed"
             PROVE  MyFile(w)' \notin temp' /\ (Holds(w)' => MyFile(w)' \in final')
  BY DEF InstalledOK
<1>1. /\ Busy(w)' /\ worker[w].pc = "installed"
      /\ worker'[w].job = worker[w].job /\ worker'[w].attempt = worker[w].attempt
  BY DEF QuietWorkers, WorkerQuiet, Busy
<1>2. MyFile(w)' = MyFile(w) /\ MyFile(w) \notin temp'
  BY <1>1 DEF MyFile
<1>3. Holds(w)' => Holds(w)
  BY <1>1, KeptHold
<1>4. Holds(w) => MyFile(w) \in final'
  BY <1>1 DEF FInv, WorkerFiles, InstalledOK
<1> QED  BY <1>2, <1>3, <1>4

----------------------------------------------------------------------------
(* What is leaving has left for good.                                      *)

LEMMA LeftForGood == ASSUME IInv, [Next]_vars, NEW j \in Jobs, Left(j) PROVE Left(j)'
<1> USE DEF IInv
<1>1. CASE QuietRows
  BY <1>1 DEF QuietRows, QuietStep, Quiet, Left
<1>2. CASE \E w \in Workers, i \in Jobs : ClaimAccepted(w, i)
  <2>1. PICK w \in Workers, i \in Jobs : ClaimAccepted(w, i)
    BY <1>2
  <2>2. i # j
    <3>1. job[i].status \in {"pending", "running"}
      BY <2>1, ClaimedRow DEF ClaimAccepted, Active
    <3> QED  BY <3>1 DEF Left, Leaving
  <2> QED  BY <2>1, <2>2, ClaimAcceptedRows DEF Left
<1>3. CASE \E w \in Workers : (Finishes(w) \/ FinishRaises(w)) /\ ~UNCHANGED job
  <2>1. PICK w \in Workers : (Finishes(w) \/ FinishRaises(w)) /\ ~UNCHANGED job
    BY <1>3
  <2>2. /\ job[worker[w].job].status = "running"
        /\ \A i \in Jobs : i # worker[w].job => job'[i] = job[i]
    BY <2>1, FinishedRows
  <2>3. worker[w].job # j
    BY <2>2 DEF Left, Leaving
  <2> QED  BY <2>2, <2>3 DEF Left
<1> QED  BY <1>1, <1>2, <1>3, AllRows

\* Lists of the clean-up only name jobs that have left.
Lists(q) == q \in JanitorState /\ \A j \in q.expired \cup q.deleting : Left(j)'

\* What is on the orphan list is old, and was on it or is offered by no row.
Sweeps(q) ==
  /\ q.orphans \subseteq aged
  /\ q.orphans \subseteq janitor.orphans \/ q.orphans \subseteq temp \cup (final \ Referenced)

LEMMA IdleLists == Lists(IdleJanitor) /\ Sweeps(IdleJanitor)
  BY DEF Lists, Sweeps, IdleJanitor, JanitorState

LEMMA SameLists ==
  ASSUME IInv, FInv, [Next]_vars PROVE Lists(janitor) /\ Sweeps(janitor)
<1>1. \A j \in janitor.expired \cup janitor.deleting : j \in Jobs /\ Left(j)
  BY DEF FInv, VolumeOK, JanitorState, LeavingOK
<1> QED  BY <1>1, LeftForGood DEF Lists, Sweeps, FInv, VolumeOK

LEMMA NextLists == ASSUME IInv, FInv, [Next]_vars PROVE Lists(janitor') /\ Sweeps(janitor')
<1>0. Lists(janitor) /\ Sweeps(janitor) /\ janitor \in JanitorState
  BY SameLists DEF FInv, VolumeOK
<1>1. CASE Settle
  <2>1. \A j \in janitor'.expired \cup janitor'.deleting : j \in Jobs /\ Left(j)'
    BY <1>1, SettleRows DEF IInv, Left
  <2>2. janitor'.orphans = {}
    BY <1>1, SettleRows DEF IInv
  <2>3. janitor' = [pc |-> "removing", orphans |-> {}, expired |-> janitor'.expired,
                    deleting |-> janitor'.deleting]
    BY <1>1 DEF Settle
  <2>4. janitor' \in JanitorState
    BY <2>1, <2>3 DEF JanitorState
  <2> QED  BY <2>1, <2>2, <2>4 DEF Lists, Sweeps
<1>2. ASSUME NEW stuck \in SUBSET Jobs, RemoveFiles(stuck) PROVE Lists(janitor') /\ Sweeps(janitor')
  <2> DEFINE q == [janitor EXCEPT !.pc = "finalizing", !.expired = janitor.expired \ stuck,
                                  !.deleting = janitor.deleting \ stuck]
  <2>1. /\ q \in JanitorState /\ q.orphans = janitor.orphans
        /\ q.expired \subseteq janitor.expired /\ q.deleting \subseteq janitor.deleting
    BY <1>0 DEF JanitorState
  <2>2. janitor' = q
    BY <1>0, <1>2 DEF RemoveFiles, JanitorState
  <2> HIDE DEF q
  <2> QED  BY <1>0, <2>1, <2>2 DEF Lists, Sweeps
<1>3. CASE FinalizeRemovals
  <2>1. janitor' = [IdleJanitor EXCEPT !.pc = "listing"]
    BY <1>3 DEF FinalizeRemovals
  <2> QED  BY <2>1 DEF Lists, Sweeps, IdleJanitor, JanitorState
<1>4. CASE ListOrphans
  <2> DEFINE found == aged \cap (temp \cup (final \ Referenced))
             q == [janitor EXCEPT !.pc = "sweeping", !.orphans = found]
  <2>1. found \subseteq File
    BY DEF FInv, VolumeOK
  <2>2. /\ q \in JanitorState /\ q.orphans = found
        /\ q.expired = janitor.expired /\ q.deleting = janitor.deleting
    BY <1>0, <2>1 DEF JanitorState
  <2>3. janitor' = q
    BY <1>4 DEF ListOrphans
  <2> HIDE DEF q
  <2> QED  BY <1>0, <2>2, <2>3 DEF Lists, Sweeps
<1>5. ASSUME NEW stuck, SweepOrphans(stuck) \/ JanitorDies PROVE Lists(janitor') /\ Sweeps(janitor')
  <2>1. janitor' = IdleJanitor
    BY <1>5 DEF SweepOrphans, JanitorDies
  <2> QED  BY <2>1, IdleLists
<1>6. CASE UNCHANGED janitor
  BY <1>0, <1>6
<1>7. ASSUME NEW s \in Senders, Sending(s) \/ SenderDies(s) PROVE UNCHANGED janitor
  BY <1>7 DEF Sending, SenderDies, LeaseDispatches, Publish, PublishRaises, MarkStarts, MarkCommits
<1>8. ASSUME NEW w \in Workers, Working(w) \/ Dies(w) \/ Redelivered(w) PROVE UNCHANGED janitor
  BY <1>8 DEF Working, Dies, Redelivered, StartsFile, GenerationFails, HeartbeatFails,
              InstallsFile, Finishes, FinishRaises, FinishLosesLease, DiscardsFile,
              RecordsFailure, RecordRaises
<1>9. ASSUME NEW w \in Workers, NEW j \in Jobs, Claiming(w, j) \/ ClaimRaises(w, j)
      PROVE  UNCHANGED janitor
  BY <1>9 DEF Claiming, ClaimRaises, ClaimAccepted, ClaimSkipped, ClaimDeferred, ClaimUnavailable
<1>10. ASSUME NEW j \in Jobs, Deleting(j) PROVE UNCHANGED janitor
  BY <1>10 DEF Deleting, RequestDelete, DeleteFile, FinalizeDelete, RequestDies
<1>11. CASE Maintaining \/ JanitorDies
  BY <1>1, <1>2, <1>3, <1>4, <1>5, <1>11 DEF Maintaining
<1> QED
  BY <1>6, <1>7, <1>8, <1>9, <1>10, <1>11
  DEF Next, Create, BrokerLoses, LeaseRunsOut, BackoffEnds, DispatchLeaseRunsOut, GrowsOld, vars

\* A request that removes a file has marked its job.
Removes(r) ==
  /\ r \in [Jobs -> {"none", "removing", "finalizing"}]
  /\ \A j \in Jobs : r[j] = "removing" => Left(j)'

LEMMA NextRemovals == ASSUME IInv, FInv, [Next]_vars PROVE Removes(removal')
<1>0. Removes(removal)
  BY LeftForGood DEF FInv, RemovalOK, LeavingOK, Removes
<1>1. ASSUME NEW j \in Jobs, Deleting(j) PROVE Removes(removal')
  <2>1. CASE RequestDelete(j)
    <3>1. Left(j)'
      BY <1>1, <2>1, DeletingRows DEF IInv, Left, Leaving
    <3>2. removal' \in {[removal EXCEPT ![j] = "removing"], [removal EXCEPT ![j] = "finalizing"]}
      BY <2>1 DEF RequestDelete
    <3> QED  BY <1>0, <3>1, <3>2 DEF Removes
  <2>2. CASE removal' \in {[removal EXCEPT ![j] = "none"], [removal EXCEPT ![j] = "finalizing"]}
    BY <1>0, <2>2 DEF Removes
  <2> QED
    BY <1>1, <2>1, <2>2 DEF Deleting, DeleteFile, FinalizeDelete, RequestDies
<1>2. CASE UNCHANGED removal
  BY <1>0, <1>2
<1>3. ASSUME NEW s \in Senders, Sending(s) \/ SenderDies(s) PROVE UNCHANGED removal
  BY <1>3 DEF Sending, SenderDies, LeaseDispatches, Publish, PublishRaises, MarkStarts, MarkCommits
<1>4. ASSUME NEW w \in Workers, Working(w) \/ Dies(w) \/ Redelivered(w) PROVE UNCHANGED removal
  BY <1>4 DEF Working, Dies, Redelivered, StartsFile, GenerationFails, HeartbeatFails,
              InstallsFile, Finishes, FinishRaises, FinishLosesLease, DiscardsFile,
              RecordsFailure, RecordRaises
<1>5. ASSUME NEW w \in Workers, NEW j \in Jobs, Claiming(w, j) \/ ClaimRaises(w, j)
      PROVE  UNCHANGED removal
  BY <1>5 DEF Claiming, ClaimRaises, ClaimAccepted, ClaimSkipped, ClaimDeferred, ClaimUnavailable
<1>6. CASE Maintaining \/ JanitorDies
  <2>1. UNCHANGED removal
    BY <1>6 DEF Maintaining, JanitorDies, Settle, RemoveFiles, FinalizeRemovals, ListOrphans,
                SweepOrphans
  <2> QED  BY <1>2, <2>1
<1> QED
  BY <1>1, <1>2, <1>3, <1>4, <1>5, <1>6
  DEF Next, Create, BrokerLoses, LeaseRunsOut, BackoffEnds, DispatchLeaseRunsOut, GrowsOld, vars

\* What every step keeps, if the volume's files stay well named.
LEMMA KeptLists ==
  ASSUME IInv, FInv, [Next]_vars,
         temp' \subseteq File, final' \subseteq File, aged' \subseteq File, aged \subseteq aged'
  PROVE  /\ VolumeOK' /\ RemovalOK' /\ LeavingOK'
         /\ \A f \in janitor'.orphans : f \in File /\ f[2] # job[f[1]].file
<1>1. VolumeOK'
  BY NextLists DEF VolumeOK, Lists, Sweeps
<1>2. RemovalOK' /\ LeavingOK'
  BY NextLists, NextRemovals DEF RemovalOK, LeavingOK, Lists, Removes
<1>3. ASSUME NEW f \in janitor'.orphans PROVE f \in File /\ f[2] # job[f[1]].file
  <2>1. f \in File
    BY <1>1 DEF VolumeOK, JanitorState
  <2>2. CASE f \in janitor.orphans \cup temp
    BY <2>1, <2>2 DEF FInv, Unoffered
  <2>3. CASE f \in final \ Referenced
    <3>1. f[1] \in Jobs /\ f[2] \in 1..MaxAttempts /\ f = <<f[1], f[2]>>
      BY <2>1 DEF File
    <3>2. f[2] # NoFile
      BY <3>1, AtLeastOneAttempt DEF NoFile
    <3>3. ASSUME f[2] = job[f[1]].file PROVE FALSE
      <4>1. f[1] \in {i \in Jobs : job[i].file # NoFile} /\ f = FileOf(f[1])
        BY <3>1, <3>2, <3>3 DEF FileOf
      <4> QED  BY <2>3, <4>1 DEF Referenced
    <3> QED  BY <2>1, <3>3
  <2> QED  BY <2>1, <2>2, <2>3, NextLists DEF Sweeps
<1> QED  BY <1>1, <1>2, <1>3

----------------------------------------------------------------------------
(* The steps.                                                              *)

\* A job on offer neither is leaving nor is an orphan's or a temporary file's job.
LEMMA OfferedFile ==
  ASSUME IInv, FInv, NEW j \in Jobs, job[j].status = "succeeded"
  PROVE  FileOf(j) \in File /\ FileOf(j) \notin temp \cup janitor.orphans /\ ~Left(j)
<1>1. job[j].file \in 1..MaxAttempts
  BY AtLeastOneAttempt DEF IInv, RowsOK, RowOK, Row, NoFile
<1>2. FileOf(j) \in File /\ FileOf(j)[1] = j /\ FileOf(j)[2] = job[j].file
  BY <1>1 DEF FileOf, File
<1> QED  BY <1>2 DEF FInv, Unoffered, Left, Leaving

\* A step that changes files changes no rows; it may drop any file that is neither
\* on offer nor installed by an attempt that is still live.
LEMMA FileStep ==
  ASSUME IInv, FInv, [Next]_vars, UNCHANGED job, QuietWorkers,
         \A f \in aged' \ aged : f \in temp \cup final /\ ~InUse(f), aged \subseteq aged',
         \A f \in temp' \ temp : \E w \in Workers : /\ Busy(w) /\ f = MyFile(w)
                                                   /\ job[worker[w].job].file # worker[w].attempt,
         \A f \in final' \ final : \E w \in Workers : Busy(w) /\ f = MyFile(w),
         \A j \in Jobs : job[j].status = "succeeded" /\ ~job[j].doubt /\ FileOf(j) \in final
                           => FileOf(j) \in final',
         \A w \in Workers : InstalledOK(w)'
  PROVE  FInv'
<1>1. QuietRows
  BY SameRows DEF IInv
<1>2. ASSUME NEW f \in temp' \ temp
      PROVE f \in File /\ f[2] # job[f[1]].file /\ \E w \in Workers : Busy(w) /\ f = MyFile(w)
  <2>1. PICK w \in Workers : /\ Busy(w) /\ f = MyFile(w)
                            /\ job[worker[w].job].file # worker[w].attempt
    BY <1>2
  <2> QED  BY <2>1, BusyFile
<1>3. ASSUME NEW f \in final' \ final PROVE f \in File
  BY <1>3, BusyFile
<1>4. temp \subseteq File /\ final \subseteq File /\ aged \subseteq File
  BY DEF FInv, VolumeOK
<1>5. temp' \subseteq File /\ final' \subseteq File /\ aged' \subseteq File
  BY <1>2, <1>3, <1>4
<1>6. /\ VolumeOK' /\ RemovalOK' /\ LeavingOK'
      /\ \A f \in janitor'.orphans : f \in File /\ f[2] # job[f[1]].file
  BY <1>5, KeptLists
<1>7. Started'
  BY <1>1, <1>2, <1>5, KeptStarted
<1>8. Unoffered'
  <2>1. \A f \in temp' : f[2] # job[f[1]].file
    BY <1>2 DEF FInv, Unoffered
  <2> QED  BY <1>1, <1>5, <1>6, <2>1, KeptUnoffered
<1>9. WorkerFiles'
  <2>1. \A w \in Workers : YoungOK(w)'
    BY <1>1, KeptYoung
  <2> QED  BY <1>1, <2>1, KeptAttempts DEF WorkerFiles
<1>10. ReadyHasFile'
  BY <1>1, KeptReady
<1> QED  BY <1>6, <1>7, <1>8, <1>9, <1>10 DEF FInv

\* The worker's own temporary file.
LEMMA TempSteps ==
  ASSUME IInv, FInv, [Next]_vars, NEW w \in Workers,
         StartsFile(w) \/ GenerationFails(w) \/ HeartbeatFails(w)
  PROVE  FInv'
<1>1. /\ UNCHANGED <<job, final, aged>> /\ Busy(w)
      /\ temp' \ temp \subseteq {MyFile(w)} /\ worker[w].pc \in {"claimed", "writing"}
      /\ worker'[w].pc # "installed" /\ \A v \in Workers : v # w => worker'[v] = worker[v]
  <2>1. CASE StartsFile(w)
    <3>1. UNCHANGED <<job, final, aged>> /\ temp' = temp \cup {MyFile(w)} /\ worker[w].pc = "claimed"
          /\ MovesTo(w, "writing")
      BY <2>1 DEF StartsFile, At
    <3>2. worker'[w].pc = "writing" /\ \A v \in Workers : v # w => worker'[v] = worker[v]
      BY <3>1 DEF IInv, WorkersOK, WorkerState, MovesTo
    <3> QED  BY <3>1, <3>2 DEF Busy
  <2>2. CASE GenerationFails(w)
    BY <2>2, FailingWorker DEF GenerationFails, At, Unlinked, Busy, IInv
  <2>3. CASE HeartbeatFails(w)
    BY <2>3, EndingWorker DEF HeartbeatFails, At, Unlinked, Busy, IInv
  <2> QED  BY <2>1, <2>2, <2>3
<1>2. QuietWorkers
  BY WorkingWorkers DEF Working, IInv
<1>3. job[worker[w].job].file # worker[w].attempt
  BY <1>1 DEF FInv, WorkerFiles, DoubtOK
<1>4. ASSUME NEW v \in Workers PROVE InstalledOK(v)'
  <2>1. CASE v = w
    BY <1>1, <2>1 DEF InstalledOK
  <2>2. CASE v # w /\ worker[v].pc = "installed"
    <3>1. MyFile(v) # MyFile(w) /\ MyFile(v)' = MyFile(v) /\ (Holds(v)' <=> Holds(v))
      BY <1>1, <2>2 DEF FInv, WorkerFiles, Distinct, Busy, MyFile, Holds
    <3>2. MyFile(v) \notin temp'
      BY <1>1, <2>2, <3>1 DEF FInv, WorkerFiles, InstalledOK
    <3> QED  BY <1>1, <2>2, <3>1, <3>2 DEF FInv, WorkerFiles, InstalledOK
  <2>3. CASE v # w /\ worker[v].pc # "installed"
    BY <1>1, <2>3 DEF InstalledOK
  <2> QED  BY <2>1, <2>2, <2>3
<1> QED  BY <1>1, <1>2, <1>3, <1>4, FileStep

LEMMA InstallStep ==
  ASSUME IInv, FInv, [Next]_vars, NEW w \in Workers, InstallsFile(w)
  PROVE  FInv'
<1>1. /\ UNCHANGED <<job, aged>> /\ Busy(w) /\ worker[w].pc = "writing" /\ MovesTo(w, "installed")
      /\ temp' = temp \ {MyFile(w)} /\ final' = final \cup {MyFile(w)}
  BY DEF InstallsFile, At, Busy
<1>2. /\ QuietWorkers /\ worker'[w].job = worker[w].job /\ worker'[w].attempt = worker[w].attempt
      /\ \A v \in Workers : v # w => worker'[v] = worker[v]
  BY <1>1, MovingWorker DEF IInv
<1>3. ASSUME NEW v \in Workers PROVE InstalledOK(v)'
  <2>1. CASE v = w
    BY <1>1, <1>2, <2>1 DEF InstalledOK, MyFile
  <2>2. CASE v # w
    <3>1. MyFile(v)' = MyFile(v) /\ (Holds(v)' <=> Holds(v)) /\ worker'[v].pc = worker[v].pc
      BY <1>1, <1>2, <2>2 DEF MyFile, Holds
    <3> QED  BY <1>1, <3>1 DEF FInv, WorkerFiles, InstalledOK
  <2> QED  BY <2>1, <2>2
<1> QED  BY <1>1, <1>2, <1>3, FileStep

\* A worker removes the file of its own attempt, which it does not hold or doubts.
LEMMA DiscardSteps ==
  ASSUME IInv, FInv, [Next]_vars, NEW w \in Workers, FinishLosesLease(w) \/ DiscardsFile(w)
  PROVE  FInv'
<1>1. /\ UNCHANGED <<job, temp, aged>> /\ Busy(w) /\ final' \subseteq final
      /\ final \ final' \subseteq {MyFile(w)} /\ worker'[w].pc # "installed"
      /\ \A v \in Workers : v # w => worker'[v] = worker[v]
  <2>1. CASE FinishLosesLease(w)
    BY <2>1, EndingWorker DEF FinishLosesLease, At, Unlinked, Busy, IInv
  <2>2. CASE DiscardsFile(w)
    <3>1. worker'[w].pc = "failing" /\ \A v \in Workers : v # w => worker'[v] = worker[v]
      BY <2>2 DEF DiscardsFile, MovesTo, IInv, WorkersOK, WorkerState
    <3> QED  BY <2>2, <3>1 DEF DiscardsFile, At, Unlinked, Busy
  <2> QED  BY <2>1, <2>2
<1>2. QuietWorkers
  BY WorkingWorkers DEF Working, IInv
<1>3. ASSUME NEW j \in Jobs, job[j].status = "succeeded", ~job[j].doubt PROVE FileOf(j) # MyFile(w)
  <2>1. SUFFICES ASSUME FileOf(j) = MyFile(w) PROVE FALSE
    OBVIOUS
  <2>2. worker[w].job = j /\ job[j].file = worker[w].attempt
    BY <2>1 DEF FileOf, MyFile
  <2> QED  BY <1>1, <1>3, <2>2 DEF FInv, WorkerFiles, DoubtOK
<1>4. ASSUME NEW v \in Workers PROVE InstalledOK(v)'
  <2>1. CASE v = w
    BY <1>1, <2>1 DEF InstalledOK
  <2>2. CASE v # w /\ worker[v].pc = "installed"
    <3>1. MyFile(v) # MyFile(w) /\ MyFile(v)' = MyFile(v) /\ (Holds(v)' <=> Holds(v))
      BY <1>1, <2>2 DEF FInv, WorkerFiles, Distinct, Busy, MyFile, Holds
    <3> QED  BY <1>1, <2>2, <3>1 DEF FInv, WorkerFiles, InstalledOK
  <2>3. CASE v # w /\ worker[v].pc # "installed"
    BY <1>1, <2>3 DEF InstalledOK
  <2> QED  BY <2>1, <2>2, <2>3
<1> QED  BY <1>1, <1>2, <1>3, <1>4, FileStep

\* Files that the clean-up, the sweep or a request removes.
LEMMA RemovalStep ==
  ASSUME IInv, FInv, [Next]_vars, UNCHANGED <<job, worker, aged>>,
         temp' \subseteq temp, final' \subseteq final,
         \A f \in final \ final' : \/ f \in janitor.orphans
                                 \/ \E j \in Jobs : Left(j) /\ f[1] = j
  PROVE  FInv'
<1>1. QuietWorkers
  BY SameWorkers DEF IInv
<1>2. ASSUME NEW j \in Jobs, job[j].status = "succeeded", FileOf(j) \in final
      PROVE  FileOf(j) \in final'
  BY <1>2, OfferedFile DEF FileOf
<1>3. ASSUME NEW w \in Workers, worker[w].pc = "installed", Holds(w), MyFile(w) \in final
      PROVE  MyFile(w) \in final'
  <2>1. Busy(w) /\ MyFile(w) \notin aged
    BY <1>3 DEF FInv, WorkerFiles, YoungOK, Busy
  <2>2. MyFile(w) \notin janitor.orphans
    BY <2>1 DEF FInv, VolumeOK
  <2>3. ~Left(worker[w].job) /\ MyFile(w)[1] = worker[w].job
    BY <1>3 DEF Holds, Left, Leaving, MyFile
  <2> QED  BY <1>3, <2>2, <2>3
<1>4. ASSUME NEW w \in Workers PROVE InstalledOK(w)'
  <2>1. MyFile(w)' = MyFile(w) /\ (Holds(w)' <=> Holds(w))
    BY DEF MyFile, Holds
  <2> QED  BY <1>3, <2>1 DEF FInv, WorkerFiles, InstalledOK
<1> QED  BY <1>1, <1>2, <1>4, FileStep

LEMMA CleanUpSteps ==
  ASSUME IInv, FInv, [Next]_vars,
         \/ \E stuck \in SUBSET Jobs : RemoveFiles(stuck)
         \/ \E stuck \in SUBSET janitor.orphans : SweepOrphans(stuck)
         \/ \E j \in Jobs : DeleteFile(j)
  PROVE  FInv'
<1>1. ASSUME NEW stuck \in SUBSET Jobs, RemoveFiles(stuck) PROVE FInv'
  <2>1. /\ UNCHANGED <<job, worker, aged, temp>>
        /\ final' = final \ {FileOf(j) : j \in (janitor.expired \cup janitor.deleting) \ stuck}
    BY <1>1 DEF RemoveFiles
  <2>2. \A j \in janitor.expired \cup janitor.deleting : j \in Jobs /\ Left(j) /\ FileOf(j)[1] = j
    BY DEF FInv, VolumeOK, JanitorState, LeavingOK, FileOf
  <2> QED  BY <2>1, <2>2, RemovalStep
<1>2. ASSUME NEW stuck \in SUBSET janitor.orphans, SweepOrphans(stuck) PROVE FInv'
  BY <1>2, RemovalStep DEF SweepOrphans
<1>3. ASSUME NEW j \in Jobs, DeleteFile(j) PROVE FInv'
  <2>1. Left(j)
    BY <1>3 DEF DeleteFile, FInv, LeavingOK
  <2> QED  BY <1>3, <2>1, RemovalStep DEF DeleteFile
<1> QED  BY <1>1, <1>2, <1>3

LEMMA AgeStep ==
  ASSUME IInv, FInv, [Next]_vars, NEW f \in File, GrowsOld(f)
  PROVE  FInv'
<1>1. UNCHANGED <<job, worker, temp, final>> /\ aged' = aged \cup {f}
      /\ f \in temp \cup final /\ ~InUse(f)
  BY DEF GrowsOld
<1>2. QuietWorkers
  BY <1>1, SameWorkers DEF IInv
<1>3. ASSUME NEW w \in Workers PROVE InstalledOK(w)'
  <2>1. MyFile(w)' = MyFile(w) /\ (Holds(w)' <=> Holds(w)) /\ worker'[w] = worker[w]
    BY <1>1 DEF MyFile, Holds
  <2> QED  BY <1>1, <2>1 DEF FInv, WorkerFiles, InstalledOK
<1> QED  BY <1>1, <1>2, <1>3, FileStep

\* A claim starts an attempt of which no file and no worker knows.
LEMMA ClaimStep ==
  ASSUME IInv, FInv, [Next]_vars, NEW w \in Workers, NEW j \in Jobs, ClaimAccepted(w, j)
  PROVE  FInv'
<1>1. UNCHANGED <<temp, final, aged, janitor, removal>> /\ worker[w].pc = "idle"
  BY DEF ClaimAccepted, Takes, volume
<1>2. /\ \A i \in Jobs : i # j => job'[i] = job[i]
      /\ job'[j].status = "running" /\ job'[j].owner = w /\ job'[j].attempt = job[j].attempt + 1
      /\ job[j].file = NoFile /\ job'[j].file = NoFile
      /\ worker'[w].pc = "claimed" /\ worker'[w].job = j
      /\ worker'[w].attempt = job[j].attempt + 1
      /\ \A v \in Workers : v # w => worker'[v] = worker[v]
  BY ClaimAcceptedRows, ClaimAcceptedWorker DEF IInv
<1>3. /\ job[j].status \in {"pending", "running"} /\ job[j].attempt \in Nat
      /\ \A i \in Jobs : job[i].attempt \in Nat /\ job'[i].file = job[i].file
  <2>1. job[j].status \in {"pending", "running"}
    BY ClaimedRow DEF ClaimAccepted, IInv, Active
  <2>2. \A i \in Jobs : job[i].attempt \in Nat
    BY AtLeastOneAttempt DEF IInv, RowsOK, RowOK, Row
  <2> QED  BY <1>2, <2>1, <2>2
<1>4. temp \subseteq File /\ final \subseteq File /\ aged \subseteq File
  BY DEF FInv, VolumeOK
<1>5. VolumeOK' /\ RemovalOK' /\ LeavingOK'
  BY <1>1, <1>4, KeptLists
<1>6. Started'
  <2> SUFFICES ASSUME NEW f \in temp \cup final \cup aged
               PROVE  job'[f[1]].status = "gone" \/ f[2] <= job'[f[1]].attempt
    BY <1>1 DEF Started
  <2>1. f[1] \in Jobs /\ f[2] \in Nat /\ (job[f[1]].status = "gone" \/ f[2] <= job[f[1]].attempt)
    BY <1>4, AtLeastOneAttempt DEF File, FInv, Started
  <2>2. CASE f[1] = j
    BY <1>2, <1>3, <2>1, <2>2
  <2>3. CASE f[1] # j
    BY <1>2, <2>1, <2>3
  <2> QED  BY <2>2, <2>3
<1>7. Unoffered'
  <2>1. \A f \in temp \cup janitor.orphans : f[1] \in Jobs
    BY <1>4 DEF FInv, VolumeOK, File
  <2> QED  BY <1>1, <1>3, <2>1 DEF FInv, Unoffered
<1>8. ASSUME NEW v \in Workers, v # w, Busy(v)
      PROVE  /\ AttemptOK(v)' /\ DoubtOK(v)' /\ YoungOK(v)' /\ InstalledOK(v)'
             /\ MyFile(v)' = MyFile(v) /\ MyFile(v) # <<j, job[j].attempt + 1>>
  <2>1. /\ worker'[v] = worker[v] /\ worker[v].job \in Jobs /\ worker[v].attempt \in Nat
        /\ MyFile(v)' = MyFile(v)
        /\ AttemptOK(v) /\ DoubtOK(v) /\ YoungOK(v) /\ InstalledOK(v)
    <3>1. worker'[v] = worker[v]
      BY <1>2, <1>8
    <3>2. worker[v].job \in Jobs /\ worker[v].attempt \in Nat
      BY <1>8, BusyFile
    <3>3. AttemptOK(v) /\ DoubtOK(v) /\ YoungOK(v) /\ InstalledOK(v)
      BY DEF FInv, WorkerFiles
    <3> QED  BY <3>1, <3>2, <3>3 DEF MyFile
  <2>2. CASE worker[v].job = j
    <3>1. worker[v].attempt <= job[j].attempt /\ worker[v].attempt > 0
      BY <1>3, <1>8, <2>1, <2>2 DEF AttemptOK
    <3>2. AttemptOK(v)'
      BY <1>2, <1>3, <2>1, <2>2, <3>1 DEF AttemptOK
    <3>3. DoubtOK(v)'
      BY <1>2, <2>1, <2>2, <3>1 DEF DoubtOK, NoFile
    <3>4. ~Holds(v)'
      BY <1>2, <1>8, <2>1, <2>2 DEF Holds
    <3>5. YoungOK(v)' /\ InstalledOK(v)'
      BY <1>1, <2>1, <3>4 DEF YoungOK, InstalledOK
    <3>6. MyFile(v) # <<j, job[j].attempt + 1>>
      BY <1>3, <2>1, <3>1 DEF MyFile
    <3> QED  BY <2>1, <3>2, <3>3, <3>5, <3>6
  <2>3. CASE worker[v].job # j
    <3>1. job'[worker[v].job] = job[worker[v].job]
      BY <1>2, <2>1, <2>3
    <3>2. Holds(v)' <=> Holds(v)
      BY <2>1, <3>1 DEF Holds
    <3>3. AttemptOK(v)' /\ DoubtOK(v)'
      BY <2>1, <3>1 DEF AttemptOK, DoubtOK, Busy
    <3>4. YoungOK(v)' /\ InstalledOK(v)'
      BY <1>1, <1>8, <2>1, <3>2 DEF YoungOK, InstalledOK
    <3>5. MyFile(v) # <<j, job[j].attempt + 1>>
      BY <2>3 DEF MyFile
    <3> QED  BY <2>1, <3>3, <3>4, <3>5
  <2> QED  BY <2>2, <2>3
<1>9. /\ AttemptOK(w)' /\ DoubtOK(w)' /\ YoungOK(w)' /\ InstalledOK(w)'
      /\ MyFile(w)' = <<j, job[j].attempt + 1>>
  <2>1. MyFile(w)' = <<j, job[j].attempt + 1>>
    BY <1>2 DEF MyFile
  <2>2. AttemptOK(w)'
    BY <1>2, <1>3 DEF AttemptOK
  <2>3. DoubtOK(w)' /\ InstalledOK(w)'
    BY <1>2, <1>3 DEF DoubtOK, InstalledOK, NoFile
  <2>4. <<j, job[j].attempt + 1>> \notin aged
    <3> SUFFICES ASSUME <<j, job[j].attempt + 1>> \in aged PROVE FALSE
      OBVIOUS
    <3>1. job[j].status = "gone" \/ job[j].attempt + 1 <= job[j].attempt
      BY DEF FInv, Started
    <3> QED  BY <1>3, <3>1
  <2> QED  BY <1>1, <2>1, <2>2, <2>3, <2>4 DEF YoungOK
<1>10. ASSUME NEW v \in Workers, v # w
       PROVE  AttemptOK(v)' /\ DoubtOK(v)' /\ YoungOK(v)' /\ InstalledOK(v)'
  <2>1. CASE Busy(v)
    BY <1>8, <1>10, <2>1
  <2>2. CASE ~Busy(v)
    BY <1>2, <1>10, <2>2 DEF Busy, AttemptOK, DoubtOK, YoungOK, InstalledOK
  <2> QED  BY <2>1, <2>2
<1>11. Distinct'
  <2> SUFFICES ASSUME NEW u \in Workers, NEW v \in Workers, u # v, Busy(u)', Busy(v)'
               PROVE  MyFile(u)' # MyFile(v)'
    BY DEF Distinct
  <2>1. \A x \in {u, v} : x # w => Busy(x)
    BY <1>2 DEF Busy
  <2>2. CASE u # w /\ v # w
    BY <1>8, <2>1, <2>2 DEF FInv, WorkerFiles, Distinct
  <2>3. CASE u = w
    BY <1>8, <1>9, <2>1, <2>3
  <2>4. CASE v = w
    BY <1>8, <1>9, <2>1, <2>4
  <2> QED  BY <2>2, <2>3, <2>4
<1>12. ReadyHasFile'
  <2> SUFFICES ASSUME NEW i \in Jobs, job'[i].status = "succeeded", ~job'[i].doubt
               PROVE  FileOf(i)' \in final'
    BY DEF ReadyHasFile
  <2>1. i # j
    BY <1>2
  <2> QED  BY <1>1, <1>2, <2>1 DEF FInv, ReadyHasFile, FileOf
<1> QED  BY <1>5, <1>6, <1>7, <1>9, <1>10, <1>11, <1>12 DEF FInv, WorkerFiles

\* The file that a finished job offers is installed, young, and nobody else's.
LEMMA FinishStep ==
  ASSUME IInv, FInv, [Next]_vars, NEW w \in Workers, Finishes(w) \/ FinishRaises(w),
         ~UNCHANGED job
  PROVE  FInv'
<1> DEFINE j == worker[w].job
           a == worker[w].attempt
<1>1. UNCHANGED <<temp, final, aged, janitor, removal>> /\ worker[w].pc = "installed" /\ Busy(w)
  BY DEF Finishes, FinishRaises, At, Busy, volume
<1>2. /\ j \in Jobs /\ Holds(w) /\ job[j].status = "running" /\ job[j].attempt = a
      /\ \A i \in Jobs : i # j => job'[i] = job[i]
      /\ job'[j].status = "succeeded" /\ job'[j].attempt = a /\ job'[j].file = a
      /\ FinishRaises(w) => job'[j].doubt
  BY FinishedRows DEF IInv
<1>3. a \in 1..MaxAttempts /\ MyFile(w) = <<j, a>>
  BY <1>1, BusyFile DEF MyFile
<1>4. MyFile(w) \in final /\ MyFile(w) \notin temp /\ MyFile(w) \notin aged
  BY <1>1, <1>2 DEF FInv, WorkerFiles, InstalledOK, YoungOK
<1>5. QuietWorkers /\ (Busy(w)' => worker'[w].pc = "discarding" /\ FinishRaises(w))
  <2>1. QuietWorkers
    BY WorkingWorkers DEF Working, IInv
  <2>2. CASE Finishes(w)
    BY <2>1, <2>2, EndingWorker DEF Finishes, IInv, Busy
  <2>3. CASE FinishRaises(w)
    <3>1. worker'[w].pc = "discarding"
      BY <2>3 DEF FinishRaises, MovesTo, IInv, WorkersOK, WorkerState
    <3> QED  BY <2>1, <2>3, <3>1
  <2> QED  BY <2>2, <2>3
<1>6. temp \subseteq File /\ final \subseteq File /\ aged \subseteq File
  BY DEF FInv, VolumeOK
<1>7. VolumeOK' /\ RemovalOK' /\ LeavingOK'
  BY <1>1, <1>6, KeptLists
<1> HIDE DEF j, a
<1>8. Started'
  <2> SUFFICES ASSUME NEW f \in temp \cup final \cup aged
               PROVE  job'[f[1]].status = "gone" \/ f[2] <= job'[f[1]].attempt
    BY <1>1 DEF Started
  <2>1. f[1] \in Jobs /\ (job[f[1]].status = "gone" \/ f[2] <= job[f[1]].attempt)
    BY <1>6 DEF File, FInv, Started
  <2> QED  BY <1>2, <2>1
<1>9. Unoffered'
  <2> SUFFICES ASSUME NEW f \in temp \cup janitor.orphans PROVE f[2] # job'[f[1]].file
    BY <1>1 DEF Unoffered
  <2>1. f \in File /\ f # <<j, a>> /\ f[2] # job[f[1]].file
    BY <1>3, <1>4, <1>6 DEF FInv, VolumeOK, Unoffered
  <2>2. f[1] \in Jobs /\ f = <<f[1], f[2]>>
    BY <2>1 DEF File
  <2> QED  BY <1>2, <2>1, <2>2
<1>10. ASSUME NEW v \in Workers, Busy(v)'
       PROVE  /\ Busy(v) /\ worker'[v].job = worker[v].job /\ worker'[v].attempt = worker[v].attempt
              /\ MyFile(v)' = MyFile(v) /\ worker[v].job \in Jobs
              /\ AttemptOK(v) /\ DoubtOK(v) /\ YoungOK(v) /\ InstalledOK(v)
              /\ worker[v].pc \in {"discarding", "failing"}
                   => worker'[v].pc \in {"discarding", "failing"}
  <2>1. /\ Busy(v) /\ worker'[v].job = worker[v].job /\ worker'[v].attempt = worker[v].attempt
        /\ worker[v].pc \in {"discarding", "failing"} => worker'[v].pc \in {"discarding", "failing"}
    BY <1>5, <1>10 DEF QuietWorkers, WorkerQuiet, Busy
  <2> QED  BY <2>1, BusyFile DEF MyFile, FInv, WorkerFiles
<1>11. ASSUME NEW v \in Workers, Busy(v)' PROVE Holds(v)' => Holds(v) /\ worker[v].job # j
  <2>1. worker[v].job # j => (Holds(v)' => Holds(v))
    BY <1>2, <1>10, <1>11 DEF Holds
  <2>2. worker[v].job = j => ~Holds(v)'
    BY <1>2, <1>10, <1>11 DEF Holds
  <2> QED  BY <2>1, <2>2
<1>12. ASSUME NEW v \in Workers, Busy(v)' PROVE AttemptOK(v)' /\ DoubtOK(v)' /\ YoungOK(v)'
  <2>1. AttemptOK(v)'
    BY <1>2, <1>10, <1>12 DEF AttemptOK
  <2>2. DoubtOK(v)'
    <3>1. CASE v = w
      BY <1>2, <1>5, <1>10, <1>12, <3>1 DEF DoubtOK, j
    <3>2. CASE v # w /\ worker[v].job = j
      <4>1. worker[v].attempt # a
        BY <1>1, <1>10, <1>12, <3>2 DEF FInv, WorkerFiles, Distinct, MyFile, j, a
      <4> QED  BY <1>2, <1>10, <1>12, <3>2, <4>1 DEF DoubtOK
    <3>3. CASE worker[v].job # j
      BY <1>2, <1>10, <1>12, <3>3 DEF DoubtOK
    <3> QED  BY <3>1, <3>2, <3>3 DEF j
  <2>3. YoungOK(v)'
    BY <1>1, <1>10, <1>11, <1>12 DEF YoungOK
  <2> QED  BY <2>1, <2>2, <2>3
<1>13. ASSUME NEW v \in Workers, worker'[v].pc = "installed" PROVE InstalledOK(v)'
  <2>1. Busy(v)' /\ ~InstallsFile(v)
    <3>1. InstallsFile(v) => UNCHANGED job
      BY DEF InstallsFile
    <3> QED  BY <1>13, <3>1 DEF Busy
  <2>2. worker[v].pc = "installed"
    BY <1>5, <1>13, <2>1 DEF QuietWorkers, WorkerQuiet
  <2> QED  BY <1>1, <1>10, <1>11, <2>1, <2>2 DEF InstalledOK
<1>14. WorkerFiles'
  <2>1. Distinct'
    BY <1>10 DEF Distinct, FInv, WorkerFiles
  <2> QED  BY <1>12, <1>13, <2>1 DEF WorkerFiles, AttemptOK, DoubtOK, YoungOK, InstalledOK
<1>15. ReadyHasFile'
  <2> SUFFICES ASSUME NEW i \in Jobs, job'[i].status = "succeeded", ~job'[i].doubt
               PROVE  FileOf(i)' \in final'
    BY DEF ReadyHasFile
  <2>1. CASE i = j
    BY <1>1, <1>2, <1>3, <1>4, <2>1 DEF FileOf
  <2>2. CASE i # j
    BY <1>1, <1>2, <2>2 DEF FInv, ReadyHasFile, FileOf
  <2> QED  BY <2>1, <2>2
<1> QED  BY <1>7, <1>8, <1>9, <1>14, <1>15 DEF FInv

\* Steps that leave the files alone.
LEMMA QuietFiles ==
  ASSUME IInv, FInv, [Next]_vars, QuietRows, QuietWorkers, UNCHANGED <<temp, final, aged>>,
         \A w \in Workers : ~InstallsFile(w)
  PROVE  FInv'
<1>1. temp \subseteq File /\ final \subseteq File /\ aged \subseteq File
  BY DEF FInv, VolumeOK
<1>2. /\ VolumeOK' /\ RemovalOK' /\ LeavingOK'
      /\ \A f \in janitor'.orphans : f \in File /\ f[2] # job[f[1]].file
  BY <1>1, KeptLists
<1>3. Started'
  BY <1>1, KeptStarted
<1>4. Unoffered'
  BY <1>1, <1>2, KeptUnoffered DEF FInv, Unoffered
<1>5. \A w \in Workers : YoungOK(w)' /\ InstalledOK(w)'
  <2>1. \A w \in Workers : YoungOK(w)'
    BY KeptYoung
  <2>2. \A w \in Workers : InstalledOK(w)'
    BY KeptInstalled DEF FInv, WorkerFiles, InstalledOK
  <2> QED  BY <2>1, <2>2
<1>6. WorkerFiles'
  BY <1>5, KeptAttempts DEF WorkerFiles
<1>7. ReadyHasFile'
  BY KeptReady
<1> QED  BY <1>2, <1>3, <1>4, <1>6, <1>7 DEF FInv

\* The steps that change files.
ChangesFiles ==
  \/ \E w \in Workers : \/ StartsFile(w) \/ GenerationFails(w) \/ HeartbeatFails(w)
                       \/ InstallsFile(w) \/ FinishLosesLease(w) \/ DiscardsFile(w)
  \/ \E stuck \in SUBSET Jobs : RemoveFiles(stuck)
  \/ \E stuck \in SUBSET janitor.orphans : SweepOrphans(stuck)
  \/ \E j \in Jobs : DeleteFile(j)
  \/ \E f \in File : GrowsOld(f)

LEMMA ChangesFilesSteps == ASSUME IInv, FInv, [Next]_vars, ChangesFiles PROVE FInv'
<1>1. ASSUME NEW w \in Workers, \/ StartsFile(w) \/ GenerationFails(w) \/ HeartbeatFails(w)
                                \/ InstallsFile(w) \/ FinishLosesLease(w) \/ DiscardsFile(w)
      PROVE FInv'
  BY <1>1, TempSteps, InstallStep, DiscardSteps
<1> QED  BY <1>1, CleanUpSteps, AgeStep DEF ChangesFiles

LEMMA OtherSteps == ASSUME [Next]_vars PROVE ChangesFiles \/ UNCHANGED <<temp, final, aged>>
<1>1. ASSUME NEW s \in Senders, Sending(s) \/ SenderDies(s) PROVE UNCHANGED volume
  BY <1>1 DEF Sending, SenderDies, LeaseDispatches, Publish, PublishRaises, MarkStarts, MarkCommits
<1>2. ASSUME NEW w \in Workers, Working(w) \/ Dies(w) \/ Redelivered(w)
      PROVE  ChangesFiles \/ UNCHANGED volume
  BY <1>2 DEF ChangesFiles, Working, Dies, Redelivered, Finishes, FinishRaises, RecordsFailure,
              RecordRaises
<1>3. ASSUME NEW w \in Workers, NEW j \in Jobs, Claiming(w, j) \/ ClaimRaises(w, j)
      PROVE  UNCHANGED volume
  BY <1>3 DEF Claiming, ClaimRaises, ClaimAccepted, ClaimSkipped, ClaimDeferred, ClaimUnavailable
<1>4. CASE Maintaining \/ JanitorDies
  BY <1>4 DEF ChangesFiles, Maintaining, JanitorDies, Settle, FinalizeRemovals, ListOrphans, volume
<1>5. ASSUME NEW j \in Jobs, Deleting(j) PROVE ChangesFiles \/ UNCHANGED volume
  BY <1>5 DEF ChangesFiles, Deleting, RequestDelete, FinalizeDelete, RequestDies
<1>6. ASSUME NEW f \in File, GrowsOld(f) PROVE ChangesFiles
  BY <1>6 DEF ChangesFiles
<1> QED
  BY <1>1, <1>2, <1>3, <1>4, <1>5, <1>6
  DEF Next, Create, BrokerLoses, LeaseRunsOut, BackoffEnds, DispatchLeaseRunsOut, vars, volume

LEMMA NextFInv == IInv /\ FInv /\ [Next]_vars => FInv'
<1> SUFFICES ASSUME IInv, FInv, [Next]_vars PROVE FInv'
  OBVIOUS
<1>1. CASE ChangesFiles
  BY <1>1, ChangesFilesSteps
<1>2. CASE \E w \in Workers, j \in Jobs : ClaimAccepted(w, j)
  BY <1>2, ClaimStep
<1>3. CASE \E w \in Workers : (Finishes(w) \/ FinishRaises(w)) /\ ~UNCHANGED job
  BY <1>3, FinishStep
<1>4. CASE QuietRows /\ QuietWorkers /\ ~ChangesFiles
  <2>1. UNCHANGED <<temp, final, aged>> /\ \A w \in Workers : ~InstallsFile(w)
    BY <1>4, OtherSteps DEF ChangesFiles
  <2> QED  BY <1>4, <2>1, QuietFiles
<1> QED  BY <1>1, <1>2, <1>3, <1>4, AllRows, AllWorkers

\* A job that is offered for download has its file on the volume, whatever late
\* workers, the clean-up, the orphan sweep and deletions do, unless the reply to the
\* commit that finished it was lost.
THEOREM ReadyJobsHaveFiles == Spec => []ReadyHasFile
<1>1. Init => IInv /\ FInv
  BY InitIInv, InitFInv
<1>2. IInv /\ FInv /\ [Next]_vars => (IInv /\ FInv)'
  BY NextIInv, NextFInv
<1>3. FInv => ReadyHasFile
  BY DEF FInv
<1> QED  BY <1>1, <1>2, <1>3, PTL DEF Spec
=============================================================================
