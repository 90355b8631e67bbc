------------------------ MODULE CollectionRunsProofs ------------------------
(***************************************************************************)
(* Proofs about CollectionRuns, for every set of runs, collectors and      *)
(* tokens and every attempt and batch limit.                               *)
(*                                                                         *)
(* The inductive invariant is a property of each row (RowOK), of each      *)
(* process (ProcOK), and that every message names a row that exists.       *)
(* Rows change only through a handful of row operations, so what a step    *)
(* does to the rows is proved once for each operation (RowOK is kept, and  *)
(* the row's abstract life stands still or advances), and then looked up   *)
(* for each action.                                                        *)
(***************************************************************************)
EXTENDS CollectionRuns, TLAPS

RowOK(x) ==
  /\ x \in Row
  /\ x.status \in {"pending", "leased"} => x.attempt < MaxAttempts
  /\ x.status = "leased" => x.owner \in Tokens
  /\ x.status = "running" => x.owner \in Workers /\ x.attempt > 0
  /\ x.status \notin {"leased", "running"} => x.owner = NoOwner /\ ~x.live
  /\ x.saved \subseteq {x.attempt}
  /\ x.saved # {} => Settled(x)
  /\ x.status = "succeeded" => x.saved = {x.attempt}
  /\ x.status = "absent" => x.attempt = 0

\* What may happen to a row in a step.
Evolves(x, y) == LifeOf(y) = LifeOf(x) \/ Lifecycle!Advance(LifeOf(x), LifeOf(y))

\* A run in its backoff stays there, or is failed.
Waits(x, y) == x.status = "pending" /\ ~x.due => y.status \in {"pending", "failed"}

RowStep(x, y) ==
  /\ RowOK(y)
  /\ Evolves(x, y)
  /\ Waits(x, y)
  /\ x.status # "absent" => y.status # "absent"

\* A live running lease is neither made nor taken away.
Untouched(x, y) ==
  /\ y.status = "running" /\ y.live
       => x.status = "running" /\ x.live /\ x.owner = y.owner /\ x.attempt = y.attempt
  /\ x.status = "running" /\ x.live => y.status = "running" /\ y.owner = x.owner

QuietStep(x, y) == RowStep(x, y) /\ Untouched(x, y)

----------------------------------------------------------------------------
(* The row operations.                                                     *)

LEMMA NewRowStep ==
  ASSUME NEW x, RowOK(x), x.status = "absent"
  PROVE  QuietStep(x, NewRow)
<1>1. RowOK(NewRow)
  BY ConstantsAssumption DEF RowOK, NewRow, Row, Settled
<1>2. LifeOf(x).stage = "absent" /\ LifeOf(NewRow) = [stage |-> "waiting", attempt |-> LifeOf(x).attempt, saved |-> LifeOf(x).saved]
  BY DEF RowOK, Row, LifeOf, Stage, NewRow, Settled
<1>3. Evolves(x, NewRow)
  BY <1>2 DEF Evolves, Lifecycle!Advance, Lifecycle!Created
<1> QED  BY <1>1, <1>3 DEF QuietStep, RowStep, Untouched, Waits, NewRow

\* A row is leased as the step has left it so far, which is x itself if it waited.
LEMMA LeaseRowStep ==
  ASSUME NEW x, NEW p, QuietStep(x, p), x.status = "pending" => p = x,
         Dispatchable(p), NEW t \in Tokens
  PROVE  QuietStep(x, LeaseRow(p, t)) /\ LeaseRow(p, t).status = "leased"
<1> DEFINE y == LeaseRow(p, t)
<1>0. RowOK(p) /\ p.status = "pending"
  BY DEF QuietStep, RowStep, Dispatchable
<1>1. RowOK(y)
  BY <1>0, ConstantsAssumption DEF RowOK, LeaseRow, Dispatchable, Row, Settled
<1>2. LifeOf(y) = LifeOf(p) /\ y.status = "leased"
  BY <1>0 DEF RowOK, Row, LifeOf, Stage, LeaseRow
<1> HIDE DEF y
<1>3. Evolves(x, y)
  BY <1>2 DEF QuietStep, RowStep, Evolves
<1>4. Waits(x, y) /\ Untouched(x, y)
  BY <1>0, <1>2 DEF Waits, Dispatchable, QuietStep, Untouched
<1> QED  BY <1>1, <1>2, <1>3, <1>4 DEF QuietStep, RowStep, y

LEMMA FailRowStep ==
  ASSUME NEW x, RowOK(x), x.status # "absent"
  PROVE  RowStep(x, FailRow(x))
<1>1. RowOK(FailRow(x))
  BY ConstantsAssumption DEF RowOK, FailRow, ClearLease, Row, Settled
<1>2. LifeOf(x).stage # "absent" /\ LifeOf(FailRow(x)) = [stage |-> "failed", attempt |-> LifeOf(x).attempt, saved |-> LifeOf(x).saved]
  BY DEF RowOK, Row, LifeOf, Stage, FailRow, ClearLease
<1>3. FailRow(x).status = "failed"
  BY DEF RowOK, Row, FailRow, ClearLease
<1>4. Evolves(x, FailRow(x))
  BY <1>2 DEF Evolves, Lifecycle!Advance, Lifecycle!Failed
<1> QED  BY <1>1, <1>3, <1>4 DEF RowStep, Waits

LEMMA RecoverRowStep ==
  ASSUME NEW x, RowOK(x), Expired(x)
  PROVE  QuietStep(x, RecoverRow(x))
<1>1. CASE x.attempt >= MaxAttempts
  <2>1. RecoverRow(x) = FailRow(x) /\ x.status # "absent"
    BY <1>1 DEF RecoverRow, Expired
  <2>2. FailRow(x).status = "failed"
    BY DEF RowOK, Row, FailRow, ClearLease
  <2> QED  BY <2>1, <2>2, FailRowStep DEF QuietStep, Untouched, Expired
<1>2. CASE ~(x.attempt >= MaxAttempts)
  <2>1. RecoverRow(x) = [ClearLease(x) EXCEPT !.status = "pending", !.due = TRUE]
    BY <1>2 DEF RecoverRow
  <2>2. RowOK(RecoverRow(x)) /\ RecoverRow(x).status = "pending"
    <3>1. x.attempt < MaxAttempts
      BY <1>2, ConstantsAssumption DEF RowOK, Row
    <3>2. x.saved = {}
      BY DEF RowOK, Expired, Settled
    <3> QED  BY <2>1, <3>1, <3>2 DEF RowOK, ClearLease, Row, Settled
  <2>3. Evolves(x, RecoverRow(x))
    <3>1. CASE x.status = "running"
      <4>1. /\ LifeOf(x).stage = "collecting" /\ LifeOf(x).attempt < MaxAttempts
            /\ LifeOf(RecoverRow(x)) = [stage |-> "waiting", attempt |-> LifeOf(x).attempt, saved |-> LifeOf(x).saved]
        BY <1>2, <2>1, <3>1, ConstantsAssumption DEF RowOK, Row, LifeOf, Stage, ClearLease
      <4> QED  BY <4>1 DEF Evolves, Lifecycle!Advance, Lifecycle!Requeued
    <3>2. CASE x.status = "leased"
      <4>1. LifeOf(RecoverRow(x)) = LifeOf(x)
        BY <2>1, <3>2 DEF RowOK, Row, LifeOf, Stage, ClearLease
      <4> QED  BY <4>1 DEF Evolves
    <3> QED  BY <3>1, <3>2 DEF Expired
  <2> QED  BY <2>2, <2>3 DEF QuietStep, RowStep, Untouched, Waits, Expired
<1> QED  BY <1>1, <1>2

LEMMA ReleaseRowStep ==
  ASSUME NEW x, RowOK(x), x.status = "leased"
  PROVE  QuietStep(x, ReleaseRow(x))
<1>1. RowOK(ReleaseRow(x)) /\ ReleaseRow(x).status = "pending"
  BY ConstantsAssumption DEF RowOK, ReleaseRow, ClearLease, Row, Settled
<1>2. LifeOf(ReleaseRow(x)) = LifeOf(x)
  BY DEF RowOK, Row, LifeOf, Stage, ReleaseRow, ClearLease
<1> QED  BY <1>1, <1>2 DEF QuietStep, RowStep, Evolves, Untouched, Waits

LEMMA ClaimRowStep ==
  ASSUME NEW x, RowOK(x), NEW token, Claimable(x, token), NEW w \in Workers
  PROVE  RowStep(x, ClaimRow(x, w))
<1> DEFINE y == ClaimRow(x, w)
<1>1. /\ y.status = "running" /\ y.attempt = x.attempt + 1 /\ y.owner = w
      /\ y.live = TRUE /\ y.due = x.due /\ y.saved = x.saved
  BY DEF RowOK, Row, ClaimRow
<1>2. x.saved = {} /\ x.attempt + 1 \in 0..MaxAttempts /\ x.attempt + 1 > 0
  BY ConstantsAssumption DEF RowOK, Row, Claimable, Active, Settled
<1>3. RowOK(y)
  <2>1. y \in Row
    BY <1>2 DEF RowOK, Row, ClaimRow
  <2> QED  BY <1>1, <1>2, <2>1 DEF RowOK, Settled
<1>4. Lifecycle!Started(LifeOf(x), LifeOf(y))
  BY <1>1 DEF LifeOf, Stage, Claimable, Active, Lifecycle!Started
<1> QED  BY <1>1, <1>3, <1>4 DEF RowStep, Evolves, Lifecycle!Advance, Waits, Claimable

LEMMA SucceedRowStep ==
  ASSUME NEW x, RowOK(x), x.status = "running"
  PROVE  RowStep(x, SucceedRow(x))
<1> DEFINE y == SucceedRow(x)
<1>1. /\ y.status = "succeeded" /\ y.attempt = x.attempt /\ y.owner = NoOwner
      /\ y.live = FALSE /\ y.due = x.due /\ y.saved = x.saved \cup {x.attempt}
  BY DEF RowOK, Row, SucceedRow, ClearLease
<1>2. x.saved = {} /\ x.attempt \in 1..MaxAttempts
  BY ConstantsAssumption DEF RowOK, Row, Settled
<1>3. RowOK(y)
  <2>1. y \in Row
    BY <1>2 DEF RowOK, Row, SucceedRow, ClearLease
  <2> QED  BY <1>1, <1>2, <2>1 DEF RowOK, Settled
<1>4. Lifecycle!Succeeded(LifeOf(x), LifeOf(y))
  BY <1>1 DEF LifeOf, Stage, Lifecycle!Succeeded
<1> QED  BY <1>1, <1>3, <1>4 DEF RowStep, Evolves, Lifecycle!Advance, Waits

LEMMA RetryRowStep ==
  ASSUME NEW x, RowOK(x), x.status = "running"
  PROVE  RowStep(x, RetryRow(x))
<1>1. CASE x.attempt >= MaxAttempts
  BY <1>1, FailRowStep DEF RetryRow
<1>2. CASE ~(x.attempt >= MaxAttempts)
  <2>1. RetryRow(x) = [ClearLease(x) EXCEPT !.status = "pending", !.due = FALSE]
    BY <1>2 DEF RetryRow
  <2>2. RowOK(RetryRow(x)) /\ RetryRow(x).status = "pending"
    <3>1. x.attempt < MaxAttempts
      BY <1>2, ConstantsAssumption DEF RowOK, Row
    <3>2. x.saved = {}
      BY DEF RowOK, Settled
    <3> QED  BY <2>1, <3>1, <3>2 DEF RowOK, ClearLease, Row, Settled
  <2>3. /\ LifeOf(x).stage = "collecting" /\ LifeOf(x).attempt < MaxAttempts
        /\ LifeOf(RetryRow(x)) = [stage |-> "waiting", attempt |-> LifeOf(x).attempt, saved |-> LifeOf(x).saved]
    BY <1>2, <2>1, ConstantsAssumption DEF RowOK, Row, LifeOf, Stage, ClearLease
  <2> QED  BY <2>2, <2>3 DEF RowStep, Evolves, Lifecycle!Advance, Lifecycle!Requeued, Waits
<1> QED  BY <1>1, <1>2

LEMMA TimeRowStep ==
  ASSUME NEW x, RowOK(x)
  PROVE  /\ QuietStep(x, x)
         /\ QuietStep(x, [x EXCEPT !.live = FALSE])
         /\ x.status = "pending" => QuietStep(x, [x EXCEPT !.due = TRUE])
<1>1. QuietStep(x, x)
  BY DEF QuietStep, RowStep, Evolves, Untouched, Waits
<1>2. QuietStep(x, [x EXCEPT !.live = FALSE])
  <2> DEFINE y == [x EXCEPT !.live = FALSE]
  <2>1. RowOK(y)
    BY DEF RowOK, Row, Settled
  <2>2. LifeOf(y) = LifeOf(x)
    BY DEF RowOK, Row, LifeOf, Stage
  <2>3. y.status = x.status /\ y.owner = x.owner /\ y.live = FALSE
    BY DEF RowOK, Row
  <2> QED  BY <2>1, <2>2, <2>3 DEF QuietStep, RowStep, Evolves, Untouched, Waits
<1>3. ASSUME x.status = "pending" PROVE QuietStep(x, [x EXCEPT !.due = TRUE])
  <2> DEFINE y == [x EXCEPT !.due = TRUE]
  <2>1. RowOK(y)
    BY DEF RowOK, Row, Settled
  <2>2. LifeOf(y) = LifeOf(x)
    BY DEF RowOK, Row, LifeOf, Stage
  <2>3. y.status = "pending"
    BY <1>3 DEF RowOK, Row
  <2> QED  BY <1>3, <2>1, <2>2, <2>3 DEF QuietStep, RowStep, Evolves, Untouched, Waits
<1> QED  BY <1>1, <1>2, <1>3

----------------------------------------------------------------------------
(* The inductive invariant.                                                *)

MessagesOK ==
  \A m \in publishing \cup releasing \cup queue \cup unacked :
    m \in Message /\ run[m.run].status # "absent"

ProcOK(w) ==
  /\ (proc[w].pc = "idle") = (proc[w].msg = NoMessage)
  /\ proc[w].pc # "idle" => run[proc[w].msg.run].status # "absent"

IInv ==
  /\ run \in [Runs -> Row] /\ \A r \in Runs : RowOK(run[r])
  /\ MessagesOK
  /\ proc \in [Workers -> Process] /\ \A w \in Workers : ProcOK(w)
  /\ FenceIdentifiesAttempt

LEMMA InitIInv == Init => IInv
<1> SUFFICES ASSUME Init PROVE IInv
  OBVIOUS
<1>1. RowOK(AbsentRow)
  BY ConstantsAssumption DEF RowOK, AbsentRow, Row, Settled
<1>2. IdleProcess \in Process
  BY ConstantsAssumption DEF IdleProcess, Process
<1>3. run \in [Runs -> Row] /\ \A r \in Runs : RowOK(run[r])
  BY <1>1 DEF Init, RowOK
<1>4. proc \in [Workers -> Process] /\ \A w \in Workers : ProcOK(w)
  BY <1>2 DEF Init, ProcOK, IdleProcess
<1>5. MessagesOK
  BY DEF Init, MessagesOK
<1>6. FenceIdentifiesAttempt
  BY DEF Init, FenceIdentifiesAttempt, IdleProcess
<1> QED  BY <1>3, <1>4, <1>5, <1>6 DEF IInv

LEMMA InvGivesProperties ==
  IInv => TypeOK /\ NothingIsStranded /\ FenceIdentifiesAttempt /\ SavedOnce
<1> SUFFICES ASSUME IInv PROVE TypeOK /\ NothingIsStranded /\ SavedOnce
  BY DEF IInv
<1>1. TypeOK
  BY DEF IInv, MessagesOK, ProcOK, TypeOK
<1>2. NothingIsStranded
  BY DEF IInv, RowOK, NothingIsStranded
<1>3. SavedOnce
  BY DEF IInv, RowOK, SavedOnce
<1> QED  BY <1>1, <1>2, <1>3

----------------------------------------------------------------------------
(* What every step does to the rows.                                       *)

RowsStep ==
  /\ run' \in [Runs -> Row]
  /\ \A r \in Runs : RowStep(run[r], run'[r])

QuietRows == RowsStep /\ \A r \in Runs : Untouched(run[r], run'[r])

\* The steps that touch live running leases.
Collected(w) ==
  ClaimAccepted(w) \/ ClaimErrorRecorded(w) \/ RecordSuccess(w) \/ RecordFailure(w)

LEMMA OneRowStep ==
  ASSUME IInv, NEW r \in Runs, NEW v, RowStep(run[r], v), run' = [run EXCEPT ![r] = v]
  PROVE  /\ RowsStep
         /\ run'[r] = v
         /\ \A q \in Runs : q # r => run'[q] = run[q]
         /\ QuietStep(run[r], v) => QuietRows
<1>1. v \in Row
  BY DEF RowStep, RowOK
<1>2. run' \in [Runs -> Row] /\ run'[r] = v /\ \A q \in Runs : q # r => run'[q] = run[q]
  BY <1>1 DEF IInv
<1>3. \A q \in Runs : QuietStep(run[q], run[q])
  BY TimeRowStep DEF IInv
<1>4. RowsStep
  BY <1>2, <1>3 DEF RowsStep, QuietStep
<1>5. QuietStep(run[r], v) => QuietRows
  BY <1>2, <1>3, <1>4 DEF QuietRows, QuietStep
<1> QED  BY <1>2, <1>4, <1>5

LEMMA SameRowsStep == ASSUME IInv, UNCHANGED run PROVE QuietRows
<1>1. \A q \in Runs : QuietStep(run[q], run[q])
  BY TimeRowStep DEF IInv
<1> QED  BY <1>1 DEF IInv, QuietRows, RowsStep, QuietStep

\* A message in a process names a row that exists.
LEMMA ProcMessage ==
  ASSUME IInv, NEW w \in Workers, proc[w].pc # "idle"
  PROVE  /\ proc[w].msg \in Message /\ proc[w].msg.run \in Runs
         /\ RowOK(run[proc[w].msg.run]) /\ run[proc[w].msg.run].status # "absent"
<1>1. proc[w].msg \in Message \cup {NoMessage} /\ proc[w].msg # NoMessage
  BY DEF IInv, ProcOK, Process
<1>2. proc[w].msg \in Message /\ proc[w].msg.run \in Runs
  BY <1>1 DEF Message
<1> QED  BY <1>2 DEF IInv, ProcOK

LEMMA PlannedRows ==
  ASSUME IInv, NEW expired, NEW created,
         \A r \in expired : Expired(run[r]), \A r \in created : run[r].status = "absent"
  PROVE  \A r \in Runs : /\ QuietStep(run[r], Planned(expired, created)[r])
                         /\ run[r].status = "pending" => Planned(expired, created)[r] = run[r]
<1> TAKE r \in Runs
<1>1. RowOK(run[r])
  BY DEF IInv
<1>2. CASE r \in expired
  BY <1>1, <1>2, RecoverRowStep DEF Planned, Expired
<1>3. CASE r \notin expired /\ r \in created
  BY <1>1, <1>3, NewRowStep DEF Planned
<1>4. CASE r \notin expired /\ r \notin created
  BY <1>1, <1>4, TimeRowStep DEF Planned
<1> QED  BY <1>2, <1>3, <1>4

LEMMA TickRows ==
  ASSUME IInv, Tick
  PROVE  QuietRows /\ \A m \in publishing' \ publishing :
                        m \in Message /\ run'[m.run].status # "absent"
<1>1. PICK expired \in Batches({r \in Runs : Expired(run[r])}, DispatchBatch),
           created \in SUBSET {r \in Runs : run[r].status = "absent"} :
      \E leased \in Batches({r \in Runs : Dispatchable(Planned(expired, created)[r])}, LeaseLimit) :
      \E token \in Injection(leased, FreshTokens) :
        /\ run' = [r \in Runs |-> LET x == Planned(expired, created)[r] IN
                                 IF r \in leased THEN LeaseRow(x, token[r]) ELSE x]
        /\ publishing' = publishing \cup {[run |-> r, token |-> token[r]] : r \in leased}
  BY ZenonT(30) DEF Tick
<1> DEFINE planned == Planned(expired, created)
<1>2. PICK leased \in Batches({r \in Runs : Dispatchable(planned[r])}, LeaseLimit) :
      \E token \in Injection(leased, FreshTokens) :
        /\ run' = [r \in Runs |-> IF r \in leased THEN LeaseRow(planned[r], token[r])
                                 ELSE planned[r]]
        /\ publishing' = publishing \cup {[run |-> r, token |-> token[r]] : r \in leased}
  BY <1>1
<1>3. PICK token \in Injection(leased, FreshTokens) :
        /\ run' = [r \in Runs |-> IF r \in leased THEN LeaseRow(planned[r], token[r])
                                 ELSE planned[r]]
        /\ publishing' = publishing \cup {[run |-> r, token |-> token[r]] : r \in leased}
  BY <1>2
<1>4. /\ \A r \in expired : Expired(run[r])
      /\ \A r \in created : run[r].status = "absent"
      /\ leased \subseteq Runs /\ \A r \in leased : Dispatchable(planned[r])
  BY DEF Batches
<1>5. \A r \in leased : token[r] \in Tokens
  BY DEF Injection, FreshTokens
<1>6. \A r \in Runs : /\ QuietStep(run[r], planned[r])
                      /\ run[r].status = "pending" => planned[r] = run[r]
  BY <1>4, PlannedRows
<1> HIDE DEF planned
<1>7. ASSUME NEW r \in Runs
      PROVE  QuietStep(run[r], run'[r]) /\ (r \in leased => run'[r].status = "leased")
  <2>1. QuietStep(run[r], planned[r]) /\ (run[r].status = "pending" => planned[r] = run[r])
    BY <1>6
  <2>2. CASE r \in leased
    <3>1. run'[r] = LeaseRow(planned[r], token[r])
      BY <1>3, <2>2
    <3>2. Dispatchable(planned[r]) /\ token[r] \in Tokens
      BY <1>4, <1>5, <2>2
    <3>3. QuietStep(run[r], LeaseRow(planned[r], token[r]))
          /\ LeaseRow(planned[r], token[r]).status = "leased"
      BY <2>1, <3>2, LeaseRowStep
    <3> QED  BY <3>1, <3>3
  <2>3. CASE r \notin leased
    <3>1. run'[r] = planned[r]
      BY <1>3, <2>3
    <3> QED  BY <2>1, <2>3, <3>1
  <2> QED  BY <2>2, <2>3
<1>8. QuietRows
  <2>1. run' = [r \in Runs |-> run'[r]] /\ \A r \in Runs : run'[r] \in Row
    BY <1>3, <1>7 DEF QuietStep, RowStep, RowOK
  <2>2. run' \in [Runs -> Row]
    BY <2>1
  <2> QED  BY <1>7, <2>2 DEF QuietRows, RowsStep, QuietStep
<1>9. ASSUME NEW m \in publishing' \ publishing
      PROVE  m \in Message /\ run'[m.run].status # "absent"
  <2>1. PICK r \in leased : m = [run |-> r, token |-> token[r]]
    BY <1>3
  <2> QED  BY <2>1, <1>4, <1>5, <1>7 DEF Message
<1> QED  BY <1>8, <1>9

LEMMA DispatchRows ==
  ASSUME IInv, NEW r \in Runs, DispatchOnDemand(r)
  PROVE  QuietRows /\ \A m \in publishing' \ publishing :
                        m \in Message /\ run'[m.run].status # "absent"
<1>1. PICK t \in FreshTokens :
        /\ run' = [run EXCEPT ![r] = LeaseRow(run[r], t)]
        /\ publishing' = publishing \cup {[run |-> r, token |-> t]}
  BY DEF DispatchOnDemand
<1>2. t \in Tokens /\ RowOK(run[r]) /\ Dispatchable(run[r])
  BY DEF FreshTokens, IInv, DispatchOnDemand
<1>3. QuietStep(run[r], LeaseRow(run[r], t)) /\ LeaseRow(run[r], t).status = "leased"
  BY <1>2, TimeRowStep, LeaseRowStep
<1>4. QuietRows /\ run'[r].status = "leased"
  BY <1>1, <1>3, OneRowStep DEF QuietStep
<1> QED  BY <1>1, <1>2, <1>4 DEF Message

LEMMA OtherRows ==
  ASSUME IInv
  PROVE  /\ \A r \in Runs : CreateOnDemand(r) => QuietRows
         /\ \A m \in releasing : ReleaseLease(m) => QuietRows
         /\ \A r \in Runs : LeaseExpires(r) \/ BecomesDue(r) => QuietRows
<1>1. ASSUME NEW r \in Runs, CreateOnDemand(r) PROVE QuietRows
  <2>1. QuietStep(run[r], NewRow)
    BY <1>1, NewRowStep DEF CreateOnDemand, IInv
  <2> QED  BY <1>1, <2>1, OneRowStep DEF CreateOnDemand, QuietStep
<1>2. ASSUME NEW m \in releasing, ReleaseLease(m) PROVE QuietRows
  <2>1. m.run \in Runs /\ RowOK(run[m.run])
    BY DEF IInv, MessagesOK, Message
  <2>2. CASE run[m.run].status = "leased" /\ run[m.run].owner = m.token
    <3>1. run' = [run EXCEPT ![m.run] = ReleaseRow(run[m.run])]
      BY <1>2, <2>2 DEF ReleaseLease
    <3> QED  BY <2>1, <2>2, <3>1, ReleaseRowStep, OneRowStep DEF QuietStep
  <2>3. CASE ~(run[m.run].status = "leased" /\ run[m.run].owner = m.token)
    <3>1. run' = [run EXCEPT ![m.run] = run[m.run]]
      BY <1>2, <2>3 DEF ReleaseLease
    <3> QED  BY <2>1, <3>1, TimeRowStep, OneRowStep DEF QuietStep
  <2> QED  BY <2>2, <2>3
<1>3. ASSUME NEW r \in Runs, LeaseExpires(r) \/ BecomesDue(r) PROVE QuietRows
  <2>1. RowOK(run[r])
    BY DEF IInv
  <2>2. \/ run' = [run EXCEPT ![r] = [run[r] EXCEPT !.live = FALSE]]
        \/ /\ run[r].status = "pending"
           /\ run' = [run EXCEPT ![r] = [run[r] EXCEPT !.due = TRUE]]
    BY <1>3 DEF LeaseExpires, BecomesDue
  <2> QED  BY <2>1, <2>2, TimeRowStep, OneRowStep DEF QuietStep
<1> QED  BY <1>1, <1>2, <1>3

\* A collector writes one row, the row its message names.
LEMMA CollectorRows ==
  ASSUME IInv, NEW w \in Workers, Collected(w)
  PROVE  /\ RowsStep
         /\ proc[w].msg.run \in Runs
         /\ \A q \in Runs : q # proc[w].msg.run => run'[q] = run[q]
<1> DEFINE r == proc[w].msg.run
           x == run[r]
<1>1. r \in Runs /\ RowOK(x) /\ x.status # "absent"
  BY ProcMessage DEF Collected, ClaimAccepted, ClaimErrorRecorded, RecordSuccess, RecordFailure
<1>2. PICK v : RowStep(x, v) /\ run' = [run EXCEPT ![r] = v]
  <2>1. CASE ClaimAccepted(w)
    <3>1. run' = [run EXCEPT ![r] = ClaimRow(x, w)] /\ Claimable(x, proc[w].msg.token)
      BY <2>1 DEF ClaimAccepted
    <3> QED  BY <1>1, <3>1, ClaimRowStep
  <2>2. CASE ClaimErrorRecorded(w)
    BY <1>1, <2>2, FailRowStep DEF ClaimErrorRecorded
  <2>3. CASE RecordSuccess(w)
    BY <1>1, <2>3, SucceedRowStep DEF RecordSuccess, Holds
  <2>4. CASE RecordFailure(w)
    <3>1. x.status = "running"
      BY <2>4 DEF RecordFailure, Holds
    <3>2. \/ run' = [run EXCEPT ![r] = RetryRow(x)]
          \/ run' = [run EXCEPT ![r] = FailRow(x)]
      BY <2>4 DEF RecordFailure
    <3> QED  BY <1>1, <3>1, <3>2, RetryRowStep, FailRowStep
  <2> QED  BY <2>1, <2>2, <2>3, <2>4 DEF Collected
<1> QED  BY <1>1, <1>2, OneRowStep

LEMMA AllRows ==
  IInv /\ [Next]_vars => RowsStep /\ (QuietRows \/ \E w \in Workers : Collected(w))
<1> SUFFICES ASSUME IInv, [Next]_vars
             PROVE  QuietRows \/ \E w \in Workers : Collected(w)
  BY CollectorRows DEF QuietRows
<1>1. CASE Tick
  BY <1>1, TickRows
<1>2. ASSUME NEW r \in Runs,
             CreateOnDemand(r) \/ DispatchOnDemand(r) \/ LeaseExpires(r) \/ BecomesDue(r)
      PROVE  QuietRows
  BY <1>2, OtherRows, DispatchRows
<1>3. ASSUME NEW m, Dispatching(m) \/ Restore(m) \/ BrokerLoses(m) PROVE QuietRows
  <2>1. CASE ReleaseLease(m)
    BY <2>1, OtherRows DEF ReleaseLease
  <2>2. CASE UNCHANGED run
    BY <2>2, SameRowsStep
  <2> QED
    BY <1>3, <2>1, <2>2
    DEF Dispatching, PublishSucceeds, PublishRaises, DispatcherDies, Restore, BrokerLoses
<1>4. ASSUME NEW w \in Workers, NEW m, Deliver(w, m) PROVE QuietRows
  BY <1>4, SameRowsStep DEF Deliver
<1>5. ASSUME NEW w \in Workers, Claiming(w) \/ Collecting(w) \/ Crash(w), ~Collected(w)
      PROVE  QuietRows
  <2>1. UNCHANGED run
    BY <1>5
    DEF Collected, Claiming, Collecting, Crash, ClaimRefused, ClaimRaises, ClaimErrorLost,
        GateGranted, GateOrBrowserRaises, BrowserReturns, LeaseLost, RecordRaises
  <2> QED  BY <2>1, SameRowsStep
<1>6. CASE UNCHANGED vars
  BY <1>6, SameRowsStep DEF vars
<1> QED  BY <1>1, <1>2, <1>3, <1>4, <1>5, <1>6 DEF Next

----------------------------------------------------------------------------
(* What every step does to the messages and the processes.                 *)

\* Every message of the next state was there before, or names a row that exists.
LEMMA AllMessages == IInv /\ [Next]_vars => MessagesOK'
<1> SUFFICES ASSUME IInv, [Next]_vars PROVE MessagesOK'
  OBVIOUS
<1> DEFINE known == publishing \cup releasing \cup queue \cup unacked
<1>1. \A m \in known : m \in Message /\ run'[m.run].status # "absent"
  BY AllRows DEF IInv, MessagesOK, Message, RowsStep, RowStep
<1>2. CASE (publishing \cup releasing \cup queue \cup unacked)' \subseteq known
  BY <1>1, <1>2 DEF MessagesOK
<1>3. CASE Tick \/ \E r \in Runs : DispatchOnDemand(r)
  <2>1. \A m \in publishing' \ publishing : m \in Message /\ run'[m.run].status # "absent"
    BY <1>3, TickRows, DispatchRows
  <2>2. UNCHANGED <<releasing, queue, unacked>>
    BY <1>3 DEF Tick, DispatchOnDemand, broker
  <2> QED  BY <1>1, <2>1, <2>2 DEF MessagesOK
<1>4. ASSUME NEW r \in Runs, CreateOnDemand(r) \/ LeaseExpires(r) \/ BecomesDue(r)
      PROVE  (publishing \cup releasing \cup queue \cup unacked)' \subseteq known
  BY <1>4 DEF CreateOnDemand, LeaseExpires, BecomesDue, dispatchers, broker
<1>5. ASSUME NEW m, Dispatching(m) \/ Restore(m) \/ BrokerLoses(m)
      PROVE  (publishing \cup releasing \cup queue \cup unacked)' \subseteq known
  BY <1>5 DEF Dispatching, PublishSucceeds, PublishRaises, ReleaseLease, DispatcherDies,
              Restore, BrokerLoses, dispatchers, broker
<1>6. ASSUME NEW w \in Workers, NEW m, Deliver(w, m)
      PROVE  (publishing \cup releasing \cup queue \cup unacked)' \subseteq known
  BY <1>6 DEF Deliver, dispatchers
<1>7. ASSUME NEW w \in Workers, Claiming(w) \/ Collecting(w) \/ Crash(w)
      PROVE  (publishing \cup releasing \cup queue \cup unacked)' \subseteq known
  BY <1>7 DEF Claiming, ClaimAccepted, ClaimRefused, ClaimRaises, ClaimErrorRecorded,
              ClaimErrorLost, Collecting, GateGranted, GateOrBrowserRaises, BrowserReturns,
              LeaseLost, RecordSuccess, RecordFailure, RecordRaises, Crash, TaskEnds,
              dispatchers, broker
<1>8. CASE UNCHANGED vars
  BY <1>2, <1>8 DEF vars
<1> QED  BY <1>2, <1>3, <1>4, <1>5, <1>6, <1>7, <1>8 DEF Next

\* What may happen to the process of v: q is its next state.
ProcStep(v, q) ==
  /\ q \in Process
  /\ \/ q = proc[v]
     \/ q = IdleProcess
     \/ q.pc = "claim" /\ q.msg \in queue
     \/ /\ proc[v].pc # "idle" /\ q.pc # "idle" /\ q.msg = proc[v].msg
        /\ q.pc \in {"gate", "browse", "record"}
             => \/ ClaimAccepted(v)
                \/ proc[v].pc \in {"gate", "browse", "record"} /\ q.claim = proc[v].claim

ProcsStep ==
  /\ proc' \in [Workers -> Process]
  /\ \A v \in Workers : ProcStep(v, proc'[v])

LEMMA OneProcStep ==
  ASSUME IInv, NEW w \in Workers, NEW q, ProcStep(w, q), proc' = [proc EXCEPT ![w] = q]
  PROVE  ProcsStep
<1>1. proc \in [Workers -> Process] /\ q \in Process
  BY DEF IInv, ProcStep
<1>2. proc' \in [Workers -> Process]
  BY <1>1
<1>3. ASSUME NEW v \in Workers PROVE ProcStep(v, proc'[v])
  <2>1. CASE v = w
    BY <1>1, <2>1
  <2>2. CASE v # w
    <3>1. proc'[v] = proc[v] /\ proc[v] \in Process
      BY <1>1, <2>2
    <3> QED  BY <3>1 DEF ProcStep
  <2> QED  BY <2>1, <2>2
<1> QED  BY <1>2, <1>3 DEF ProcsStep

LEMMA SameProcsStep == ASSUME IInv, UNCHANGED proc PROVE ProcsStep
<1>1. proc \in [Workers -> Process]
  BY DEF IInv
<1>2. ASSUME NEW v \in Workers PROVE ProcStep(v, proc'[v])
  BY <1>1 DEF ProcStep
<1> QED  BY <1>1, <1>2 DEF ProcsStep

LEMMA IdleStep ==
  ASSUME IInv, NEW w \in Workers, proc' = [proc EXCEPT ![w] = IdleProcess]
  PROVE  ProcsStep
<1>1. IdleProcess \in Process
  BY ConstantsAssumption DEF IdleProcess, Process
<1> QED  BY <1>1, OneProcStep DEF ProcStep

LEMMA DeliverStep ==
  ASSUME IInv, NEW w \in Workers, NEW m \in queue, Deliver(w, m)
  PROVE  ProcsStep
<1> DEFINE q == [IdleProcess EXCEPT !.pc = "claim", !.msg = m]
<1>1. m \in Message
  BY DEF IInv, MessagesOK
<1>2. q \in Process /\ q.pc = "claim" /\ q.msg = m
  <2>1. IdleProcess \in Process
    BY ConstantsAssumption DEF IdleProcess, Process
  <2> QED  BY <1>1, <2>1 DEF Process
<1>3. ProcStep(w, q)
  BY <1>2 DEF ProcStep
<1> QED  BY <1>3, OneProcStep DEF Deliver

LEMMA ClaimStep ==
  ASSUME IInv, NEW w \in Workers, ClaimAccepted(w)
  PROVE  /\ ProcsStep
         /\ proc'[w].msg = proc[w].msg
         /\ proc'[w].claim = run'[proc[w].msg.run].attempt
<1> DEFINE a == run'[proc[w].msg.run].attempt
           q == [proc[w] EXCEPT !.pc = "gate", !.claim = a]
<1>1. proc[w] \in Process /\ proc[w].pc = "claim"
  BY DEF IInv, ClaimAccepted
<1>2. a \in 0..MaxAttempts
  <2>1. RowsStep /\ proc[w].msg.run \in Runs
    BY CollectorRows DEF Collected
  <2> QED  BY <2>1 DEF RowsStep, Row
<1> HIDE DEF a
<1>3. /\ q \in Process /\ q.pc = "gate" /\ q.msg = proc[w].msg /\ q.claim = a
  BY <1>1, <1>2 DEF Process
<1>4. proc' = [proc EXCEPT ![w] = q]
  <2>1. proc' = [proc EXCEPT ![w].pc = "gate", ![w].claim = a] /\ proc \in [Workers -> Process]
    BY DEF ClaimAccepted, a, IInv
  <2> QED  BY <2>1
<1> HIDE DEF q
<1>5. ProcStep(w, q)
  BY <1>1, <1>3 DEF ProcStep
<1>6. ProcsStep
  BY <1>4, <1>5, OneProcStep
<1> QED  BY <1>3, <1>4, <1>6 DEF a, IInv

\* The steps of a task that only move it on.
LEMMA MoveStep ==
  ASSUME IInv, NEW w \in Workers,
         ClaimRaises(w) \/ GateGranted(w) \/ GateOrBrowserRaises(w) \/ BrowserReturns(w)
  PROVE  ProcsStep
<1>1. proc[w] \in Process /\ proc \in [Workers -> Process]
  BY DEF IInv
<1>2. CASE ClaimRaises(w)
  <2>1. ProcStep(w, [proc[w] EXCEPT !.pc = "claim_error"])
    BY <1>1, <1>2 DEF ClaimRaises, ProcStep, Process
  <2> QED  BY <1>2, <2>1, OneProcStep DEF ClaimRaises
<1>3. CASE GateGranted(w)
  <2>1. ProcStep(w, [proc[w] EXCEPT !.pc = "browse"])
    BY <1>1, <1>3 DEF GateGranted, ProcStep, Process
  <2> QED  BY <1>3, <2>1, OneProcStep DEF GateGranted
<1>4. CASE GateOrBrowserRaises(w) \/ BrowserReturns(w)
  <2>1. PICK res \in Results : proc' = [proc EXCEPT ![w].pc = "record", ![w].result = res]
    BY <1>4 DEF GateOrBrowserRaises, BrowserReturns, Results
  <2> DEFINE q == [proc[w] EXCEPT !.pc = "record", !.result = res]
  <2>2. /\ q \in Process /\ q.pc = "record" /\ q.msg = proc[w].msg
        /\ q.claim = proc[w].claim
    BY <1>1 DEF Process
  <2>3. proc' = [proc EXCEPT ![w] = q]
    BY <1>1, <2>1
  <2>4. proc[w].pc \in {"gate", "browse"}
    BY <1>4 DEF GateOrBrowserRaises, BrowserReturns
  <2> HIDE DEF q
  <2>5. ProcStep(w, q)
    BY <2>2, <2>4 DEF ProcStep
  <2> QED  BY <2>3, <2>5, OneProcStep
<1> QED  BY <1>2, <1>3, <1>4

LEMMA RecordStep ==
  ASSUME IInv, NEW w \in Workers, RecordRaises(w)
  PROVE  ProcsStep
<1>1. proc[w] \in Process /\ proc[w].pc = "record"
  BY DEF IInv, RecordRaises
<1>2. CASE proc' = [proc EXCEPT ![w] = IdleProcess]
  BY <1>2, IdleStep
<1>3. CASE proc' = [proc EXCEPT ![w].result = "exception"]
  <2>1. ProcStep(w, [proc[w] EXCEPT !.result = "exception"])
    BY <1>1 DEF ProcStep, Process, Results
  <2> QED  BY <1>3, <2>1, OneProcStep
<1> QED  BY <1>2, <1>3 DEF RecordRaises, TaskEnds

LEMMA AllProcs == IInv /\ [Next]_vars => ProcsStep
<1> SUFFICES ASSUME IInv, [Next]_vars PROVE ProcsStep
  OBVIOUS
<1>1. CASE \/ Tick
           \/ \E r \in Runs : \/ CreateOnDemand(r) \/ DispatchOnDemand(r)
                            \/ LeaseExpires(r) \/ BecomesDue(r)
  <2>1. UNCHANGED proc
    BY <1>1 DEF Tick, CreateOnDemand, DispatchOnDemand, LeaseExpires, BecomesDue
  <2> QED  BY <2>1, SameProcsStep
<1>2. ASSUME NEW m, Dispatching(m) \/ Restore(m) \/ BrokerLoses(m) PROVE ProcsStep
  <2>1. UNCHANGED proc
    BY <1>2 DEF Dispatching, PublishSucceeds, PublishRaises, ReleaseLease, DispatcherDies,
                Restore, BrokerLoses
  <2> QED  BY <2>1, SameProcsStep
<1>3. ASSUME NEW w \in Workers, NEW m \in queue, Deliver(w, m) PROVE ProcsStep
  BY <1>3, DeliverStep
<1>4. ASSUME NEW w \in Workers, Claiming(w) \/ Collecting(w) \/ Crash(w) PROVE ProcsStep
  <2>1. CASE ClaimAccepted(w)
    BY <2>1, ClaimStep
  <2>2. CASE ClaimRaises(w) \/ GateGranted(w) \/ GateOrBrowserRaises(w) \/ BrowserReturns(w)
    BY <2>2, MoveStep
  <2>3. CASE RecordRaises(w)
    BY <2>3, RecordStep
  <2>4. CASE proc' = [proc EXCEPT ![w] = IdleProcess]
    BY <2>4, IdleStep
  <2> QED
    BY <1>4, <2>1, <2>2, <2>3, <2>4
    DEF Claiming, Collecting, Crash, ClaimRefused, ClaimErrorRecorded, ClaimErrorLost,
        LeaseLost, RecordSuccess, RecordFailure, TaskEnds
<1>5. CASE UNCHANGED vars
  BY <1>5, SameProcsStep DEF vars
<1> QED  BY <1>1, <1>2, <1>3, <1>4, <1>5 DEF Next

----------------------------------------------------------------------------
(* The fence.                                                              *)

\* A row whose task records an outcome is not running afterwards.
LEMMA EndedRow ==
  ASSUME NEW x, RowOK(x)
  PROVE  /\ FailRow(x).status = "failed" /\ SucceedRow(x).status = "succeeded"
         /\ RetryRow(x).status \in {"pending", "failed"}
<1>1. x \in Row
  BY DEF RowOK
<1>2. FailRow(x).status = "failed" /\ SucceedRow(x).status = "succeeded"
  BY <1>1 DEF FailRow, SucceedRow, ClearLease, Row
<1>3. [ClearLease(x) EXCEPT !.status = "pending", !.due = FALSE].status = "pending"
  BY <1>1 DEF ClearLease, Row
<1> QED  BY <1>2, <1>3 DEF RetryRow

\* An attempt is held after the step by the process that claims it in the step, or
\* by one that held the same attempt before it.
LEMMA FenceStep == IInv /\ [Next]_vars => FenceIdentifiesAttempt'
<1> SUFFICES ASSUME IInv, [Next]_vars, NEW v \in Workers,
                    proc'[v].pc \in {"gate", "browse", "record"},
                    Holds(v)'
             PROVE  proc'[v].claim = run'[proc'[v].msg.run].attempt
  BY DEF FenceIdentifiesAttempt
<1> DEFINE r == proc'[v].msg.run
<1>1. run'[r].status = "running" /\ run'[r].owner = v /\ run'[r].live
  BY DEF Holds
<1>2. CASE ClaimAccepted(v)
  BY <1>2, ClaimStep
<1>3. CASE ~ClaimAccepted(v)
  <2>1. /\ proc[v].pc \in {"gate", "browse", "record"}
        /\ proc'[v].msg = proc[v].msg /\ proc'[v].claim = proc[v].claim
    <3>1. ProcStep(v, proc'[v])
      BY AllProcs DEF ProcsStep
    <3>2. proc'[v] # IdleProcess /\ proc'[v].pc # "claim"
      BY DEF IdleProcess
    <3> QED  BY <1>3, <3>1, <3>2 DEF ProcStep
  <2>2. r \in Runs /\ r = proc[v].msg.run
    BY <2>1, ProcMessage
  <2>3. /\ run[r].status = "running" /\ run[r].owner = v /\ run[r].live
        /\ run[r].attempt = run'[r].attempt
    <3>1. CASE QuietRows
      BY <1>1, <2>2, <3>1 DEF QuietRows, Untouched
    <3>2. ASSUME NEW w \in Workers, Collected(w), r # proc[w].msg.run
          PROVE  run'[r] = run[r]
      BY <2>2, <3>2, CollectorRows
    <3>3. ASSUME NEW w \in Workers, Collected(w), r = proc[w].msg.run PROVE FALSE
      <4>1. RowOK(run[r])
        BY <2>2 DEF IInv
      <4>2. CASE ClaimAccepted(w)
        <5>1. run' = [run EXCEPT ![r] = ClaimRow(run[r], w)]
          BY <3>3, <4>2 DEF ClaimAccepted
        <5>2. run'[r].owner = w
          BY <2>2, <4>1, <5>1 DEF IInv, ClaimRow, RowOK, Row
        <5> QED  BY <1>1, <1>3, <4>2, <5>2
      <4>3. CASE ~ClaimAccepted(w)
        <5>1. \/ run' = [run EXCEPT ![r] = FailRow(run[r])]
              \/ run' = [run EXCEPT ![r] = SucceedRow(run[r])]
              \/ run' = [run EXCEPT ![r] = RetryRow(run[r])]
          BY <3>3, <4>3 DEF Collected, ClaimErrorRecorded, RecordSuccess, RecordFailure
        <5>2. run'[r].status # "running"
          BY <2>2, <4>1, <5>1, EndedRow DEF IInv
        <5> QED  BY <1>1, <5>2
      <4> QED  BY <4>2, <4>3
    <3> QED  BY <1>1, <3>1, <3>2, <3>3, AllRows
  <2> QED  BY <2>1, <2>2, <2>3 DEF IInv, FenceIdentifiesAttempt, Holds
<1> QED  BY <1>2, <1>3

LEMMA NextIInv == IInv /\ [Next]_vars => IInv'
<1> SUFFICES ASSUME IInv, [Next]_vars PROVE IInv'
  OBVIOUS
<1>1. run' \in [Runs -> Row] /\ \A r \in Runs : RowOK(run[r])'
  BY AllRows DEF RowsStep, RowStep
<1>2. MessagesOK' /\ FenceIdentifiesAttempt'
  BY AllMessages, FenceStep
<1>3. proc' \in [Workers -> Process]
  BY AllProcs DEF ProcsStep
<1>4. ASSUME NEW v \in Workers PROVE ProcOK(v)'
  <2>1. ProcStep(v, proc'[v]) /\ ProcOK(v)
    BY AllProcs DEF ProcsStep, IInv
  <2>2. \A m \in Message : run[m.run].status # "absent" => run'[m.run].status # "absent"
    BY AllRows DEF RowsStep, RowStep, Message
  <2>3. CASE proc'[v] = proc[v]
    BY <2>1, <2>2, <2>3, ProcMessage DEF ProcOK
  <2>4. CASE proc'[v] = IdleProcess
    BY <2>4 DEF ProcOK, IdleProcess
  <2>5. CASE proc'[v].pc = "claim" /\ proc'[v].msg \in queue
    <3>1. /\ proc'[v].msg \in Message /\ proc'[v].msg # NoMessage
          /\ run[proc'[v].msg.run].status # "absent"
      BY <2>5, ConstantsAssumption DEF IInv, MessagesOK, Message
    <3> QED  BY <2>2, <2>5, <3>1 DEF ProcOK
  <2>6. CASE proc[v].pc # "idle" /\ proc'[v].pc # "idle" /\ proc'[v].msg = proc[v].msg
    BY <2>1, <2>2, <2>6, ProcMessage DEF ProcOK
  <2> QED  BY <2>1, <2>3, <2>4, <2>5, <2>6 DEF ProcStep
<1> QED  BY <1>1, <1>2, <1>3, <1>4 DEF IInv

----------------------------------------------------------------------------
(* The theorems.                                                           *)

\* The inductive invariant holds in every reachable state.
THEOREM Invariance == Spec => []IInv
BY InitIInv, NextIInv, PTL DEF Spec

\* Rows, messages and processes keep their types: what the check constraints of
\* the collection_runs table promise.
THEOREM TypeCorrect == Spec => []TypeOK
BY Invariance, InvGivesProperties, PTL

\* The scheduler's two queries (dispatchable, expired) between them find every
\* active row, sooner or later.
THEOREM NoneStranded == Spec => []NothingIsStranded
BY Invariance, InvGivesProperties, PTL

\* The lease owner, which is only the worker's name, identifies the attempt, for
\* any number of collectors, redeliveries and takeovers.
THEOREM FenceIsSound == Spec => []FenceIdentifiesAttempt
BY Invariance, InvGivesProperties, PTL

\* No run saves its fare data twice.
THEOREM DataSavedOnce == Spec => []SavedOnce
BY Invariance, InvGivesProperties, PTL

\* A run that waits for its backoff is started by no stale message.
THEOREM BackoffIsKept == Spec => NoEarlyRetry
<1> DEFINE Kept == \A r \in Runs : run[r].status = "pending" /\ ~run[r].due
                                  => run'[r].status \in {"pending", "failed"}
<1>1. IInv /\ [Next]_vars => Kept
  BY AllRows DEF RowsStep, RowStep, Waits
<1>2. Spec => [][Kept]_vars
  BY <1>1, Invariance, PTL DEF Spec
<1> QED  BY <1>2 DEF NoEarlyRetry

\* Only its own collector, or the record of a claim error, takes a live lease away.
THEOREM LiveLeasesAreFenced == Spec => LiveLeaseIsFenced
<1> DEFINE Fenced == \A r \in Runs :
                       /\ run[r].status = "running" /\ run[r].live
                       /\ run'[r].status # "running" \/ run'[r].owner # run[r].owner
                       => OwnerEnds(r) \/ \E w \in Workers : RecordsClaimErrorOf(w, r)
<1>1. IInv /\ [Next]_vars => Fenced
  <2> SUFFICES ASSUME IInv, [Next]_vars, NEW r \in Runs,
                      run[r].status = "running", run[r].live,
                      run'[r].status # "running" \/ run'[r].owner # run[r].owner
               PROVE  OwnerEnds(r) \/ \E w \in Workers : RecordsClaimErrorOf(w, r)
    OBVIOUS
  <2>1. PICK w \in Workers : Collected(w) /\ proc[w].msg.run = r
    BY AllRows, CollectorRows DEF QuietRows, Untouched
  <2>2. proc \in [Workers -> Process]
    BY DEF IInv
  <2>3. CASE ClaimAccepted(w)
    BY <2>1, <2>3 DEF ClaimAccepted, Claimable
  <2>4. CASE ClaimErrorRecorded(w)
    <3>1. proc'[w].pc = "idle"
      BY <2>2, <2>4 DEF ClaimErrorRecorded, TaskEnds, IdleProcess
    <3> QED  BY <2>1, <2>4, <3>1 DEF ClaimErrorRecorded, RecordsClaimErrorOf
  <2>5. CASE RecordSuccess(w) \/ RecordFailure(w)
    <3>1. proc[w].pc = "record" /\ Holds(w) /\ proc'[w].pc = "idle"
      BY <2>2, <2>5 DEF RecordSuccess, RecordFailure, TaskEnds, IdleProcess
    <3>2. proc[w].claim = run[r].attempt /\ run[r].owner = w
      BY <2>1, <3>1 DEF IInv, FenceIdentifiesAttempt, Holds
    <3> QED  BY <2>1, <3>1, <3>2 DEF OwnerEnds
  <2> QED  BY <2>1, <2>3, <2>4, <2>5 DEF Collected
<1>2. Spec => [][Fenced]_vars
  BY <1>1, Invariance, PTL DEF Spec
<1> QED  BY <1>2 DEF LiveLeaseIsFenced

\* The pipeline implements the abstract life of its runs.
THEOREM Refinement == Spec => RefinesLifecycle
<1>1. Init => Lifecycle!Init
  <2>1. LifeOf(AbsentRow) = Lifecycle!Unborn
    BY DEF LifeOf, Stage, AbsentRow, Lifecycle!Unborn
  <2> QED  BY <2>1 DEF Init, Lives, Lifecycle!Init
<1>2. IInv /\ [Next]_vars => [Lifecycle!Next]_Lives
  <2> SUFFICES ASSUME IInv, [Next]_vars PROVE Lifecycle!Next
    OBVIOUS
  <2>1. \A r \in Runs : Lives[r] = LifeOf(run[r]) /\ Lives'[r] = LifeOf(run'[r])
    BY DEF Lives
  <2>2. \A r \in Runs : Evolves(run[r], run'[r])
    BY AllRows DEF RowsStep, RowStep
  <2>3. Lives' = [r \in Runs |-> Lives'[r]]
    BY DEF Lives
  <2> QED  BY <2>1, <2>2, <2>3 DEF Lifecycle!Next, Evolves
<1> QED  BY <1>1, <1>2, Invariance, PTL DEF Spec, RefinesLifecycle, Lifecycle!Spec
=============================================================================
