--------------------------- MODULE CollectionRuns ---------------------------
(***************************************************************************)
(* The life of collection runs between the scheduler and the API (which    *)
(* create and lease them), the Celery/Redis broker (which carries the      *)
(* dispatch messages) and the collector processes (which claim a run,      *)
(* drive the browser and record the outcome).                              *)
(*                                                                         *)
(* Every database transaction is one action: rows are read FOR UPDATE and  *)
(* the ownership checks are made on the locked row.  Time is abstracted to *)
(* what the code compares it with: `live' says lease_expires_at > now,     *)
(* `due' says scheduled_at <= now, and LeaseExpires / BecomesDue are the   *)
(* passing of time.                                                        *)
(*                                                                         *)
(* run        the rows of collection_runs; `saved' is the set of attempts  *)
(*            that left fare rows (a history of persist_collection_        *)
(*            payloads)                                                    *)
(* publishing leases that are committed and not yet sent to the broker     *)
(* releasing  leases whose publication raised and is not yet rolled back   *)
(* queue      messages the broker will deliver                             *)
(* unacked    messages delivered and not acknowledged (task_acks_late)     *)
(* proc       the collector processes: where run_collection_once is, the   *)
(*            message it handles, the attempt it claimed (history) and the *)
(*            result it is about to record                                 *)
(***************************************************************************)
EXTENDS Naturals, FiniteSets, Functions

CONSTANTS Runs,                  \* rows of collection_runs
          Workers,               \* collector processes, by lease owner name
          Tokens,                \* dispatch tokens; a fresh one is one not in use
          NoOwner, NoMessage,
          MaxAttempts,           \* collection_runs.max_attempts
          DispatchBatch,         \* collection_scheduler_dispatch_batch_size
          ProviderMayBeDisabled, \* the providers row may be switched off
          RedeliverInFlight      \* the visibility timeout may pass during a task

\* max_attempts is positive (valid_attempts check constraint) and so is the
\* batch; a worker's name, a dispatch token and no owner are told apart by the
\* prefixes "worker:" and "dispatch:".
ASSUME ConstantsAssumption ==
  /\ MaxAttempts \in Nat \ {0}
  /\ DispatchBatch \in Nat \ {0}
  /\ ProviderMayBeDisabled \in BOOLEAN
  /\ RedeliverInFlight \in BOOLEAN
  /\ Workers \cap Tokens = {}
  /\ NoOwner \notin Workers \cup Tokens
  /\ NoMessage \notin [run : Runs, token : Tokens]

VARIABLES run, publishing, releasing, queue, unacked, proc

vars == <<run, publishing, releasing, queue, unacked, proc>>
broker == <<queue, unacked>>
dispatchers == <<publishing, releasing>>

Message == [run : Runs, token : Tokens]

Row == [status  : {"absent", "pending", "leased", "running", "succeeded", "failed"},
        attempt : 0..MaxAttempts,
        owner   : Workers \cup Tokens \cup {NoOwner},
        live    : BOOLEAN,
        due     : BOOLEAN,
        saved   : SUBSET (1..MaxAttempts)]

\* What the browser run, or the failure of something around it, amounts to.
Results == {"complete",     \* calendar and offers
            "partial",      \* captures missing, or a calendar without offers
            "empty",        \* captures with nothing to persist
            "retryable",    \* no capture, a retryable failure kind
            "fatal",        \* no capture, a failure kind that is not retryable
            "coordination", \* CollectionCoordinationError from the rate gate
            "exception"}    \* anything else that was raised

Process == [pc     : {"idle", "claim", "claim_error", "gate", "browse", "record"},
            msg    : Message \cup {NoMessage},
            claim  : 0..MaxAttempts,
            result : Results \cup {"none"}]

AbsentRow == [status |-> "absent", attempt |-> 0, owner |-> NoOwner,
              live |-> FALSE, due |-> FALSE, saved |-> {}]
IdleProcess == [pc |-> "idle", msg |-> NoMessage, claim |-> 0, result |-> "none"]

Init ==
  /\ run = [r \in Runs |-> AbsentRow]
  /\ publishing = {} /\ releasing = {}
  /\ queue = {} /\ unacked = {}
  /\ proc = [w \in Workers |-> IdleProcess]

----------------------------------------------------------------------------
(* Rows.                                                                   *)

NewRow == [status |-> "pending", attempt |-> 0, owner |-> NoOwner,
           live |-> FALSE, due |-> TRUE, saved |-> {}]

Active(x) == x.status \in {"pending", "leased", "running"}
Settled(x) == x.status \in {"succeeded", "failed"}

ClearLease(x) == [x EXCEPT !.owner = NoOwner, !.live = FALSE]
FailRow(x) == [ClearLease(x) EXCEPT !.status = "failed"]

\* Mistakes that the mutation runs put in place of the definitions they are named for.
ClaimableWithoutBudget(x, token) ==
  /\ Active(x)
  /\ x.status = "pending" => x.due
  /\ x.status = "running" => ~x.live
  /\ x.status = "leased" /\ x.live => x.owner = token

ClaimableWhileRunning(x, token) ==
  /\ Active(x) /\ x.attempt < MaxAttempts
  /\ x.status = "pending" => x.due
  /\ x.status = "leased" /\ x.live => x.owner = token

ClaimableTooEarly(x, token) ==
  /\ Active(x) /\ x.attempt < MaxAttempts
  /\ x.status = "running" => ~x.live
  /\ x.status = "leased" /\ x.live => x.owner = token

ClaimableWhenSettled(x, token) ==
  /\ x.attempt < MaxAttempts
  /\ x.status = "pending" => x.due
  /\ x.status = "running" => ~x.live
  /\ x.status = "leased" /\ x.live => x.owner = token

ExpiredDispatchOnly(x) == x.status = "leased" /\ ~x.live

RecoverRowAlways(x) == [ClearLease(x) EXCEPT !.status = "pending", !.due = TRUE]

RetryRowAlways(x) == [ClearLease(x) EXCEPT !.status = "pending", !.due = FALSE]

HoldsAnyOwner(w) ==
  LET x == run[proc[w].msg.run] IN
  x.status = "running" /\ x.live

----------------------------------------------------------------------------
\* A lease can be given only to a pending, due run with attempts left.
Dispatchable(x) == x.status = "pending" /\ x.due /\ x.attempt < MaxAttempts
LeaseRow(x, t) == [x EXCEPT !.status = "leased", !.owner = t, !.live = TRUE]

Expired(x) == x.status \in {"leased", "running"} /\ ~x.live

\* An expired lease ends the run when its attempts are used up, and otherwise
\* makes it pending and due at once.
RecoverRow(x) ==
  IF x.attempt >= MaxAttempts
  THEN FailRow(x)
  ELSE [ClearLease(x) EXCEPT !.status = "pending", !.due = TRUE]

\* A lease whose publication failed is given back, for the dispatch retry delay.
ReleaseRow(x) == [ClearLease(x) EXCEPT !.status = "pending", !.due = FALSE]

\* An attempt starts; it succeeds and leaves its data; it fails and may be
\* retried after a backoff while attempts remain.
ClaimRow(x, w) ==
  [x EXCEPT !.status = "running", !.attempt = @ + 1, !.owner = w, !.live = TRUE]
SucceedRow(x) ==
  [ClearLease(x) EXCEPT !.status = "succeeded", !.saved = @ \cup {x.attempt}]
RetryRow(x) ==
  IF x.attempt >= MaxAttempts
  THEN FailRow(x)
  ELSE [ClearLease(x) EXCEPT !.status = "pending", !.due = FALSE]

\* uuid4 gives a token that nothing in the system still mentions.
TokensInUse ==
  {m.token : m \in publishing \cup releasing \cup queue \cup unacked}
    \cup {proc[w].msg.token : w \in {v \in Workers : proc[v].pc # "idle"}}
    \cup {run[r].owner : r \in Runs}
FreshTokens == Tokens \ TokensInUse

\* ORDER BY ... LIMIT batch: every subset of that size, the order is abstracted.
Batches(S, limit) ==
  {B \in SUBSET S : IF Cardinality(S) <= limit THEN B = S ELSE Cardinality(B) = limit}

\* No more leases than there are fresh tokens: the bound on dispatches in the air.
LeaseLimit ==
  IF Cardinality(FreshTokens) < DispatchBatch THEN Cardinality(FreshTokens) ELSE DispatchBatch

----------------------------------------------------------------------------
(* The scheduler and the API.                                              *)

\* One scheduler transaction recovers expired leases, inserts the runs that are
\* due and leases what is then dispatchable.  RunCreation models which rows are
\* inserted; here any rows may be.
Planned(expired, created) ==
  [r \in Runs |-> IF r \in expired THEN RecoverRow(run[r])
                 ELSE IF r \in created THEN NewRow
                 ELSE run[r]]

Tick ==
  \E expired \in Batches({r \in Runs : Expired(run[r])}, DispatchBatch),
     created \in SUBSET {r \in Runs : run[r].status = "absent"} :
  \E leased \in Batches({r \in Runs : Dispatchable(Planned(expired, created)[r])}, LeaseLimit) :
  \E token \in Injection(leased, FreshTokens) :
    /\ run' = [r \in Runs |-> LET x == Planned(expired, created)[r] IN
                             IF r \in leased THEN LeaseRow(x, token[r]) ELSE x]
    /\ publishing' = publishing \cup {[run |-> r, token |-> token[r]] : r \in leased}
    /\ UNCHANGED <<releasing, broker, proc>>

\* The API inserts a run for a search nobody is collecting.
CreateOnDemand(r) ==
  /\ run[r].status = "absent"
  /\ run' = [run EXCEPT ![r] = NewRow]
  /\ UNCHANGED <<dispatchers, broker, proc>>

\* After that commit (or for an active run it found) the API tries to lease it.
DispatchOnDemand(r) ==
  /\ Dispatchable(run[r])
  /\ \E t \in FreshTokens :
       /\ run' = [run EXCEPT ![r] = LeaseRow(@, t)]
       /\ publishing' = publishing \cup {[run |-> r, token |-> t]}
  /\ UNCHANGED <<releasing, broker, proc>>

PublishSucceeds(m) ==
  /\ m \in publishing
  /\ publishing' = publishing \ {m}
  /\ queue' = queue \cup {m}
  /\ UNCHANGED <<run, releasing, unacked, proc>>

\* send_task raised: the broker may have taken the message all the same.
PublishRaises(m) ==
  /\ m \in publishing
  /\ publishing' = publishing \ {m}
  /\ releasing' = releasing \cup {m}
  /\ \E accepted \in SUBSET {m} : queue' = queue \cup accepted
  /\ UNCHANGED <<run, unacked, proc>>

\* Give back the lease of a failed publication, if it is still that lease; the
\* run waits for the dispatch retry delay.
ReleaseLease(m) ==
  /\ m \in releasing
  /\ releasing' = releasing \ {m}
  /\ run' = [run EXCEPT ![m.run] =
               IF @.status = "leased" /\ @.owner = m.token THEN ReleaseRow(@) ELSE @]
  /\ UNCHANGED <<publishing, broker, proc>>

\* The scheduler or API process dies, or the release transaction fails, which
\* the code leaves to lease expiry.
DispatcherDies(m) ==
  /\ m \in publishing \cup releasing
  /\ publishing' = publishing \ {m}
  /\ releasing' = releasing \ {m}
  /\ UNCHANGED <<run, broker, proc>>

----------------------------------------------------------------------------
(* The broker.                                                             *)

Deliver(w, m) ==
  /\ m \in queue
  /\ proc[w].pc = "idle"
  /\ queue' = queue \ {m}
  /\ unacked' = unacked \cup {m}
  /\ proc' = [proc EXCEPT ![w] = [IdleProcess EXCEPT !.pc = "claim", !.msg = m]]
  /\ UNCHANGED <<run, dispatchers>>

InFlight(m) == \E w \in Workers : proc[w].msg = m

\* A message whose process was lost, or whose visibility timeout has passed,
\* is delivered again.
Restore(m) ==
  /\ m \in unacked
  /\ InFlight(m) => RedeliverInFlight
  /\ unacked' = unacked \ {m}
  /\ queue' = queue \cup {m}
  /\ UNCHANGED <<run, dispatchers, proc>>

BrokerLoses(m) ==
  /\ m \in queue \cup unacked
  /\ queue' = queue \ {m}
  /\ unacked' = unacked \ {m}
  /\ UNCHANGED <<run, dispatchers, proc>>

----------------------------------------------------------------------------
(* The collector: run_collection_once.                                     *)

\* The task returns (or raises) and its message is acknowledged.
TaskEnds(w) ==
  /\ proc' = [proc EXCEPT ![w] = IdleProcess]
  /\ unacked' = unacked \ {proc[w].msg}

\* A pending run needs no token; a live lease is opened only by its own token;
\* an expired lease is taken over before the scheduler recovers it.
Claimable(x, token) ==
  /\ Active(x)
  /\ x.status = "pending" => x.due
  /\ x.status = "running" => ~x.live
  /\ x.status = "leased" /\ x.live => x.owner = token
  /\ x.attempt < MaxAttempts

ClaimAccepted(w) ==
  LET m == proc[w].msg IN
  /\ proc[w].pc = "claim"
  /\ Claimable(run[m.run], m.token)
  /\ run' = [run EXCEPT ![m.run] = ClaimRow(@, w)]
  /\ proc' = [proc EXCEPT ![w].pc = "gate", ![w].claim = run'[m.run].attempt]
  /\ UNCHANGED <<dispatchers, broker>>

ClaimRefused(w) ==
  LET m == proc[w].msg IN
  /\ proc[w].pc = "claim"
  /\ ~Claimable(run[m.run], m.token) \/ ProviderMayBeDisabled
  /\ TaskEnds(w)
  /\ UNCHANGED <<run, dispatchers, queue>>

\* The claim transaction fails (statement timeout, lost connection, bad query
\* row) and is rolled back.
ClaimRaises(w) ==
  /\ proc[w].pc = "claim"
  /\ proc' = [proc EXCEPT ![w].pc = "claim_error"]
  /\ UNCHANGED <<run, dispatchers, broker>>

\* _record_unhandled_failure is called without an expected lease owner: it fails
\* the run in whatever state it now finds it.
ClaimErrorRecorded(w) ==
  /\ proc[w].pc = "claim_error"
  /\ run' = [run EXCEPT ![proc[w].msg.run] = FailRow(@)]
  /\ TaskEnds(w)
  /\ UNCHANGED <<dispatchers, queue>>

\* That second transaction fails as well, and is swallowed.
ClaimErrorLost(w) ==
  /\ proc[w].pc = "claim_error"
  /\ TaskEnds(w)
  /\ UNCHANGED <<run, dispatchers, queue>>

\* _assert_owned_lease on the locked row.
Holds(w) ==
  LET x == run[proc[w].msg.run] IN
  x.status = "running" /\ x.owner = w /\ x.live

\* The rate gate grants a slot and the lease is renewed before the browser opens.
GateGranted(w) ==
  /\ proc[w].pc = "gate"
  /\ Holds(w)
  /\ proc' = [proc EXCEPT ![w].pc = "browse"]
  /\ UNCHANGED <<run, dispatchers, broker>>

\* The gate or its heartbeat fails, before or during the browser run, or
\* anything else is raised there.
GateOrBrowserRaises(w) ==
  /\ proc[w].pc \in {"gate", "browse"}
  /\ \E res \in {"coordination", "exception"} :
       proc' = [proc EXCEPT ![w].pc = "record", ![w].result = res]
  /\ UNCHANGED <<run, dispatchers, broker>>

BrowserReturns(w) ==
  /\ proc[w].pc = "browse"
  /\ \E res \in Results \ {"coordination", "exception"} :
       proc' = [proc EXCEPT ![w].pc = "record", ![w].result = res]
  /\ UNCHANGED <<run, dispatchers, broker>>

\* The renewal after the gate, or the transaction that records the outcome,
\* finds the lease gone: the result is dropped.
LeaseLost(w) ==
  /\ proc[w].pc \in {"gate", "record"}
  /\ ~Holds(w)
  /\ TaskEnds(w)
  /\ UNCHANGED <<run, dispatchers, queue>>

\* Complete and partial data alike end the run as succeeded.
RecordSuccess(w) ==
  /\ proc[w].pc = "record"
  /\ proc[w].result \in {"complete", "partial"}
  /\ Holds(w)
  /\ run' = [run EXCEPT ![proc[w].msg.run] = SucceedRow(@)]
  /\ TaskEnds(w)
  /\ UNCHANGED <<dispatchers, queue>>

\* record_collection_failure, then _schedule_retry_if_eligible in the same
\* transaction.
RecordFailure(w) ==
  /\ proc[w].pc = "record"
  /\ proc[w].result \notin {"complete", "partial"}
  /\ Holds(w)
  /\ run' = [run EXCEPT ![proc[w].msg.run] =
               IF proc[w].result \in {"retryable", "coordination"}
               THEN RetryRow(@) ELSE FailRow(@)]
  /\ TaskEnds(w)
  /\ UNCHANGED <<dispatchers, queue>>

\* The recording transaction is rolled back.  Persistence and coordination
\* failures are recorded once more as an unhandled failure; the other branches
\* let the exception end the task.
RecordRaises(w) ==
  /\ proc[w].pc = "record"
  /\ IF proc[w].result \in {"complete", "partial", "empty", "coordination"}
     THEN /\ proc' = [proc EXCEPT ![w].result = "exception"]
          /\ UNCHANGED unacked
     ELSE TaskEnds(w)
  /\ UNCHANGED <<run, dispatchers, queue>>

\* The process is killed, or a cancellation that RedisGate's slot lets escape ends the
\* task unrecorded: the message stays unacknowledged, the lease runs out.
Crash(w) ==
  /\ proc[w].pc # "idle"
  /\ proc' = [proc EXCEPT ![w] = IdleProcess]
  /\ UNCHANGED <<run, dispatchers, broker>>

----------------------------------------------------------------------------
(* Time.                                                                   *)

LeaseExpires(r) ==
  /\ run[r].live
  /\ run' = [run EXCEPT ![r].live = FALSE]
  /\ UNCHANGED <<dispatchers, broker, proc>>

BecomesDue(r) ==
  /\ run[r].status = "pending" /\ ~run[r].due
  /\ run' = [run EXCEPT ![r].due = TRUE]
  /\ UNCHANGED <<dispatchers, broker, proc>>

----------------------------------------------------------------------------
Dispatching(m) ==
  PublishSucceeds(m) \/ PublishRaises(m) \/ ReleaseLease(m) \/ DispatcherDies(m)

Claiming(w) ==
  \/ ClaimAccepted(w) \/ ClaimRefused(w) \/ ClaimRaises(w)
  \/ ClaimErrorRecorded(w) \/ ClaimErrorLost(w)

Collecting(w) ==
  \/ GateGranted(w) \/ GateOrBrowserRaises(w) \/ BrowserReturns(w) \/ LeaseLost(w)
  \/ RecordSuccess(w) \/ RecordFailure(w) \/ RecordRaises(w)

Next ==
  \/ Tick
  \/ \E r \in Runs : CreateOnDemand(r) \/ DispatchOnDemand(r)
  \/ \E m \in publishing \cup releasing : Dispatching(m)
  \/ \E m \in queue \cup unacked : Restore(m) \/ BrokerLoses(m)
  \/ \E m \in queue, w \in Workers : Deliver(w, m)
  \/ \E w \in Workers : Claiming(w) \/ Collecting(w) \/ Crash(w)
  \/ \E r \in Runs : LeaseExpires(r) \/ BecomesDue(r)

Spec == Init /\ [][Next]_vars

----------------------------------------------------------------------------
(* Type correctness. *)
TypeOK ==
  /\ run \in [Runs -> Row]
  /\ publishing \subseteq Message /\ releasing \subseteq Message
  /\ queue \subseteq Message /\ unacked \subseteq Message
  /\ proc \in [Workers -> Process]
  /\ \A w \in Workers : (proc[w].pc = "idle") = (proc[w].msg = NoMessage)

\* No active run is stranded: a run that waits has attempts left and carries no
\* lease, so the lease query will find it; a leased or running row names its
\* owner, so lease recovery will find it; a settled run holds nothing.  An
\* active row that neither query finds would block its search for ever.
NothingIsStranded ==
  \A r \in Runs :
    LET x == run[r] IN
    /\ x.status \in {"pending", "leased"} => x.attempt < MaxAttempts
    /\ x.status = "leased" => x.owner \in Tokens
    /\ x.status = "running" => x.owner \in Workers /\ x.attempt > 0
    /\ x.status \notin {"leased", "running"} => x.owner = NoOwner /\ ~x.live

\* The lease owner stored by a claim is only the worker's name.  It still tells
\* attempts apart: a process that passes the ownership check passes it for the
\* attempt it claimed, never for a later attempt on the same row.
FenceIdentifiesAttempt ==
  \A w \in Workers :
    /\ proc[w].pc \in {"gate", "browse", "record"}
    /\ Holds(w)
    => proc[w].claim = run[proc[w].msg.run].attempt

\* Redelivered messages, takeovers and late collectors never save a run's fare
\* data twice, and a run reported as succeeded has the data of its last attempt.
SavedOnce ==
  \A r \in Runs :
    /\ run[r].saved \subseteq {run[r].attempt}
    /\ run[r].saved # {} => Settled(run[r])
    /\ run[r].status = "succeeded" => run[r].saved = {run[r].attempt}

\* The claim error of worker w for run r is being recorded in this step.
RecordsClaimErrorOf(w, r) ==
  /\ proc[w].pc = "claim_error" /\ proc[w].msg.run = r
  /\ proc'[w].pc = "idle"

\* The collector that claimed the current attempt of r ends its task in this step.
OwnerEnds(r) ==
  \E w \in Workers :
    /\ run[r].owner = w
    /\ proc[w].pc = "record" /\ proc[w].msg.run = r
    /\ proc[w].claim = run[r].attempt
    /\ proc'[w].pc = "idle"

\* A running row with a live lease is taken away from its collector only by that
\* collector, or by the record of somebody's claim error.
LiveLeaseIsFenced ==
  [][\A r \in Runs :
       /\ run[r].status = "running" /\ run[r].live
       /\ run'[r].status # "running" \/ run'[r].owner # run[r].owner
       => OwnerEnds(r) \/ \E w \in Workers : RecordsClaimErrorOf(w, r)]_vars

\* While a run waits for its backoff no stale message and no scheduler tick can
\* start it: it stays pending until it is due, or a claim error fails it.
NoEarlyRetry ==
  [][\A r \in Runs :
       run[r].status = "pending" /\ ~run[r].due
       => run'[r].status \in {"pending", "failed"}]_vars

\* Every step is a step of the abstract life of the runs: the number of attempts
\* only grows and is bounded, a settled run is never collected again, data is
\* saved by the current attempt in the step that ends it.
Stage(x) ==
  CASE x.status \in {"pending", "leased"} -> "waiting"
    [] x.status = "running" -> "collecting"
    [] OTHER -> x.status

LifeOf(x) == [stage |-> Stage(x), attempt |-> x.attempt, saved |-> x.saved]

Lives == [r \in Runs |-> LifeOf(run[r])]

Lifecycle == INSTANCE RunLifecycle WITH life <- Lives
RefinesLifecycle == Lifecycle!Spec

----------------------------------------------------------------------------
(* What the documents say and the code does not do.                        *)

\* docs/PROJECT_PLAN.md:123 and :227, the collector fences the lease: only the
\* owner of a live lease ends the run it is collecting.
OnlyOwnerEndsLiveRun ==
  [][\A r \in Runs :
       run[r].status = "running" /\ run[r].live /\ run'[r].status # "running"
       => OwnerEnds(r)]_vars

----------------------------------------------------------------------------
(* Liveness.                                                               *)

\* The message of the lease on r is still to be published, delivered or claimed.
OnItsWay(r) ==
  \/ \E m \in publishing \cup queue : m.run = r /\ m.token = run[r].owner
  \/ \E w \in Workers : proc[w].pc = "claim" /\ proc[w].msg.run = r
                         /\ proc[w].msg.token = run[r].owner

\* What the pipeline recovers from, any finite number of times.  Expiry of a
\* dispatch lease counts as a fault while its message is on its way: the lease is
\* meant to outlast the delivery.
Fault ==
  \/ \E m \in publishing : PublishRaises(m)
  \/ \E m \in publishing \cup releasing : DispatcherDies(m)
  \/ \E m \in queue \cup unacked : BrokerLoses(m)
  \/ \E w \in Workers : ClaimRaises(w) \/ Crash(w)
  \/ \E w \in Workers : ClaimRefused(w) /\ Claimable(run[proc[w].msg.run], proc[w].msg.token)
  \/ \E r \in Runs : OnItsWay(r) /\ LeaseExpires(r)

FaultsCease == <>[][~Fault]_vars

\* Celery beat keeps ticking, time keeps passing, live processes make progress,
\* and the broker restores what nobody handles any more.
Fairness ==
  /\ WF_vars(Tick)
  /\ \A r \in Runs : WF_vars(LeaseExpires(r)) /\ WF_vars(BecomesDue(r))
  /\ \A m \in Message :
       /\ WF_vars(PublishSucceeds(m)) /\ WF_vars(ReleaseLease(m))
       /\ WF_vars(\E w \in Workers : Deliver(w, m))
       /\ WF_vars(~InFlight(m) /\ Restore(m))
  /\ \A w \in Workers : WF_vars(Claiming(w)) /\ WF_vars(Collecting(w))

FairSpec == Spec /\ Fairness /\ FaultsCease

\* Every run that was created is eventually settled, through lost messages, dead
\* processes and failed transactions.
EveryRunSettles ==
  \A r \in Runs : Active(run[r]) ~> Settled(run[r])
=============================================================================
