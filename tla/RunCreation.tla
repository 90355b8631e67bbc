----------------------------- MODULE RunCreation -----------------------------
(***************************************************************************)
(* Which runs come into being.  The scheduler creates a run for every      *)
(* canonical query with a due subscription; the API creates one for an     *)
(* on-demand search.  Both look for a run they can share before they       *)
(* insert, and the unique idempotency key is all that the database itself  *)
(* enforces.                                                               *)
(*                                                                         *)
(* Transactions run at READ COMMITTED, so every statement of the on-demand *)
(* transaction sees what was committed before it: each is an action.  An   *)
(* uncommitted insert makes the others wait for its commit, so the insert  *)
(* and the commit are one action.  The scheduler's transaction is two: it  *)
(* locks its due subscriptions and looks for enabled providers and active  *)
(* runs, and it inserts and commits.                                       *)
(*                                                                         *)
(* Both create runs for enabled providers only.  Nothing in the program    *)
(* sets the flag: an operator does, in the database.  The row of a search  *)
(* is always there while a subscription is (a foreign key).                *)
(*                                                                         *)
(* now      the clock                                                      *)
(* enabled  the providers that are enabled                                 *)
(* rows     collection_runs by idempotency key, with scheduled_at; the     *)
(*          three active states, which CollectionRuns tells apart, are one *)
(* sub      subscriptions, with next_due_at                                *)
(* request  on-demand requests: where they are, when they began, the       *)
(*          generation they counted, and (history) the keys that existed   *)
(*          when they looked for an active run                             *)
(* tick     the scheduler's transaction; an advisory lock allows one       *)
(***************************************************************************)
EXTENDS Naturals, FiniteSets

CONSTANTS Queries,           \* canonical searches
          Providers, ProviderOf, \* of the searches
          Subs, QueryOf,     \* subscriptions and their search_query_id
          Requests,          \* API request slots
          Interval,          \* poll_interval_seconds
          ScheduleBucket,    \* collection_schedule_bucket_seconds
          OnDemandBucket,    \* 900 seconds
          SubscriptionBatch, \* collection_scheduler_subscription_batch_size
          Horizon,           \* bound: the last instant
          MaxRuns,           \* bound: rows per query
          Crowd,             \* bound: requests at work, subscriptions and disabled
                             \* providers at once
          NoTime             \* NULL

ASSUME CreationAssumption ==
  /\ Queries # {} /\ QueryOf \in [Subs -> Queries] /\ ProviderOf \in [Queries -> Providers]
  /\ {Interval, ScheduleBucket, OnDemandBucket, SubscriptionBatch} \subseteq Nat \ {0}
  /\ {Horizon, MaxRuns, Crowd} \subseteq Nat
  /\ NoTime \notin Nat

VARIABLES now, enabled, rows, sub, request, tick

vars == <<now, enabled, rows, sub, request, tick>>

Time == 0..Horizon

\* Mistakes that the mutation runs put in place of the definitions they are named for.
OnDemandKeyByTime(q, t, g) ==
  [kind |-> "on_demand", query |-> q, bucket |-> t * OnDemandBucket, generation |-> g]

SettledSinceInBucket(q, status, t) ==
  {k \in DOMAIN rows : /\ k.query = q /\ rows[k].status = status
                       /\ rows[k].at \div OnDemandBucket = t \div OnDemandBucket}

WantedUnlessCollected ==
  {q \in {QueryOf[s] : s \in tick.locked} \ {k.query : k \in DOMAIN rows} :
     ProviderOf[q] \in tick.enabled}

AdvanceDueAtFromNow(due, t) == t + Interval

\* f"scheduled:{query}:{bucket}" and f"on-demand:{query}:{bucket}:{generation}".
ScheduledKey(q, t) ==
  [kind |-> "scheduled", query |-> q, bucket |-> t \div ScheduleBucket, generation |-> 0]
OnDemandKey(q, t, g) ==
  [kind |-> "on_demand", query |-> q, bucket |-> t \div OnDemandBucket, generation |-> g]

RunsOf(q) == {k \in DOMAIN rows : k.query = q}
OnDemandRuns(q) == {k \in RunsOf(q) : k.kind = "on_demand"}
ActiveRuns(q) == {k \in RunsOf(q) : rows[k].status = "active"}

\* Runs of the status that are scheduled in the bucket of t or later.
SettledSince(q, status, t) ==
  {k \in RunsOf(q) : /\ rows[k].status = status
                     /\ rows[k].at >= (t \div OnDemandBucket) * OnDemandBucket}

WithRuns(keys, t) ==
  [k \in DOMAIN rows \cup keys |->
     IF k \in DOMAIN rows THEN rows[k] ELSE [status |-> "active", at |-> t]]

IdleRequest == [pc |-> "idle", query |-> CHOOSE q \in Queries : TRUE, time |-> 0,
                generation |-> 0, known |-> {}]
IdleTick == [pc |-> "idle", time |-> 0, locked |-> {}, enabled |-> {}, active |-> {}]

Room == Cardinality({p \in Requests : request[p].pc # "idle"})
          + Cardinality({s \in Subs : sub[s].status # "absent"})
          + Cardinality(Providers \ enabled) < Crowd

Init ==
  /\ now = 0 /\ enabled = Providers
  /\ rows = [k \in {} |-> [status |-> "active", at |-> 0]]
  /\ sub = [s \in Subs |-> [status |-> "absent", due |-> NoTime]]
  /\ request = [p \in Requests |-> IdleRequest]
  /\ tick = IdleTick

----------------------------------------------------------------------------
(* The on-demand request: ensure_on_demand_collection_run.                 *)

Arrive(p, q) ==
  /\ request[p].pc = "idle" /\ Room
  /\ request' = [request EXCEPT ![p] = [IdleRequest EXCEPT !.pc = "active", !.query = q, !.time = now]]
  /\ UNCHANGED <<now, enabled, rows, sub, tick>>

\* An active run is shared, whoever created it.
LooksForActive(p) ==
  LET q == request[p].query IN
  /\ request[p].pc = "active"
  /\ request' = [request EXCEPT ![p] =
                   IF ActiveRuns(q) # {} THEN IdleRequest
                   ELSE [@ EXCEPT !.pc = "recent", !.known = OnDemandRuns(q)]]
  /\ UNCHANGED <<now, enabled, rows, sub, tick>>

\* So is the data of a run that succeeded in this bucket.
LooksForRecentSuccess(p) ==
  /\ request[p].pc = "recent"
  /\ request' = [request EXCEPT ![p] =
                   IF SettledSince(@.query, "succeeded", @.time) # {} THEN IdleRequest
                   ELSE [@ EXCEPT !.pc = "count"]]
  /\ UNCHANGED <<now, enabled, rows, sub, tick>>

CountsGeneration(p) ==
  /\ request[p].pc = "count"
  /\ LET failed == SettledSince(request[p].query, "failed", request[p].time) IN
     request' = [request EXCEPT ![p].pc = "provider", ![p].generation = Cardinality(failed)]
  /\ UNCHANGED <<now, enabled, rows, sub, tick>>

\* Raises unless the provider is enabled.
LooksForProvider(p) ==
  /\ request[p].pc = "provider"
  /\ request' = [request EXCEPT ![p] =
                   IF ProviderOf[@.query] \in enabled THEN [@ EXCEPT !.pc = "insert"] ELSE IdleRequest]
  /\ UNCHANGED <<now, enabled, rows, sub, tick>>

KeyOf(p) == OnDemandKey(request[p].query, request[p].time, request[p].generation)

\* ON CONFLICT DO NOTHING: a conflict falls back to a visible active run, or
\* raises; either way the request is over.
Inserts(p) ==
  /\ request[p].pc = "insert"
  /\ KeyOf(p) \in DOMAIN rows \/ Cardinality(RunsOf(request[p].query)) < MaxRuns
  /\ rows' = WithRuns({KeyOf(p)}, request[p].time)
  /\ request' = [request EXCEPT ![p] = IdleRequest]
  /\ UNCHANGED <<now, enabled, sub, tick>>

\* The client goes away, or the database fails the transaction.
RequestFails(p) ==
  /\ request[p].pc # "idle"
  /\ request' = [request EXCEPT ![p] = IdleRequest]
  /\ UNCHANGED <<now, enabled, rows, sub, tick>>

----------------------------------------------------------------------------
(* The scheduler: plan_scheduler_tick.                                     *)

\* advance_due_at: the first instant after t on the subscription's own grid.
AdvanceDueAt(due, t) ==
  IF due = NoTime \/ due > t
  THEN t + Interval
  ELSE due + ((t - due) \div Interval + 1) * Interval

Due == {s \in Subs : sub[s].status = "enabled" /\ sub[s].due <= now}

\* FOR UPDATE SKIP LOCKED LIMIT batch: rows another transaction holds are left out.
\* With none left there is nothing to do.
TickLooks ==
  /\ tick.pc = "idle"
  /\ \E locked \in {S \in SUBSET Due \ {{}} : Cardinality(S) <= SubscriptionBatch} :
       tick' = [pc |-> "commit", time |-> now, locked |-> locked,
                enabled |-> enabled, active |-> {q \in Queries : ActiveRuns(q) # {}}]
  /\ UNCHANGED <<now, enabled, rows, sub, request>>

\* _ensure_grouped_collection_runs passes over a search with an active run, or whose
\* provider is disabled.
Wanted ==
  {q \in {QueryOf[s] : s \in tick.locked} \ tick.active : ProviderOf[q] \in tick.enabled}

\* All the locked subscriptions move on, those of a search passed over too.
TickCommits ==
  /\ tick.pc = "commit"
  /\ \A q \in Wanted : Cardinality(RunsOf(q)) < MaxRuns
  /\ rows' = WithRuns({ScheduledKey(q, tick.time) : q \in Wanted}, tick.time)
  /\ sub' = [s \in Subs |-> IF s \in tick.locked
                            THEN [sub[s] EXCEPT !.due = AdvanceDueAt(@, tick.time)]
                            ELSE sub[s]]
  /\ tick' = IdleTick
  /\ UNCHANGED <<now, enabled, request>>

TickFails ==
  /\ tick.pc = "commit"
  /\ tick' = IdleTick
  /\ UNCHANGED <<now, enabled, rows, sub, request>>

----------------------------------------------------------------------------
(* Users, whose updates wait for the rows the scheduler has locked.        *)

CreateSubscription(s, on) ==
  /\ sub[s].status = "absent" /\ Room
  /\ sub' = [sub EXCEPT ![s] = IF on THEN [status |-> "enabled", due |-> now]
                               ELSE [status |-> "paused", due |-> NoTime]]
  /\ UNCHANGED <<now, enabled, rows, request, tick>>

SetEnabled(s, on) ==
  /\ sub[s].status # "absent" /\ s \notin tick.locked
  /\ sub' = [sub EXCEPT ![s] = IF on THEN [status |-> "enabled", due |-> now]
                               ELSE [status |-> "paused", due |-> NoTime]]
  /\ UNCHANGED <<now, enabled, rows, request, tick>>

DeleteSubscription(s) ==
  /\ sub[s].status # "absent" /\ s \notin tick.locked
  /\ sub' = [sub EXCEPT ![s] = [status |-> "absent", due |-> NoTime]]
  /\ UNCHANGED <<now, enabled, rows, request, tick>>

\* An operator switches a provider off or on.
SwitchProvider(c) ==
  /\ \/ c \in enabled /\ Room /\ enabled' = enabled \ {c}
     \/ c \notin enabled /\ enabled' = enabled \cup {c}
  /\ UNCHANGED <<now, rows, sub, request, tick>>

----------------------------------------------------------------------------
(* What CollectionRuns does to a run, as far as it shows here.             *)

\* A lease is recovered (scheduled_at = now) or a retry is scheduled.
RunIsRescheduled(k) ==
  /\ rows[k].status = "active" /\ rows[k].at <= now
  /\ \E t \in {now, now + 1} \cap Time : rows' = [rows EXCEPT ![k].at = t]
  /\ UNCHANGED <<now, enabled, sub, request, tick>>

\* finalize_collection_success: the enabled subscribers' next poll counts from the
\* observation.
RunSucceeds(k) ==
  /\ rows[k].status = "active" /\ rows[k].at <= now
  /\ \A s \in tick.locked : QueryOf[s] # k.query
  /\ rows' = [rows EXCEPT ![k].status = "succeeded"]
  /\ \E observed \in rows[k].at..now :
       sub' = [s \in Subs |-> IF QueryOf[s] = k.query /\ sub[s].status = "enabled"
                              THEN [sub[s] EXCEPT !.due = observed + Interval]
                              ELSE sub[s]]
  /\ UNCHANGED <<now, enabled, request, tick>>

\* From any state: a claim error may even fail a run that succeeded.
RunFails(k) ==
  /\ rows[k].status # "failed"
  /\ rows' = [rows EXCEPT ![k].status = "failed"]
  /\ UNCHANGED <<now, enabled, sub, request, tick>>

TimePasses ==
  /\ now < Horizon
  /\ now' = now + 1
  /\ UNCHANGED <<enabled, rows, sub, request, tick>>

----------------------------------------------------------------------------
Requesting(p) ==
  \/ \E q \in Queries : Arrive(p, q)
  \/ LooksForActive(p) \/ LooksForRecentSuccess(p) \/ CountsGeneration(p) \/ LooksForProvider(p)
  \/ Inserts(p) \/ RequestFails(p)

Ticking == TickLooks \/ TickCommits \/ TickFails

Next ==
  \/ \E p \in Requests : Requesting(p)
  \/ Ticking
  \/ \E s \in Subs, on \in BOOLEAN : CreateSubscription(s, on) \/ SetEnabled(s, on)
  \/ \E s \in Subs : DeleteSubscription(s)
  \/ \E c \in Providers : SwitchProvider(c)
  \/ \E k \in DOMAIN rows : RunIsRescheduled(k) \/ RunSucceeds(k) \/ RunFails(k)
  \/ TimePasses

Spec == Init /\ [][Next]_vars

----------------------------------------------------------------------------
Keys == [kind : {"scheduled", "on_demand"}, query : Queries, bucket : Time, generation : 0..MaxRuns]

(* Type correctness. *)
TypeOK ==
  /\ now \in Time /\ enabled \subseteq Providers
  /\ DOMAIN rows \subseteq Keys
  /\ \A k \in DOMAIN rows :
       rows[k] \in [status : {"active", "succeeded", "failed"}, at : Time]
  /\ sub \in [Subs -> [status : {"absent", "paused", "enabled"}, due : Nat \cup {NoTime}]]
  /\ request \in [Requests -> [pc : {"idle", "active", "recent", "count", "provider", "insert"},
                               query : Queries, time : Time, generation : 0..MaxRuns,
                               known : SUBSET Keys]]
  /\ tick \in [pc : {"idle", "commit"}, time : Time, locked : SUBSET Subs,
               enabled : SUBSET Providers, active : SUBSET Queries]

\* The generation an on-demand request counts gives a key that no run had when the
\* request looked for an active one, though runs are rescheduled into later
\* buckets and succeed and fail between its statements.  So only a request that
\* overlaps another one can meet a conflict.
ConflictNeedsOverlap ==
  \A p \in Requests : request[p].pc = "insert" => KeyOf(p) \notin request[p].known

\* When the scheduler moves a subscription on to its next poll, the poll it leaves
\* behind is served by a run that was active when the scheduler looked, or by one
\* with the scheduler's key of this bucket.  The one exception: the provider of
\* the search was disabled when the scheduler looked.  Then the poll is dropped, nothing
\* of it is kept, and the search is next polled an interval later.
AdvancedPollsAreServed ==
  [][\A s \in Subs :
       /\ sub'[s] # sub[s]
       /\ TickCommits
       => \/ ProviderOf[QueryOf[s]] \notin tick.enabled
          \/ QueryOf[s] \in tick.active
          \/ ScheduledKey(QueryOf[s], tick.time) \in DOMAIN rows']_vars

\* The next poll is in the future, no more than an interval away, and on the grid
\* of the poll before it: a late scheduler neither drifts nor catches up in a burst.
PollsKeepTheirGrid ==
  [][\A s \in Subs :
       /\ s \in tick.locked
       /\ TickCommits
       => /\ sub'[s].due \in (tick.time + 1)..(tick.time + Interval)
          /\ (sub'[s].due - sub[s].due) % Interval = 0]_vars
=============================================================================
