----------------------------- MODULE RedisGate -----------------------------
(***************************************************************************)
(* The Redis-backed gate that every collector passes before it opens a     *)
(* browser: RedisProviderRouteGate.slot and its three Lua scripts.         *)
(*                                                                         *)
(* A slot of one provider takes an entry, under a fresh owner token, in    *)
(* the provider's and in its route's sorted set; a heartbeat task renews   *)
(* both entries while the body of the slot runs.  Scores are kept as the   *)
(* time an entry has left: 0 is an expired entry that no acquisition has   *)
(* purged yet.  Scripts are atomic in Redis; a command may also fail, or   *)
(* be executed and its reply lost.                                         *)
(*                                                                         *)
(* provider  entries of the provider's sorted set: time left by token      *)
(* route     the same for each route                                       *)
(* pace      time until each route may be started again                    *)
(* slot      each task: its place in slot(), its token and route, the time *)
(*           left to acquire, whether a renewal is under way, whether an   *)
(*           error is pending, and (history) how its last visit ended      *)
(***************************************************************************)
EXTENDS Naturals, FiniteSets, Functions

CONSTANTS Slots,          \* collector tasks
          Routes, Tokens,
          NoToken,
          ProviderLimit,  \* collection_provider_concurrency
          RouteLimit,     \* collection_route_concurrency
          LeaseTTL,       \* collection_coordination_lease_ttl_seconds, in ticks
          PaceInterval,   \* collection_minimum_interval_seconds plus jitter
          AcquireTimeout  \* collection_coordination_acquire_timeout_seconds

ASSUME GateAssumption ==
  /\ {ProviderLimit, RouteLimit, LeaseTTL, AcquireTimeout} \subseteq Nat \ {0}
  /\ PaceInterval \in Nat
  /\ NoToken \notin Tokens
  /\ IsFiniteSet(Tokens) /\ Routes # {}

VARIABLES provider, route,  \* the sorted sets: the time each token has left
          pace,             \* the time left before a route may be used again
          slot              \* [pc, token, route, wait, renewing, failed, result]

vars == <<provider, route, pace, slot>>

Outside(result) ==
  [pc |-> "out", token |-> NoToken, route |-> CHOOSE r \in Routes : TRUE, wait |-> 0,
   renewing |-> FALSE, failed |-> "none", result |-> result]

NoEntries == [t \in {} |-> 0]

Init ==
  /\ provider = NoEntries
  /\ route = [r \in Routes |-> NoEntries]
  /\ pace = [r \in Routes |-> 0]
  /\ slot = [s \in Slots |-> Outside("none")]

----------------------------------------------------------------------------
(* Sorted sets.                                                            *)

Live(entries) == {t \in DOMAIN entries : entries[t] > 0}
Without(entries, t) == Restrict(entries, DOMAIN entries \ {t})

\* Mistakes that the mutation runs put in place of the definitions they are named for.
PurgedNever(entries) == entries

HasRoomForOneMore(r) ==
  /\ Cardinality(Live(provider)) <= ProviderLimit
  /\ Cardinality(Live(route[r])) < RouteLimit
  /\ pace[r] = 0

FindsNoRoomForEver(s) ==
  /\ slot[s].pc = "waiting"
  /\ Cardinality(Live(provider)) >= ProviderLimit
  /\ UNCHANGED vars

RenewableAlways(s) == TRUE

\* ZADD with a full lease, and the passing of a tick.
WithLease(entries, t) == [u \in DOMAIN entries \cup {t} |-> IF u = t THEN LeaseTTL ELSE entries[u]]
Aged(entries) == [t \in DOMAIN entries |-> IF entries[t] = 0 THEN 0 ELSE entries[t] - 1]

\* ZREMRANGEBYSCORE -inf now.
Purged(entries) == Restrict(entries, Live(entries))

\* A token that nobody has used: uuid4.
FreshTokens ==
  Tokens \ (DOMAIN provider \cup (UNION {DOMAIN route[r] : r \in Routes})
              \cup {slot[s].token : s \in Slots})

----------------------------------------------------------------------------
(* Acquiring.                                                              *)

Enter(s, r) ==
  /\ slot[s].pc = "out"
  /\ \E t \in FreshTokens :
       slot' = [slot EXCEPT ![s] = [@ EXCEPT !.pc = "waiting", !.token = t, !.route = r,
                                             !.wait = AcquireTimeout, !.result = "none"]]
  /\ UNCHANGED <<provider, route, pace>>

\* What counts against a limit: ZCARD after the purge.
Counted(entries) == DOMAIN Purged(entries)

HasRoom(r) ==
  /\ Cardinality(Counted(provider)) < ProviderLimit
  /\ Cardinality(Counted(route[r])) < RouteLimit
  /\ pace[r] = 0

\* _ACQUIRE_SCRIPT.  The token is fresh and is not tried again once an attempt has
\* succeeded or raised, so its branches for a token that is present never run.  A
\* lost reply leaves the entries behind, and the slot has failed.
Acquires(s) ==
  LET r == slot[s].route  t == slot[s].token IN
  /\ slot[s].pc = "waiting"
  /\ HasRoom(r)
  /\ provider' = WithLease(Purged(provider), t)
  /\ route' = [route EXCEPT ![r] = WithLease(Purged(@), t)]
  /\ pace' = [pace EXCEPT ![r] = PaceInterval]
  /\ slot' \in {[slot EXCEPT ![s].pc = "body"], [slot EXCEPT ![s] = Outside("coordination")]}

\* The script answers how long to wait, and has purged all the same; the slot tries
\* again until its time is up.
FindsNoRoom(s) ==
  LET r == slot[s].route IN
  /\ slot[s].pc = "waiting"
  /\ ~HasRoom(r)
  /\ provider' = Purged(provider)
  /\ route' = [route EXCEPT ![r] = Purged(@)]
  /\ slot' = IF slot[s].wait = 0 THEN [slot EXCEPT ![s] = Outside("coordination")] ELSE slot
  /\ UNCHANGED pace

AcquireUnavailable(s) ==
  /\ slot[s].pc = "waiting"
  /\ slot' = [slot EXCEPT ![s] = Outside("coordination")]
  /\ UNCHANGED <<provider, route, pace>>

----------------------------------------------------------------------------
(* The heartbeat task and the body.                                        *)

RenewalStarts(s) ==
  /\ slot[s].pc = "body" /\ ~slot[s].renewing
  /\ slot' = [slot EXCEPT ![s].renewing = TRUE]
  /\ UNCHANGED <<provider, route, pace>>

Renewable(s) ==
  slot[s].token \in Live(provider) \cap Live(route[slot[s].route])

\* _RENEW_SCRIPT on an entry that is still live.
Renews(s) ==
  LET r == slot[s].route  t == slot[s].token IN
  /\ Renewable(s)
  /\ provider' = WithLease(provider, t)
  /\ route' = [route EXCEPT ![r] = WithLease(@, t)]
  /\ UNCHANGED pace

\* _RENEW_SCRIPT too late: what is left of the entries is removed.
Removes(s) ==
  LET r == slot[s].route  t == slot[s].token IN
  /\ provider' = Without(provider, t)
  /\ route' = [route EXCEPT ![r] = Without(@, t)]
  /\ UNCHANGED pace

RenewalSucceeds(s) ==
  /\ slot[s].renewing
  /\ Renews(s)
  /\ slot' = [slot EXCEPT ![s].renewing = FALSE]

\* The lease was lost, or Redis or its reply was.  The callback of the failed
\* heartbeat cancels the task that owns the slot.  That stops the body, and the slot
\* goes on to release; but when the body has already ended and slot() itself awaits
\* the heartbeat, the cancellation ends slot() there, without release.
RenewalFails(s) ==
  /\ slot[s].renewing
  /\ \/ Renews(s)
     \/ ~Renewable(s) /\ Removes(s)
     \/ UNCHANGED <<provider, route, pace>>
  /\ slot' = [slot EXCEPT ![s] =
                IF @.pc = "body"
                THEN [@ EXCEPT !.pc = "cancelling", !.renewing = FALSE, !.failed = "coordination"]
                ELSE Outside("cancelled")]

BodyEnds(s) ==
  /\ slot[s].pc = "body"
  /\ \E failed \in {"none", "body_error"} :
       slot' = [slot EXCEPT ![s].pc = "leaving", ![s].failed = failed]
  /\ UNCHANGED <<provider, route, pace>>

\* The cancellation reaches the body, or, when the body had just ended, the release
\* that slot() has begun: the script may have run.
BodyIsCancelled(s) ==
  /\ slot[s].pc = "cancelling"
  /\ \/ /\ slot' = [slot EXCEPT ![s].pc = "releasing"]
        /\ UNCHANGED <<provider, route, pace>>
     \/ /\ slot' = [slot EXCEPT ![s] = Outside("cancelled")]
        /\ Removes(s) \/ UNCHANGED <<provider, route, pace>>

\* The heartbeat sees the stop event, unless a renewal is under way.
HeartbeatStops(s) ==
  /\ slot[s].pc = "leaving" /\ ~slot[s].renewing
  /\ slot' = [slot EXCEPT ![s].pc = "releasing"]
  /\ UNCHANGED <<provider, route, pace>>

\* _RELEASE_SCRIPT removes whatever it finds, and reports whether it found both.
Releases(s) ==
  LET held == slot[s].token \in DOMAIN provider \cap DOMAIN route[slot[s].route] IN
  /\ slot[s].pc = "releasing"
  /\ Removes(s)
  /\ slot' = [slot EXCEPT ![s] = Outside(IF @.failed # "none" THEN @.failed
                                         ELSE IF held THEN "clean" ELSE "coordination")]

ReleaseUnavailable(s) ==
  /\ slot[s].pc = "releasing"
  /\ Removes(s) \/ UNCHANGED <<provider, route, pace>>
  /\ slot' = [slot EXCEPT ![s] = Outside(IF @.failed # "none" THEN @.failed ELSE "coordination")]

\* The process dies.
Crash(s) ==
  /\ slot[s].pc # "out"
  /\ slot' = [slot EXCEPT ![s] = Outside("none")]
  /\ UNCHANGED <<provider, route, pace>>

\* Time passes for Redis and for the tasks; nothing makes a task renew in time.
Tick ==
  /\ provider' = Aged(provider)
  /\ route' = [r \in Routes |-> Aged(route[r])]
  /\ pace' = [r \in Routes |-> IF pace[r] = 0 THEN 0 ELSE pace[r] - 1]
  /\ slot' = [s \in Slots |-> IF slot[s].wait = 0 THEN slot[s] ELSE [slot[s] EXCEPT !.wait = @ - 1]]

\* A key outlives its last entry by a second.
KeyExpires ==
  \/ /\ provider # NoEntries /\ Live(provider) = {}
     /\ provider' = NoEntries
     /\ UNCHANGED <<route, pace, slot>>
  \/ /\ \E r \in Routes : /\ route[r] # NoEntries /\ Live(route[r]) = {}
                         /\ route' = [route EXCEPT ![r] = NoEntries]
     /\ UNCHANGED <<provider, pace, slot>>

----------------------------------------------------------------------------
Polls(s) == Acquires(s) \/ FindsNoRoom(s)

Acquiring(s) == Polls(s) \/ AcquireUnavailable(s)

Beating(s) == RenewalStarts(s) \/ RenewalSucceeds(s) \/ RenewalFails(s)

Leaving(s) ==
  BodyEnds(s) \/ BodyIsCancelled(s) \/ HeartbeatStops(s) \/ Releases(s) \/ ReleaseUnavailable(s)

Next ==
  \/ \E s \in Slots, r \in Routes : Enter(s, r)
  \/ \E s \in Slots : Acquiring(s) \/ Beating(s) \/ Leaving(s) \/ Crash(s)
  \/ Tick \/ KeyExpires

Spec == Init /\ [][Next]_vars

\* Time passes, and a waiting task keeps polling.
Fairness == WF_vars(Tick) /\ \A s \in Slots : WF_vars(Polls(s))

FairSpec == Spec /\ Fairness

----------------------------------------------------------------------------
\* Sessions that can still end cleanly: the slot has not failed, and its entries are
\* in both sets, though perhaps expired.
Unharmed ==
  {s \in Slots : /\ slot[s].pc \in {"body", "leaving", "releasing"}
                 /\ slot[s].failed # "coordination"
                 /\ slot[s].token \in DOMAIN provider \cap DOMAIN route[slot[s].route]}

\* A stalled heartbeat, a lost reply or a crash never leaves more unharmed sessions
\* than the limits allow, for the provider and for each route: whoever is
\* displaced will fail.
UnharmedWithinLimits ==
  /\ Cardinality(Unharmed) <= ProviderLimit
  /\ \A r \in Routes : Cardinality({s \in Unharmed : slot[s].route = r}) <= RouteLimit

\* A session that was displaced stays displaced, and does not end cleanly: no renewal
\* brings back an entry that somebody else's acquisition has purged.
DisplacedFails ==
  [][\A s \in Slots :
       /\ slot[s].pc \in {"body", "leaving", "releasing"}
       /\ s \notin Unharmed
       => s \notin Unharmed' /\ slot'[s].result # "clean"]_vars

\* The entry of a lost process, or of a lost reply, does not count against the limit
\* for ever.
OrphansExpire ==
  \A t \in Tokens :
    (t \in Counted(provider) /\ \A s \in Slots : slot[s].token # t)
      ~> t \notin Counted(provider)

\* Nobody waits for ever.
WaitingEnds == \A s \in Slots : slot[s].pc = "waiting" ~> slot[s].pc # "waiting"

\* docs/PROJECT_PLAN.md:136-138, a coordination failure cancels the browser task and
\* the run enters its retry schedule: it leaves the gate as a coordination error.
HeartbeatFailureIsReported == \A s \in Slots : slot[s].result # "cancelled"
=============================================================================
