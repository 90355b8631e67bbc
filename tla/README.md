# FareScope in TLA+

FareScope collects airfares: users subscribe to searches or run them on demand, a scheduler and an
API create *collection runs*, collectors drive a browser against the provider, and the results feed
price history, trends, alerts and exports.  PostgreSQL is the source of truth; Redis carries the
Celery queues, the collectors' rate gate and hints for realtime updates.

This directory holds specifications of what the server does where processes meet or where several
pieces of code must agree: what can be said about them, TLC instances that check it, and proofs that
hold for every size.

All paths below are relative to `src/server/app`.

## The system's parts

| Part | State | Operations | Hard behaviour | Correct when |
|---|---|---|---|---|
| Run lifecycle (`tasks/collection.py`, `services/collection_dispatch.py`, `services/collection_scheduler.py`, `tasks/scheduler.py`) | `collection_runs`: status, attempt, lease owner and expiry, due time | lease, publish, release, claim, renew, record, retry, recover | at-least-once delivery, late acknowledgement, dead processes, failed transactions, expiring leases | every run settles; an attempt is recorded by the collector that holds it; attempts are bounded; data is saved once |
| Run creation (`services/collection_runs.py`, `services/collection_scheduler.py`, `services/subscriptions.py`) | idempotency keys, `subscriptions.next_due_at`, `providers.enabled` | on-demand search, scheduler tick, subscribe, pause, delete | check and insert in separate statements at READ COMMITTED | searches are shared; no poll is lost unless its provider is disabled, and none drifts |
| Rate gate (`collectors/runtime/redis_gate.py`) | two sorted sets and a pace key per route | acquire, renew, release (Lua), heartbeat | lost replies, late heartbeats, cancellation | limits hold for every session that ends cleanly; capacity comes back |
| Browser and capture (`collectors/runtime/browser.py`, `capture.py`) | captures, diagnostics and tasks of one run | open, navigate, wait, drain, close | every response is read twice by tasks that end in any order; cancellation at any await | the richest answer is kept, no wake-up is lost, gaps are explained, the run ends unless the browser never answers |
| Adapter and normalization (`collectors/ctrip/adapter.py`, `services/collection_persistence.py`) | none | read an answer, place it in time, number its rows | partial answers | what is left out is reported, up to the number of reports a run keeps |
| Persistence, partitions, trends (`services/collection_persistence.py`, `db/partitions.py`, `services/daily_trends.py`, `maintenance/daily_trends.py`) | observations by month, latest snapshots, a summary per query and day, a checkpoint | save, create, archive and purge months, rebuild a day, backfill | runs that finish out of order, a purge beside readers, a restart between commit and checkpoint | a late run never replaces newer prices; a summary equals its observations; an export has its manifest |
| Reads (`services/fare_data.py`, `api/routes/fares.py`, `services/search_queries.py` and others) | cursors | search, history, calendar, latest, comparison, dashboard, pages | the same price computed in several ways; pages read while data changes | all views agree; pages are whole |
| Alerts (`services/alerts.py`, `tasks/notifications.py`) | `alert_events`, `alerts_evaluated_at` | evaluate a run | two evaluators, cooldown | once per run and rule |
| Notifications (`services/notification_delivery.py`, `domain/notification_schedule.py`) | `notification_deliveries` | claim, send, finish, defer | a send outside the transaction, stale take-overs, clocks that jump | bounded retries, repeats only for a reason, quiet hours kept |
| Exports (`services/export_*.py`, `tasks/exports.py`) | `export_jobs`, manifest, files on a shared volume | create, dispatch, claim, heartbeat, finish, delete, expire, clean up | leases, lost messages, storage pressure, files and rows out of step | a job on offer has its file, nothing is kept for nothing |
| Realtime (`services/collection_realtime.py`, the web client's connection manager) | a Redis stream, a cursor per client, users in `run_metadata` | publish, snapshot, follow, reconnect | Redis away, trimmed stream, read-modify-write | no change is missed, none is undone |
| Identity, the rest of the web client | one row at a time | | | left to the tests |

How they meet: the scheduler's tick recovers expired leases, creates runs and leases runs in one
transaction, and publishes after the commit; the API creates and leases the same way.  A message
carries a run and a dispatch token.  A collector claims the run (transaction), passes the gate
(Redis), renews its lease (transaction), drives the browser, and records the outcome (transaction):
it normalizes the answer, writes observations, snapshots and the day's trend, moves the
subscriptions' next poll, and makes the run visible to alert evaluation.  Every commit that changes a
run is followed by a hint on the realtime stream.

`PROJECT.json` lists the parts with their sources, the hazards each is exposed to, and the source
lines of every definition.

## Modules

| Module | Models |
|---|---|
| `RunLifecycle` | the abstract life of one run: absent, waiting, collecting, succeeded, failed; attempts and saved data |
| `CollectionRuns` | the run lifecycle: scheduler, API, broker, collectors |
| `CollectionRunsProofs` | theorems about `CollectionRuns` |
| `RunCreation` | which runs come into being, and the subscriptions' polls |
| `RunCreationProofs` | theorems about `RunCreation` |
| `RedisGate` | the rate gate |
| `RedisGateProofs` | theorems about `RedisGate` |
| `Capture` | one run of the browser |
| `Intake` | from the provider's answer to the rows of a run (no state of its own; used by `FareReads`) |
| `FareReads` | the queries over saved runs, with their pages |
| `AnswersProofs` | theorems about `Capture`, `Intake` and `FareReads` |
| `Observations` | saving, partitions, the trend and its backfill, pages of an export |
| `ObservationsProofs` | theorems about `Observations` |
| `ExportLife` | the abstract life of an export job |
| `Exports` | export jobs, their messages, files, workers and clean-up |
| `ExportsProofs` | theorems about the rows and the files of `Exports`, and that it implements `ExportLife` |
| `Notifications` | alert evaluation and delivery |
| `DeliverySchedule` | the next open moment of a channel |
| `NotificationsProofs` | theorems about both |
| `Realtime` | hints, connections, the browser's cursor, visibility |
| `RealtimeProofs` | theorems about `Realtime` |
| `MC*` | constants and symmetry for TLC; no definition of a specification is replaced |

Each specification also states, beside the definitions they stand in for, a few *mistakes*: a
dropped guard, an off-by-one, a missing reset.  Put in place of the definition (`mutants` in
`PROJECT.json`), each one breaks the property it is listed with.

The modules meet in shared facts.  `RunCreation`, `FareReads`, `Notifications` and `Realtime` see of a run only what
`CollectionRuns` lets happen to it (it may fail after it has succeeded, see `ClaimErrorRecorded`);
`FareReads` relies on `TrendIsExact` of `Observations` for its aggregates; a cancellation that escapes
from `RedisGate` is a `Crash` of `CollectionRuns`, and a cancellation for `Capture`.

### CollectionRuns

One action per database transaction: rows are read `FOR UPDATE` and every ownership check is made on
the locked row, so a transaction is atomic; what lies between two transactions of one task is where
the other processes act.

| Code | Specification |
|---|---|
| `status`, `attempt`, `lease_owner`, `lease_expires_at > now`, `scheduled_at <= now` | `run[r].status, .attempt, .owner, .live, .due` |
| fare rows of an attempt | `run[r].saved` (history) |
| `run_scheduler_tick`, `plan_scheduler_tick` | `Tick` |
| `ensure_on_demand_collection_run`, `dispatch_collection_run_safely` | `CreateOnDemand`, `DispatchOnDemand` |
| `publish_dispatch_leases_safely`, `release_dispatch_leases` | `PublishSucceeds`, `PublishRaises`, `ReleaseLease`, `DispatcherDies` |
| Celery over Redis, `task_acks_late`, visibility timeout | `Deliver`, `Restore`, `BrokerLoses` (external) |
| `_claim_collection_run` and the handlers around it | `ClaimAccepted`, `ClaimRefused`, `ClaimRaises`, `ClaimErrorRecorded`, `ClaimErrorLost` |
| gate, `_renew_collection_run_lease`, browser | `GateGranted`, `GateOrBrowserRaises`, `BrowserReturns`, `LeaseLost` |
| the recording branches of `run_collection_once` | `RecordSuccess`, `RecordFailure`, `RecordRaises`, `LeaseLost` |

Time is what the code compares it with.  A lease may expire, and a backoff end, at any moment, so
every relation between timeouts is covered, including unlikely ones.  A dispatch token is a value no
longer mentioned anywhere: `uuid4` never repeats, a token that nothing mentions cannot be told from
a new one.  The status `canceled` is left out (no code sets it); a provider that is disabled
refuses claims here, and keeps runs from being created in `RunCreation`.  A collector process runs one task (`--concurrency=1`, and one name per process),
which is what makes the name an acceptable lease owner.

### RunCreation

PostgreSQL runs at READ COMMITTED: each statement sees what was committed before it, so the
on-demand transaction is one action per statement, and insert with commit is one action because an
uncommitted key makes competing inserts wait.  The scheduler's transaction looks (locking its due
subscriptions) and commits.  `enabled` are the providers whose flag is set.  Nothing in the program
changes the flag (`SwitchProvider` is an operator, in the database), but both ways to create a run read
it.  An on-demand request for a disabled provider raises (`LooksForProvider`).  The scheduler passes over the
search (`Wanted`) and yet moves its subscriptions on: their polls are dropped without a trace, which
`AdvancedPollsAreServed` names as its one exception.  `known` is a history of the on-demand keys a request could have seen.  The
scheduler's advisory lock allows one tick at a time.  What `CollectionRuns` does to a run appears as
`RunIsRescheduled`, `RunSucceeds`, `RunFails`.

### RedisGate

A score is kept as the time an entry has left.  Scripts are atomic; a command may fail without
effect, or take effect and lose its reply.  `slot()` is split where it awaits: waiting, body,
leaving (awaiting the heartbeat), releasing; `cancelling` lies between the heartbeat's callback and
the cancellation arriving.  Time may pass between any two steps: nothing makes a heartbeat timely.

### Capture

There is one event loop, so all steps between two awaits are one action.  A response matched by a
rule is read by the task of `observe_response` (`.main`) and, if the debugging session could be
opened, by the task of `_capture_response_body` (`.debug`); both end in `ResponseCapture.handle`
(`Records`).  `pc` follows `PlaywrightCaptureRunner.run`: navigation, the loop of
`ResponseCapture.wait_until_terminal` (`check`, `waiting`, with `changed` for its event), the settling
pause, two drains of the debugging tasks (`drain`, once by the runner and once in `close`) around the screenshot, then
the closing of the session and the context (`detaching`) and of the browser (`quitting`).  The waits for
the page have limits (`InTime`); those for the browser to open and to close (`OfTheBrowser`) have none.
A payload is its richness; an envelope without the required keys is `Shapeless`.

### Intake and FareReads

`Intake` translates what `adapter.py` reads and leaves out of itineraries, legs, segments, offers and
calendar cells, and what the normalization of `collection_persistence.py` then places or drops, and
the reports of both, in order: stage, itinerary, leg, and the part that is left out.  `Diagnostics` are those
the run keeps, the last `MaxDiagnostics` (100 in the code, which cuts the list in
`persist_collection_payloads` and again in `run_collection_once`, after the diagnostics of the capture have been added).  An
answer's `remarks` count the reports that cost nothing of it, and `after` those that follow its
itineraries.  A segment has a fault of one of the kinds the code
tells apart; an offer is its price.

`FareReads` saves such answers and reads them.  A run that succeeds has finished when it
observed; a failure after the fact sets a new `finished_at`.  Filters are stated twice because the code states them twice
(`itinerary_filter_conditions`, `_set_based_itinerary_filter_conditions`); so is the cheapest fare of
a run: by the flag `is_lowest` when the filter needs no scan, by a scan otherwise, and over the
offers for the latest fare and for alerts.  A trend is a set of samples tagged with the statement
that yields them, so that counting one twice is visible.  A list that is read in pages is a client
(`reader`) with the moment or the run its first page fixed; `PageLimit` is 1, so every row ends a page.

### Observations

The transaction that saves a run is three actions (insert and upsert, rebuild the day, commit), with
its two kinds of waiting: on rows another transaction has upserted, and on the advisory lock of a
day.  `MaintainPartitions` is the whole maintenance transaction with its budget of actions;
the backfill checks its source, rebuilds a batch, commits, then writes its checkpoint file, and may
stop between any two.  Prices are left out: a summary is the set of runs it was computed from.

### Exports

One action per transaction, except that marking a dispatch as published is split from its commit,
because a claim skips the row it locks.  Files are `<<job, attempt>>`; `aged` is the set older than
the orphan grace.  `doubt` is a history: the finishing transaction committed and its reply was lost.
`Exports` implements `ExportLife`.

### Notifications and DeliverySchedule

An evaluation is what it reads under its run's lock, and its inserts with the commit.  A claim and a
finish are a transaction each, with the network between; `taken`, `accepted` and `lost` are histories of a
delivery.  Whether a rule holds on a run and whether a schedule is open are choices there;
`DeliverySchedule` is the calculation itself, on wall clocks with one transition.

### Realtime

`collection_run_event_stream` is split at its awaits: tail, session, snapshot, then read, check the
session, deliver.  The stream keeps all hints ever and the first that is left.  A frame lost on
the way is a connection that dropped before it.  The row's list of users is read by `FindsRun` and
written back whole by `WritesUsers`, as `run_metadata` is.

## Runs

| Run | Instance | Shows |
|---|---|---|
| `run_safety` | 1 run, 2 collectors, 2 tokens, 2 attempts | leases, budget, backoff, data saved once; refinement of `RunLifecycle`; every run settles |
| `claim_error_unfenced` | the same | a recorded claim error ends another collector's live run |
| `run_creation` | 1 search and provider, 2 subscriptions, 2 requests, at most 3 of these four and of disabled providers at once | generations of keys; polls do not drift, and are lost only while the provider is disabled |
| `redis_gate` | 2 tasks, 2 routes, limits 1 and 1, 3 tokens, leases of 2 ticks | limits, displacement, recovery, progress |
| `heartbeat_escape` | the same | a heartbeat failure that leaves as a cancellation |
| `capture` | 2 expected captures, 2 responses, payloads empty, poor or rich | no lost wake-up, the richest payload, explained gaps, an end unless the browser hangs |
| `exports` | 1 job, 2 workers, 2 publishers, 2 attempts | files and rows in step, nothing kept, refinement of `ExportLife` |
| `exports_settle` | 1 job, 1 worker, 1 publisher, 2 attempts | exports settle or are stranded in one way; clean-up happens |
| `notifications` | 2 runs, 1 rule, 1 channel, 2 evaluators, 2 senders, 2 attempts, 1 trouble; 3 zones, 13 quiet hours, 3 sets of weekdays, 28 moments | evaluated once, cooldown, repeats only for a reason; the schedule's answer |
| `observations` | 2 runs of one search, 2 keys, a second search whose subscription comes and goes | snapshots, trend, backfill, export against archiving and purging |
| `fare_reads` | 2 runs, 3 answers, 6 filters, 4 lists, 7 diagnostics | pages, agreement of the views, trends, losses explained up to the limit |
| `realtime` | 2 runs, 2 publishers, 2 users, 1 trim | the cursor is earned, nothing goes back, users lost only by overlap |

**Bounds.**  One row suffices in `CollectionRuns`: two rows meet only in the batches of a tick and in
a collector that serves one after the other, and the proofs cover any number of both.  Two attempts make a
first and a last one; two collectors and two tokens make a stale and a current holder of
each lease, which is all the ownership checks compare.  `FreshTokens` bounds the dispatches in the
air.  In `RunCreation`, `Horizon` 2 with an on-demand bucket of 2 and a scheduler bucket of 1 lets
runs move into a later bucket, which is what the keys can get wrong; `MaxRuns` 2 lets an old run of a
search meet a new one; `Crowd` 3 leaves two subscriptions and a request, or two requests and a
subscription, or two of them beside a disabled provider; an `Interval` of 2 tells a grid from an offset.  In `RedisGate` the limits are the
deployed ones, a lease of two ticks lets a renewal come early, late or too late, and three tokens let two tasks
take slots beside one entry that nobody holds any more.  In `Capture`, two responses are two answers
to one rule, or one to each.  In `Exports`, `MaxMessages` 1 still lets a message be duplicated while its job
is at work, and one worker hold a stale attempt while the other has the current one.  `MaxTrouble` 1 in
`Notifications` is one fault per behaviour: a lost answer, a death or a stall.  In `Observations` a day is two
units and a month one day, so that a behaviour of six units archives and purges; runs are observed up
to `LastEnd` 3, and a behaviour has a backfill or an export (`Together` is false: they share nothing
but the partition lock, whose only other user is the maintenance).  In `FareReads` lists are read from
`ReadAt` 2 on, between two observations of each answer; a window of 4 covers a whole day and parts of
two; `MaxTime` 5 gives a window without the first runs.  `MaxDiagnostics` is 7, as many as one of the answers
reports, so that no report of it may be lost; another has more in a search for direct flights.  `Realtime` snapshots one of two runs, the
older one changes twice, and `Sought` limits on-demand searches to it.  The schedule's moments are a
week of days of four units.

**Symmetry** is used in safety runs only (`claim_error_unfenced`, `run_creation`, `heartbeat_escape`,
`exports`, `notifications`, `realtime`); the runs that check liveness do without.

**Deadlock** is checked where the system cannot stop.  It is off where a bounded history ends: a
browser run is over, the clock has reached its bound, a schedule has been asked, no further version
or fault is left.

**Fairness.**  `FairSpec` of `CollectionRuns` assumes that Celery Beat ticks, time passes, live
processes take their next step and the broker delivers and restores messages.  It also assumes that
faults cease (`FaultsCease`): a broker that loses every message, or collectors that always die, settle
nothing before attempts run out, and a message that is lost before each claim uses up no attempt.  The expiry of a
dispatch lease while its message is under way counts as such a fault.  Nothing is assumed about which
result a browser run has, nor about on-demand requests.  `RedisGate` assumes only that time passes and
that a waiting task polls (`_wait_for_lease` loops until its deadline).  `Capture` assumes only
that the steps with a limit come (`InTime`): navigation and screenshot have the timeouts of Playwright,
the wait for captures, the settling pause and the drains those of the code.  Nothing is assumed of the page, of
responses or of bodies, nor of the browser when it opens (launch, context, page, debugging session) or
closes (`detach`, `context.close`, `browser.close`): there the code sets no limit, and Celery none for the
task.  `RunEndsOrBrowserHangs` names that exception; such a run keeps its slot of the gate, whose
heartbeat goes on.  `Exports` assumes the same things as `CollectionRuns` of its processes, and that an
export pending again and again outlives its queue timeout: that is measured from its creation, so the
maintenance pass meets it overdue in the end whatever state it was in before (strong fairness of that
step of `Settle`).

## Proofs

`CollectionRunsProofs` proves, for every set of runs, collectors and tokens, and every attempt limit and
batch size, that `CollectionRuns` keeps `TypeOK`, `NothingIsStranded`, `FenceIdentifiesAttempt`,
`SavedOnce`, `LiveLeaseIsFenced` and `NoEarlyRetry`, and that it implements `RunLifecycle`.  The
assumptions are those of `ConstantsAssumption`: positive limits; names, tokens and *no owner* differ.

None of these is inductive alone: that a collector holds the attempt it claimed needs to know what a
row's owner may be in each status, that data is saved once needs the row's attempt and status, and
that a message's row exists is needed before anything can be said of the row.  The inductive
invariant `IInv` puts them together: for each row its type, budget, owner and saved data (`RowOK`);
for each process that it has a message exactly while it is busy and that the row of that message
exists (`ProcOK`); the same for all messages (`MessagesOK`); and `FenceIdentifiesAttempt`.  The key
step (`FenceStep`) is that a collector is one process: while it is past its claim it cannot claim
again, so a step that raises the row's attempt puts another name there, and the process no longer
passes the ownership check.

Rows change through a handful of operations.  Each is shown once to keep `RowOK`, to be a step or a stutter of
`RunLifecycle`, to respect a backoff, and neither to give nor to take a live lease unless it is a
claim or a record; `AllRows` collects this for the actions.  The theorems then follow from the
invariant and these lemmas.

`RedisGateProofs` proves, for every number of collectors, routes and tokens, every limit and lease, that
no more sessions can still end cleanly than the limits allow (`LimitsHold`), and that a displaced session
never does (`DisplacedSessionsFail`).  The assumptions are those of `GateAssumption`: positive limits,
a finite set of tokens.  A bound on sessions is not inductive: it follows from a bound on the *entries* of
the sorted sets, expired or not, and from the sessions' tokens being different, which together with the
types make `IInv`.  Only an acquisition adds entries, after its purge and below the limit; every other
step takes entries away and moves one slot along its way (`QuietMove`, shown action by action).  Unharmed sessions map
one to one to entries, and `FS_Injection` compares their numbers.

`NotificationsProofs` proves, for every number of runs, rules, channels and processes, that a rule repeats
within its cooldown only on runs evaluated at the same time (`CooldownHolds`) and that every run is
evaluated once (`RunsAreEvaluatedOnce`).  `IInv` says that rows exist only together (`Marked`: a delivery
with its event, an event with the mark of its run), that evaluators under way have different runs, none
of them marked, which are rivals of each other (`Exclusive`), and that a rule about to fire has recent
events only on rivals (`FiresBesideRivals`): it had none when the evaluation began, and what is
committed since comes from evaluators that were already there or came later.  The delivery half changes
rows but neither makes nor removes any (`DeliverySteps`), so it is out of the way at once.

The same module proves that a message is repeated only for a reason (`RepeatsHaveReasons`).  A count of
acceptances is not inductive, because a sender that has not been answered may still add one.  So `MessagesInv` counts the
senders that owe a message (`Outstanding`) with the acceptances there have been, and says that a delivery that may
be claimed again has one of these, and an attempt, to spare (`Budget`): the failure before the claim gave it back.  A
claim that takes the delivery over needs none, being itself a reason.  A deleted delivery is not made again, since
its rule is gone, so a sender that still holds it can do no harm.  Besides, results must differ from *nobody*
(`NotificationsAssumption`).

Its last part proves that the schedule answers every question with the first open moment
(`NeverWaitsTooLong`), for every length of a day, every zone and every setting of a channel.  What
`DeliveryScheduleAssumption` says of them: a week has at most seven days, and no clock moves by more than a day.
The argument goes back from an open moment to the one since which the channel has been open (`OpenSince`).
There it has reached a boundary of its calendar, or the end of a gap with one inside (`OpeningBetween`), or it stands
where the clock was set back: then all it shows until the fold is over has been shown before, and was closed.
A boundary within the fifteen days that the code searches is a candidate; beyond them it is preceded by one
(`CandidateInReach`): every weekday comes twice, every day has a boundary that is not quiet (`OpenBoundary`), and
one gap cannot swallow both (`OpenWall`).

`AnswersProofs` follows an answer of the provider from its capture to what users see of it.  Its first part
proves the safety properties of `Capture`, for all rules, expected names and responses: no
wake-up is lost (`NoWakeupIsLost`), the richest payload is kept (`RichestPayloadIsKept`), gaps are
explained (`EveryGapIsExplained`).  The assumptions are those of `CaptureAssumption`.  Whatever a task of a response
does, it either records its body or leaves what is kept alone (`KindsOfSteps`), and the runner never touches what is
kept, so captures and diagnostics only grow.  The first two properties are nearly inductive: beside them stand the
types of the responses, and that one which failed carries no payload.  The third needs to look ahead: `ExplainedOK`
says of every place of the runner after its wait that what it will return is explained already, which the drains can
only confirm.

Its second part proves the four properties of `FareReads`, for all answers with whatever faults, all filters and
sets of runs, and every length of a day, a page and a trend.  The assumptions are those of `FareReadsAssumption`:
runs, filters and the offers of an itinerary are finite in number, an answer is made of sequences, and prices and
dates that are there are numbers.  The invariant is small, because the views are functions of what is saved: a saved run
keeps what it observed (`StoreOK`), and the calendar has every date of every saved run, with the run that observed it
last (`CalendarInv`).  The work is in the lemmas about the queries.

- *One price* (`OnePriceEverywhere`): the two ways to state a filter admit the same itineraries (`AdmitsSame`), although
  one looks at the first and last segment and the other at the segments that are so; and under a filter that needs no
  scan some flagged offer is as cheap as any (`FlaggedAreCheapest`).  So every query's minimum is that of `OnePrice`.
- *Whole lists* (`ListsAreWhole`): a finite set of pairs has one sequence in order, because the rank of a pair (how many
  precede it) grows along the order and takes every value (`InOrderSorts`).  `ReaderInv` says that what was read is in
  order and has all keys of the first page up to the cursor; keys are never taken away (`KeysGrow`; a failure
  after the fact does not change them), and new ones behind the cursor are the list's to miss (`PageTaken`).
- *Exact trends* (`EveryRunCountsOnce`): a run of the trend's time is in exactly one of the pieces (`Pieces`), which is a
  matter of rounding: `DayOf` and `CeilDayIs` say of the divisions all that is needed.  On an aggregated day the best
  price is the day's minimum (`DailyIsBest`).  A sum is the size of a disjoint union, so sums of sums are sums
  (`SumOfParts`), and the rows of a day put together weigh every sample alike (`PointOfRows`).
- *Explained losses* (`NothingLostInSilence`): reports are finite in number (`ReportsAreFinite`), and if they are no more
  than a run keeps, all are kept (`AllAreKept`); an itinerary then without a report has all its places read and
  placed, and its rows are those places in order (`SegmentsOf`).  Of an answer with more to report the
  theorem says nothing.

`ExportsProofs` proves, for every set of jobs, workers and publishers and every limit, that a settled job
keeps nothing (`NothingIsKeptForNothing`) and that `Exports` implements `ExportLife` (`Refinement`).  The
assumptions are those of `ExportsAssumption`.  `IInv` has three parts: `RowOK` for each row; the fence, that a
row which names a busy worker as its owner is at that worker's attempt, without which a late worker might put
the file of an old attempt on offer; and that rows locked by a mark are active, without which the mark would
publish a job that is settled.  As for the runs, each row operation is shown once to keep `RowOK` and to be a
step or a stutter of `ExportLife`; `AllRows` shows that all steps but a claim and a finish are quiet about rows.

On this rests a second part, which proves that a job on offer has its file (`ReadyJobsHaveFiles`), with the one
exception that `ReadyHasFile` names.  Four parties remove files, and `FInv` says of each why it is never that
file: busy workers have different attempts, and one whose file is on offer doubts its commit (`Distinct`,
`DoubtOK`); jobs on the lists of the clean-up, or being deleted, have left for good (`LeavingOK`); an orphan is
old, the file of a live attempt is young, and a lease once lost never comes back to the same attempt (`YoungOK`,
`Started`), so no row will ever refer to an orphan (`Unoffered`).  What the proof takes from the settings is that
the orphan grace outlasts a lease: it is the guard of `GrowsOld`, and nothing else in the model refers to time.

`RunCreationProofs` proves the type invariant and the three properties of `RunCreation`, for every set of searches,
providers, subscriptions and requests and every length of intervals and buckets: a key conflict needs an overlap
(`ConflictsNeedOverlap`), a poll left behind is served unless its provider was disabled (`PollsAreServed`), and polls stay on their grid
(`GridIsKept`).  The assumptions are those of `CreationAssumption`, among them that there is a search.  That a request never
computes a key it could have seen is an argument about numbers: a generation is a count of failed runs, so
`GenerationOK` says that *other* failed runs of the search account for the generation of each key.  A request that
goes on to insert has found every run it knows of its bucket failed (`KnownOK`), so its own count contains each of
them besides what that one counted, and is larger (`CountOK` keeps it true until the insert, because failed runs stay
failed).  The polls rest on the scheduler's row locks: nobody else moves a locked subscription (`TickOK`).

`RealtimeProofs` proves, for every number of runs, publishers and users and every length of the lists, that a cursor
is earned (`CursorsAreEarned`), that the browser never goes back (`ShownNeverGoesBack`), and when a request loses
users or notes of a run (`LossNeedsOverlap`).  The assumptions are those of `RealtimeAssumption`.  `IInv` has two halves.
`FactsOK` says of everything that carries a version, whether request, publisher or hint, that it is not ahead of the
row.  `SeenOK` follows the connection: before the snapshot the tail is a place in the stream; a snapshot that is
loaded covers every hint up to the cursor it will hand out (`LoadedOK`, which is why the tail is read first); after
that the records in hand join on to the cursor without a gap (`RecordsOK`).  A trimmed stream only takes away
obligations.  The theorem about a full list of users goes beyond the run, where two users never fill it.

`ObservationsProofs` proves, for every set of runs, keys and queries, that snapshots are newest
(`SnapshotsAreNewest`), trends exact (`TrendsAreExact`), backfills complete when they say so
(`CompleteBackfillsCover`) and exports too (`ExportsAreComplete`).  The assumptions are those of
`ObservationsAssumption`, which say of the ids of observations that they differ and of the model's *nothing* that it is
none of the things it stands for the absence of.  Two locks carry the first two.  Rows that an open transaction means to replace are nobody else's (`DecisionsOK`), so what it
decided when it inserted still holds when it commits.  Summaries that are not committed yet are of different days
(`DayLocksOK`), and their partitions stay attached (`PartitionsOK`), so what was summarized is all there is
(`SummariesOK`).

The other two are about pages.  A page is the beginning of what is left, in order, or all of it, and its last row is
before everything that remains (`PageIsPrefix`, `PageHasLast`, for any strict total order of a finite set).  So
a backfill that goes on from its cursor has covered what comes before (`CoverInv`: of its batches, of its
checkpoint after any restart, and of a trend once covered, which stays covered), for all queries that
were tracked throughout.  An export has read what comes before its cursor (`ExportInv`); what it has still to read
stays readable, because a month is not purged while an active export has it in its manifest.

Out of the prover's reach, and so only model-checked: liveness (`EveryRunSettles`, `OrphansExpire`,
`WaitingEnds`, `RunEndsOrBrowserHangs`, `SettlesOrStranded`, `CleanUpHappens`).  Every invariant and action property of a
passing run is also the statement of a theorem.

## Where the code and its documents disagree

Shown by a run:

1. `claim_error_unfenced`: `_record_unhandled_failure` is called without the lease owner after a failed
   claim, and ends whatever state the run is in.  `LiveLeaseIsFenced` states the fence with that exception.
2. `heartbeat_escape`: the heartbeat's callback cancels the task although its body has ended; the slot is not
   released and the run records nothing.  In `CollectionRuns` this is a `Crash`: the lease runs out and recovery
   takes over, so `EveryRunSettles` still holds.

Met while modelling, and written into the models as the code has them:

3. Partial data ends a run as succeeded (`tasks/collection.py:341`); `docs/PROJECT_PLAN.md:128` lists it among the
   retried outcomes.
4. Two active runs of one search can exist (the check in `services/collection_runs.py:25` and the insert are
   apart); `docs/PROJECT_PLAN.md:40` promises one.  `ConflictNeedsOverlap` says when.
5. An export whose recovered attempt was marked as published and whose message was lost is found by no query any
   more (`services/export_jobs.py:811`), although `docs/DEPLOYMENT.md:233` and `:249` promise recovery.
   `SettlesOrStranded` states it as the one exception.
6. Readers of `docs/DEPLOYMENT.md:115-127` expect realtime updates to follow subscriptions; users of on-demand
   searches see runs as well, through `run_metadata`, and can be dropped from it by an overlapping request
   (`MetadataLossNeedsOverlap`).
7. A segment that cannot be placed is reported as skipping the itinerary, which is stored without it, perhaps as a
   direct one (`services/collection_persistence.py:746-804`).  `LossIsExplained` counts the report as an explanation.
8. A failed reading of a body ends the wait for all captures although the second way may deliver the same body
   (`collectors/runtime/capture.py:213`).  `GapsAreExplained` states it as the one exception.
9. A run failed late stays in the price history, and is not in the latest fares; it is no longer evaluated for alerts if
   it was not before (`tasks/notifications.py:44`).
10. A finished export whose commit reply was lost has its file removed by its worker (`tasks/exports.py:150`);
    `ReadyHasFile` states it as the one exception.
11. The scheduler passes over a search whose provider is disabled and moves its subscriptions on all the same
    (`services/collection_scheduler.py:179`, `:74`), where `docs/PROJECT_PLAN.md:121` has it create a run for
    all that are due.  `AdvancedPollsAreServed` states it as the one exception.
12. Only the last hundred diagnostics of a run are kept (`services/collection_persistence.py:187`,
    `tasks/collection.py:356`).  With more to report, what was lost first has no diagnostic; `LossIsExplained`
    states it as the one exception.
13. Opening and closing the browser have no limit of time (`collectors/runtime/browser.py:159-180`, `:273`,
    `:331`, `:579`), unlike every other wait of a run.  `RunEndsOrBrowserHangs` states it as the one exception.

## Not modelled

- Retry and pacing arithmetic: the length of a delay decides nothing but its end, which is a choice.
- The process-local gate: development and tests only.
- How Chrome is launched and hidden, how the adapter finds its lists in a payload and reads dates, times and amounts;
  redaction; wording.
- Saved comparison views and the list of operations: single statements over the same rows.
- Identity: single transactions on single rows around cryptographic helpers.
- The web client except for its connection manager; migrations; the benchmarks under `server/performance`.

## Plan

1. Done: all modules above and their runs, and the proofs listed.
2. Proofs to follow: an abstract life of a delivery that `Notifications` implements, as there is one of runs and of
   export jobs.
3. Larger instances where the runs are near their limits of time: three attempts in `CollectionRuns`, two jobs in
   `Exports`, a backfill beside an export in `Observations`.
