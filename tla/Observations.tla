---------------------------- MODULE Observations ----------------------------
(***************************************************************************)
(* What a collection leaves behind, and everything that touches it: the    *)
(* transaction that saves a run's observations, its latest snapshots and   *)
(* its day of the trend; the maintenance of monthly partitions; the        *)
(* backfill of the trend; an export that reads page by page; and the       *)
(* dashboard, which mixes daily aggregates with raw observations.          *)
(*                                                                         *)
(* A saving transaction is three actions under READ COMMITTED: it inserts  *)
(* and upserts, it rebuilds its day, it commits.  A run has one            *)
(* observation per key (a currency and directness); prices are left out:   *)
(* an aggregate is the set of runs it summarizes, a snapshot is the run    *)
(* it came from.  A trend day survives its raw observations.               *)
(***************************************************************************)
EXTENDS Naturals, FiniteSets, FiniteSetsExt

CONSTANTS Runs, Keys, Nothing,
          Queries,        \* numbers, in the order of their ids
          QueryOf,        \* the query of each run
          RowId,          \* the id of each row <<run, key>>
          DayLength, MonthLength,   \* in units of time, in days
          ArchiveAfter, PurgeAfter, \* in months
          MaxActions,     \* collection_partition_max_actions
          BatchSize, PageSize,
          MaxTime, LastEnd,         \* bounds: the clock, the end of the last browser
          Ranges, Scopes, \* bounds: the ranges of exports and backfills
          Fleeting,       \* bound: the queries whose subscriptions come and go
          Together        \* bound: whether one behaviour may have a backfill and an export

ASSUME ObservationsAssumption ==
  /\ IsFiniteSet(Runs) /\ IsFiniteSet(Keys) /\ IsFiniteSet(Queries)
  /\ Queries \subseteq Nat /\ QueryOf \in [Runs -> Queries]
  /\ RowId \in [Runs \X Keys -> Nat]
  /\ \A x, y \in Runs \X Keys : RowId[x] = RowId[y] => x = y
  /\ {DayLength, MonthLength, MaxActions, BatchSize, PageSize} \subseteq Nat \ {0}
  /\ Fleeting \subseteq Queries /\ Together \in BOOLEAN
  /\ ArchiveAfter \in Nat \ {0} /\ PurgeAfter > ArchiveAfter /\ {MaxTime, LastEnd} \subseteq Nat
  /\ Nothing \notin Runs /\ \A runs \in SUBSET Runs : runs # Nothing
  /\ Scopes \subseteq Nat \X Nat /\ Nothing \notin Scopes

VARIABLES now,
          run,        \* [stage, at: observed_at, keys, wins, summary]
          latest,     \* the run of each latest snapshot
          partition,  \* of each month
          trend,      \* per query and day: the runs summarized, or Nothing if not covered
          tracked,    \* queries with a subscription
          backfill,   \* the maintenance command
          checkpoint, \* its file, with its scope
          job         \* an export

store == <<run, latest, trend>>
vars == <<now, store, partition, tracked, backfill, checkpoint, job>>

Times == 0..MaxTime
Day(t) == t \div DayLength
Month(t) == Day(t) \div MonthLength
Days == 0..Day(MaxTime)
Months == 0..(Month(MaxTime) + 2)

Saved == {r \in Runs : run[r].stage = "saved"}
Open == {r \in Runs : run[r].stage \in {"open", "rebuilt"}}
DayOf(r) == Day(run[r].at)
MonthOf(r) == Month(run[r].at)

IdleRun == [stage |-> "idle", at |-> 0, keys |-> {}, wins |-> {}, summary |-> {}]
IdleBackfill == [pc |-> "idle", cursor |-> Nothing, page |-> {}, summary |-> <<>>, last |-> FALSE]
NoCheckpoint == [scope |-> Nothing, cursor |-> Nothing, complete |-> FALSE]
NoJob == [status |-> "none", range |-> Nothing, manifest |-> {}, rows |-> {}, cursor |-> Nothing]

Init ==
  /\ now = 0
  /\ run = [r \in Runs |-> IdleRun]
  /\ latest = [k \in Queries \X Keys |-> Nothing]
  /\ partition = [m \in Months |-> IF m <= 2 THEN "hot" ELSE "absent"]
  /\ trend = [x \in Queries \X Days |-> Nothing]
  /\ tracked = Queries \ Fleeting
  /\ backfill = IdleBackfill
  /\ checkpoint = NoCheckpoint
  /\ job = NoJob

----------------------------------------------------------------------------
(* The transaction that saves a run.                                       *)

BrowserEnds(r, keys) ==
  /\ run[r].stage = "idle" /\ keys # {} /\ now <= LastEnd
  /\ run' = [run EXCEPT ![r].stage = "captured", ![r].at = now, ![r].keys = keys]
  /\ UNCHANGED <<now, latest, partition, trend, tracked, backfill, checkpoint, job>>

\* Mistakes that the mutation runs put in place of the definitions they are named for.
NewerAlways(r, old) == TRUE

\* The condition of the upsert of a snapshot.
Newer(r, old) == old = Nothing \/ run[old].at <= run[r].at

\* An upsert waits for the open transactions that wrote the row.
Inserts(r) ==
  /\ run[r].stage = "captured" /\ partition[MonthOf(r)] = "hot"
  /\ \A s \in Open : QueryOf[s] = QueryOf[r] => run[s].wins \cap run[r].keys = {}
  /\ run' = [run EXCEPT ![r].stage = "open",
                        ![r].wins = {k \in run[r].keys : Newer(r, latest[<<QueryOf[r], k>>])}]
  /\ UNCHANGED <<now, latest, partition, trend, tracked, backfill, checkpoint, job>>

\* Without a partition for its month the insert fails, and the transaction with it.
\* A failed run is collected again.
InsertFails(r) ==
  /\ run[r].stage = "captured" /\ partition[MonthOf(r)] # "hot"
  /\ run' = [run EXCEPT ![r] = IdleRun]
  /\ UNCHANGED <<now, latest, partition, trend, tracked, backfill, checkpoint, job>>

DayFreeAlways(query, day) == TRUE

\* The advisory lock of a query's day, held to the end of the transaction.
DayFree(query, day) ==
  /\ \A r \in Runs : run[r].stage = "rebuilt" => <<QueryOf[r], DayOf(r)>> # <<query, day>>
  /\ backfill.pc = "rebuilt" => <<query, day>> \notin backfill.page

\* The observations of a day that a statement of another transaction sees.
Visible(query, day) ==
  {r \in Saved : QueryOf[r] = query /\ DayOf(r) = day /\ partition[MonthOf(r)] = "hot"}

Rebuilds(r) ==
  /\ run[r].stage = "open" /\ DayFree(QueryOf[r], DayOf(r))
  /\ run' = [run EXCEPT ![r].stage = "rebuilt",
                        ![r].summary = Visible(QueryOf[r], DayOf(r)) \cup {r}]
  /\ UNCHANGED <<now, latest, partition, trend, tracked, backfill, checkpoint, job>>

Commits(r) ==
  /\ run[r].stage = "rebuilt"
  /\ run' = [run EXCEPT ![r].stage = "saved", ![r].wins = {}, ![r].summary = {}]
  /\ latest' = [x \in Queries \X Keys |->
                  IF x[1] = QueryOf[r] /\ x[2] \in run[r].wins THEN r ELSE latest[x]]
  /\ trend' = [x \in Queries \X Days |->
                 IF x = <<QueryOf[r], DayOf(r)>> THEN run[r].summary ELSE trend[x]]
  /\ UNCHANGED <<now, partition, tracked, backfill, checkpoint, job>>

RollsBack(r) ==
  /\ r \in Open
  /\ run' = [run EXCEPT ![r] = IdleRun]
  /\ UNCHANGED <<now, latest, partition, trend, tracked, backfill, checkpoint, job>>

----------------------------------------------------------------------------
(* Partitions.                                                             *)

\* The backfill holds the shared partition lock for its whole transaction, so the
\* maintenance is skipped meanwhile.
SharedLockHeld == backfill.pc \in {"checked", "rebuilt"}

ProtectedNever(month) == FALSE

\* An active export reads from this month.
Protected(month) ==
  /\ job.status = "active"
  /\ \E t \in Times : Month(t) = month /\ job.range[1] <= t /\ t < job.range[2]

Oldest(n, months) == {m \in months : Cardinality({x \in months : x < m}) < n}

\* One transaction: create what the near months need, purge, then archive.  A
\* partition cannot be detached under an open insert.
MaintainPartitions ==
  LET month == Month(now)
      needed == {m \in Months : m + 1 >= month /\ m <= month + 2 /\ partition[m] = "absent"}
      purged == Oldest(MaxActions, {m \in Months : /\ partition[m] = "archived"
                                                   /\ m + PurgeAfter < month
                                                   /\ ~Protected(m)})
      archived == Oldest(MaxActions - Cardinality(purged),
                         {m \in Months : partition[m] = "hot" /\ m + ArchiveAfter < month})
  IN
  /\ ~SharedLockHeld /\ needed \cup purged \cup archived # {}
  /\ \A r \in Open : MonthOf(r) \notin archived
  /\ partition' = [m \in Months |-> CASE m \in needed -> "hot"
                                      [] m \in purged -> "purged"
                                      [] m \in archived -> "archived"
                                      [] OTHER -> partition[m]]
  /\ UNCHANGED <<now, store, tracked, backfill, checkpoint, job>>

----------------------------------------------------------------------------
(* The backfill of the trend.                                              *)

\* Days of tracked queries, in the order of the keyset: the day, then the query.
Before(x, y) == x[2] < y[2] \/ (x[2] = y[2] /\ x[1] < y[1])

Left(cursor) ==
  {x \in tracked \X (checkpoint.scope[1]..checkpoint.scope[2]) :
     cursor = Nothing \/ Before(cursor, x)}

NextPage(cursor) ==
  {x \in Left(cursor) : Cardinality({y \in Left(cursor) : Before(y, x)}) < BatchSize}

LastOf(page) == CHOOSE x \in page : \A y \in page : y = x \/ Before(y, x)

\* The first invocation fixes the scope; a later one must have the same.
BackfillStarts(scope) ==
  /\ backfill.pc = "idle" /\ ~checkpoint.complete /\ (Together \/ job.status = "none")
  /\ checkpoint.scope = Nothing => scope[2] <= Day(now)
  /\ checkpoint.scope # Nothing => scope = checkpoint.scope
  /\ checkpoint' = IF checkpoint.scope = Nothing
                   THEN [checkpoint EXCEPT !.scope = scope] ELSE checkpoint
  /\ backfill' = [IdleBackfill EXCEPT !.pc = "running", !.cursor = checkpoint.cursor]
  /\ UNCHANGED <<now, store, partition, tracked, job>>

SourceIsComplete(scope) ==
  \A d \in scope[1]..scope[2] : partition[d \div MonthLength] = "hot"

BatchChecks ==
  /\ backfill.pc = "running" /\ SourceIsComplete(checkpoint.scope)
  /\ backfill' = [backfill EXCEPT !.pc = "checked"]
  /\ UNCHANGED <<now, store, partition, tracked, checkpoint, job>>

BatchIsBlocked ==
  /\ backfill.pc = "running" /\ ~SourceIsComplete(checkpoint.scope)
  /\ checkpoint' = [checkpoint EXCEPT !.cursor = backfill.cursor]
  /\ backfill' = IdleBackfill
  /\ UNCHANGED <<now, store, partition, tracked, job>>

BatchRebuilds ==
  LET page == NextPage(backfill.cursor) IN
  /\ backfill.pc = "checked" /\ \A x \in page : DayFree(x[1], x[2])
  /\ backfill' = [backfill EXCEPT !.pc = "rebuilt", !.page = page,
                                  !.summary = [x \in page |-> Visible(x[1], x[2])]]
  /\ UNCHANGED <<now, store, partition, tracked, checkpoint, job>>

ExhaustedByFullPage(page) == Cardinality(page) <= BatchSize

Exhausted(page) == Cardinality(page) < BatchSize

BatchCommits ==
  LET page == backfill.page IN
  /\ backfill.pc = "rebuilt"
  /\ trend' = [x \in Queries \X Days |-> IF x \in page THEN backfill.summary[x] ELSE trend[x]]
  /\ backfill' = [IdleBackfill EXCEPT
       !.pc = "committed", !.last = Exhausted(page),
       !.cursor = IF page = {} THEN backfill.cursor ELSE LastOf(page)]
  /\ UNCHANGED <<now, run, latest, partition, tracked, checkpoint, job>>

WritesCheckpoint ==
  /\ backfill.pc = "committed"
  /\ checkpoint' = [checkpoint EXCEPT !.cursor = backfill.cursor, !.complete = backfill.last]
  /\ backfill' = IF backfill.last THEN IdleBackfill
                 ELSE [IdleBackfill EXCEPT !.pc = "running", !.cursor = backfill.cursor]
  /\ UNCHANGED <<now, store, partition, tracked, job>>

\* It dies, or has done its max_batches.
BackfillStops ==
  /\ backfill.pc # "idle"
  /\ backfill' = IdleBackfill
  /\ UNCHANGED <<now, store, partition, tracked, checkpoint, job>>

\* The owner of a search comes or goes (bound: during the backfill, which alone asks).
Subscribe(query) ==
  /\ checkpoint.scope # Nothing /\ ~checkpoint.complete
  /\ tracked' = tracked \cup {query} /\ tracked' # tracked
  /\ UNCHANGED <<now, store, partition, backfill, checkpoint, job>>

Unsubscribe(query) ==
  /\ checkpoint.scope # Nothing /\ ~checkpoint.complete
  /\ tracked' = tracked \ {query} /\ tracked' # tracked
  /\ UNCHANGED <<now, store, partition, backfill, checkpoint, job>>

----------------------------------------------------------------------------
(* An export: its manifest of runs, and its pages.                         *)

InRange(r, range) == range[1] <= run[r].at /\ run[r].at < range[2]

Readable(month) == partition[month] \in {"hot", "archived"}

\* The creation holds the shared partition lock to its end.
CreateExport(query, range) ==
  LET manifest == {r \in Saved : QueryOf[r] = query /\ InRange(r, range)} IN
  /\ job.status = "none" /\ (Together \/ checkpoint.scope = Nothing)
  /\ \A r \in manifest : Readable(MonthOf(r))
  /\ job' = [NoJob EXCEPT !.status = "active", !.range = range, !.manifest = manifest]
  /\ UNCHANGED <<now, store, partition, tracked, backfill, checkpoint>>

RowsOf(runs) == {row \in runs \X Keys : row[2] \in run[row[1]].keys}

RowBefore(x, y) ==
  \/ run[x[1]].at < run[y[1]].at
  \/ run[x[1]].at = run[y[1]].at /\ RowId[x] < RowId[y]

\* One transaction per page, over the hot table and the archived months of the range.
ReadsPage ==
  LET left == {row \in RowsOf(job.manifest) :
                 /\ Readable(MonthOf(row[1])) /\ InRange(row[1], job.range)
                 /\ job.cursor = Nothing \/ RowBefore(job.cursor, row)}
      page == {x \in left : Cardinality({y \in left : y # x /\ ~RowBefore(x, y)}) < PageSize} IN
  /\ job.status = "active"
  /\ job' = [job EXCEPT
       !.rows = @ \cup page,
       !.cursor = IF page = {} THEN @ ELSE CHOOSE x \in page : \A y \in page : ~RowBefore(x, y),
       !.status = IF Cardinality(page) < PageSize THEN "done" ELSE @]
  /\ UNCHANGED <<now, store, partition, tracked, backfill, checkpoint>>

ExportFails ==
  /\ job.status = "active"
  /\ job' = [NoJob EXCEPT !.status = "failed"]
  /\ UNCHANGED <<now, store, partition, tracked, backfill, checkpoint>>

----------------------------------------------------------------------------
Tick ==
  /\ now < MaxTime
  /\ now' = now + 1
  /\ UNCHANGED <<store, partition, tracked, backfill, checkpoint, job>>

Next ==
  \/ \E r \in Runs, keys \in SUBSET Keys : BrowserEnds(r, keys)
  \/ \E r \in Runs : Inserts(r) \/ InsertFails(r) \/ Rebuilds(r) \/ Commits(r) \/ RollsBack(r)
  \/ MaintainPartitions
  \/ \E scope \in Scopes : BackfillStarts(scope)
  \/ BatchChecks \/ BatchIsBlocked \/ BatchRebuilds \/ BatchCommits
  \/ WritesCheckpoint \/ BackfillStops
  \/ \E query \in Fleeting : Subscribe(query) \/ Unsubscribe(query)
  \/ \E query \in Queries, range \in Ranges : CreateExport(query, range)
  \/ ReadsPage \/ ExportFails
  \/ Tick

Spec == Init /\ [][Next]_vars

----------------------------------------------------------------------------
\* However late a run commits, a latest snapshot comes from the newest saved run
\* that observed its key.
LatestIsNewest ==
  \A r \in Saved : \A k \in run[r].keys :
    LET newest == latest[<<QueryOf[r], k>>] IN
    newest \in Saved /\ run[newest].at >= run[r].at

\* A covered day summarizes every run ever saved for it, whatever rebuilt it last
\* and wherever its raw observations are by now.
TrendIsExact ==
  \A x \in Queries \X Days :
    trend[x] # Nothing => trend[x] = {r \in Saved : QueryOf[r] = x[1] /\ DayOf(r) = x[2]}

\* A backfill whose checkpoint says it is complete, through whatever crashes, has
\* covered every day of the queries that stay tracked.
CompleteBackfillCovers ==
  checkpoint.complete =>
    \A query \in Queries \ Fleeting, d \in checkpoint.scope[1]..checkpoint.scope[2] :
      trend[<<query, d>>] # Nothing

\* A finished export has every observation of its manifest, though partitions were
\* archived and purged between its pages.
ExportIsComplete == job.status = "done" => job.rows = RowsOf(job.manifest)
=============================================================================
