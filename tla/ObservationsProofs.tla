------------------------- MODULE ObservationsProofs -------------------------
(***************************************************************************)
(* Proofs about Observations, for every set of runs, keys and queries.     *)
(*                                                                         *)
(* Two locks carry them.  The row lock of an upsert: transactions that are *)
(* open for one query never mean to replace the same snapshot, so what one *)
(* decided when it inserted is still right when it commits.  The advisory  *)
(* lock of a day: no run of a day is saved between a rebuild of that day   *)
(* and its commit, and the partitions that the rebuild reads stay attached *)
(* meanwhile, so what was summarized is all there is.                      *)
(***************************************************************************)
EXTENDS Observations, FiniteSetTheorems, TLAPS

RunState ==
  [stage : {"idle", "captured", "open", "rebuilt", "saved"}, at : Times,
   keys : SUBSET Keys, wins : SUBSET Keys, summary : SUBSET Runs]

Latest(r, k) == latest[<<QueryOf[r], k>>]

\* The runs that the day of a query should summarize.
SavedOn(query, day) == {r \in Saved : QueryOf[r] = query /\ DayOf(r) = day}

RunsOK == now \in Times /\ run \in [Runs -> RunState]

LatestOK ==
  /\ latest \in [Queries \X Keys -> Runs \cup {Nothing}]
  /\ \A x \in Queries \X Keys : latest[x] # Nothing => latest[x] \in Saved

\* What an open transaction decided about a snapshot is still right.
Decided(r, k) ==
  IF k \in run[r].wins
  THEN Latest(r, k) = Nothing \/ run[Latest(r, k)].at <= run[r].at
  ELSE Latest(r, k) # Nothing /\ run[Latest(r, k)].at >= run[r].at

DecisionsOK ==
  /\ \A r \in Open : \A k \in run[r].keys : Decided(r, k)
  /\ \A r, s \in Open : r # s /\ QueryOf[r] = QueryOf[s] => run[r].wins \cap run[s].wins = {}
  /\ \A r \in Open : run[r].wins \subseteq run[r].keys

SnapshotInv == LatestOK /\ DecisionsOK /\ LatestIsNewest

\* The partitions that open transactions and a batch of the backfill read.
PartitionsOK ==
  /\ \A r \in Open : partition[MonthOf(r)] = "hot"
  /\ SharedLockHeld => SourceIsComplete(checkpoint.scope)

Rebuilt == {r \in Runs : run[r].stage = "rebuilt"}

DayLocksOK ==
  /\ \A r, s \in Rebuilt : r # s => <<QueryOf[r], DayOf(r)>> # <<QueryOf[s], DayOf(s)>>
  /\ backfill.pc = "rebuilt" => \A r \in Rebuilt : <<QueryOf[r], DayOf(r)>> \notin backfill.page

SummariesOK ==
  /\ \A r \in Rebuilt : run[r].summary = SavedOn(QueryOf[r], DayOf(r)) \cup {r}
  /\ backfill.pc = "rebuilt" =>
       \A x \in backfill.page : backfill.summary[x] = SavedOn(x[1], x[2])

BackfillShape ==
  /\ DOMAIN backfill = {"pc", "cursor", "page", "summary", "last"}
  /\ backfill.pc = "rebuilt" => \A x \in backfill.page : x = <<x[1], x[2]>>

TrendInv == BackfillShape /\ PartitionsOK /\ DayLocksOK /\ SummariesOK /\ TrendIsExact

IInv == RunsOK /\ SnapshotInv /\ TrendInv

----------------------------------------------------------------------------
LEMMA Numbers ==
  /\ QueryOf \in [Runs -> Queries] /\ Nothing \notin Runs
  /\ MaxTime \in Nat /\ DayLength \in Nat \ {0} /\ MonthLength \in Nat \ {0}
  /\ Times \subseteq Nat
BY ObservationsAssumption DEF Times

LEMMA Quotients ==
  ASSUME NEW a \in Nat, NEW b \in Nat, a <= b, NEW l \in Nat \ {0}
  PROVE  a \div l \in Nat /\ b \div l \in Nat /\ a \div l <= b \div l
<1>1. /\ a \div l \in Nat /\ (a \div l) * l <= a
      /\ b \div l \in Nat /\ b < (b \div l) * l + l
  OBVIOUS
<1>2. ASSUME a \div l > b \div l PROVE FALSE
  <2>1. PICK x \in Nat, y \in Nat : x = a \div l /\ y = b \div l
    BY <1>1
  <2>2. x >= y + 1 /\ x * l <= a /\ b < y * l + l
    BY <1>1, <1>2, <2>1
  <2>3. x * l >= (y + 1) * l /\ (y + 1) * l = y * l + l
    BY <2>2
  <2> QED  BY <2>2, <2>3
<1> QED  BY <1>1, <1>2

LEMMA InTime ==
  ASSUME NEW t \in Times PROVE Day(t) \in Days /\ Month(t) \in Months
<1>1. t \in Nat /\ t <= MaxTime
  BY Numbers DEF Times
<1>2. Day(t) \in Nat /\ Day(MaxTime) \in Nat /\ Day(t) <= Day(MaxTime)
  BY <1>1, Numbers, Quotients DEF Day
<1>3. Month(t) \in Nat /\ Month(MaxTime) \in Nat /\ Month(t) <= Month(MaxTime)
  BY <1>2, Numbers, Quotients DEF Month
<1> QED  BY <1>2, <1>3 DEF Days, Months

LEMMA InitIInv == Init => IInv
<1> SUFFICES ASSUME Init PROVE IInv
  OBVIOUS
<1>1. /\ now = 0 /\ run = [r \in Runs |-> IdleRun] /\ \A r \in Runs : run[r].stage = "idle"
      /\ backfill = IdleBackfill
  BY DEF Init, IdleRun
<1>2. Saved = {} /\ Open = {} /\ Rebuilt = {}
  BY <1>1 DEF Saved, Open, Rebuilt
<1>3. RunsOK
  BY <1>1, Numbers DEF RunsOK, RunState, IdleRun, Times
<1>4. SnapshotInv
  BY <1>2 DEF Init, SnapshotInv, LatestOK, DecisionsOK, LatestIsNewest
<1>5. backfill.pc = "idle" /\ BackfillShape
  BY <1>1 DEF IdleBackfill, BackfillShape
<1>6. PartitionsOK /\ DayLocksOK /\ SummariesOK
  BY <1>2, <1>5 DEF PartitionsOK, SharedLockHeld, DayLocksOK, SummariesOK
<1>7. TrendIsExact
  BY DEF Init, TrendIsExact
<1> QED  BY <1>3, <1>4, <1>5, <1>6, <1>7 DEF IInv, TrendInv

----------------------------------------------------------------------------
(* What the steps of a run do to its record.                               *)

OneRunChanges(r, x) ==
  x \in RunState /\ run' = [run EXCEPT ![r] = x]

LEMMA RunSteps ==
  ASSUME RunsOK, NEW r \in Runs
  PROVE  /\ \A keys \in SUBSET Keys : BrowserEnds(r, keys) =>
              \E x : /\ OneRunChanges(r, x) /\ x.stage = "captured" /\ run[r].stage = "idle"
         /\ Inserts(r) =>
              \E x : /\ OneRunChanges(r, x) /\ x.stage = "open" /\ run[r].stage = "captured"
                     /\ x.at = run[r].at /\ x.keys = run[r].keys
                     /\ x.wins = {k \in run[r].keys : Newer(r, Latest(r, k))}
         /\ InsertFails(r) =>
              \E x : OneRunChanges(r, x) /\ x.stage = "idle" /\ run[r].stage = "captured"
         /\ Rebuilds(r) =>
              \E x : /\ OneRunChanges(r, x) /\ x.stage = "rebuilt" /\ run[r].stage = "open"
                     /\ x.at = run[r].at /\ x.keys = run[r].keys /\ x.wins = run[r].wins
                     /\ x.summary = Visible(QueryOf[r], DayOf(r)) \cup {r}
         /\ Commits(r) =>
              \E x : /\ OneRunChanges(r, x) /\ x.stage = "saved" /\ run[r].stage = "rebuilt"
                     /\ x.at = run[r].at /\ x.keys = run[r].keys
         /\ RollsBack(r) =>
              \E x : OneRunChanges(r, x) /\ x.stage = "idle" /\ run[r].stage \in {"open", "rebuilt"}
<1>1. run \in [Runs -> RunState] /\ run[r] \in RunState /\ now \in Times
  BY DEF RunsOK
<1>2. IdleRun \in RunState /\ IdleRun.stage = "idle"
  BY Numbers DEF IdleRun, RunState, Times
<1>3. ASSUME NEW keys \in SUBSET Keys, BrowserEnds(r, keys)
      PROVE  \E x : OneRunChanges(r, x) /\ x.stage = "captured" /\ run[r].stage = "idle"
  <2>1. PICK x : x = [run[r] EXCEPT !.stage = "captured", !.at = now, !.keys = keys]
    OBVIOUS
  <2>2. x \in RunState /\ x.stage = "captured"
    BY <1>1, <2>1 DEF RunState
  <2>3. run' = [run EXCEPT ![r] = x] /\ run[r].stage = "idle"
    BY <1>1, <1>3, <2>1 DEF BrowserEnds
  <2> QED  BY <2>2, <2>3 DEF OneRunChanges
<1>4. ASSUME Inserts(r)
      PROVE  \E x : /\ OneRunChanges(r, x) /\ x.stage = "open" /\ run[r].stage = "captured"
                    /\ x.at = run[r].at /\ x.keys = run[r].keys
                    /\ x.wins = {k \in run[r].keys : Newer(r, Latest(r, k))}
  <2> DEFINE wins == {k \in run[r].keys : Newer(r, Latest(r, k))}
  <2>1. wins \in SUBSET Keys
    BY <1>1 DEF RunState
  <2>2. run' = [run EXCEPT ![r].stage = "open", ![r].wins = wins] /\ run[r].stage = "captured"
    BY <1>4 DEF Inserts, Latest
  <2> HIDE DEF wins
  <2>3. PICK x : x = [run[r] EXCEPT !.stage = "open", !.wins = wins]
    OBVIOUS
  <2>4. x \in RunState /\ x.stage = "open" /\ x.at = run[r].at /\ x.keys = run[r].keys /\ x.wins = wins
    BY <1>1, <2>1, <2>3 DEF RunState
  <2>5. run' = [run EXCEPT ![r] = x]
    BY <1>1, <2>2, <2>3
  <2> QED  BY <2>2, <2>4, <2>5 DEF OneRunChanges, wins
<1>5. ASSUME InsertFails(r)
      PROVE  \E x : OneRunChanges(r, x) /\ x.stage = "idle" /\ run[r].stage = "captured"
  BY <1>2, <1>5 DEF InsertFails, OneRunChanges
<1>6. ASSUME Rebuilds(r)
      PROVE  \E x : /\ OneRunChanges(r, x) /\ x.stage = "rebuilt" /\ run[r].stage = "open"
                    /\ x.at = run[r].at /\ x.keys = run[r].keys /\ x.wins = run[r].wins
                    /\ x.summary = Visible(QueryOf[r], DayOf(r)) \cup {r}
  <2> DEFINE summary == Visible(QueryOf[r], DayOf(r)) \cup {r}
  <2>1. summary \in SUBSET Runs
    BY DEF Visible, Saved
  <2>2. run' = [run EXCEPT ![r].stage = "rebuilt", ![r].summary = summary] /\ run[r].stage = "open"
    BY <1>6 DEF Rebuilds
  <2> HIDE DEF summary
  <2>3. PICK x : x = [run[r] EXCEPT !.stage = "rebuilt", !.summary = summary]
    OBVIOUS
  <2>4. /\ x \in RunState /\ x.stage = "rebuilt" /\ x.at = run[r].at /\ x.keys = run[r].keys
        /\ x.wins = run[r].wins /\ x.summary = summary
    BY <1>1, <2>1, <2>3 DEF RunState
  <2>5. run' = [run EXCEPT ![r] = x]
    BY <1>1, <2>2, <2>3
  <2> QED  BY <2>2, <2>4, <2>5 DEF OneRunChanges, summary
<1>7. ASSUME Commits(r)
      PROVE  \E x : /\ OneRunChanges(r, x) /\ x.stage = "saved" /\ run[r].stage = "rebuilt"
                    /\ x.at = run[r].at /\ x.keys = run[r].keys
  <2>1. PICK x : x = [run[r] EXCEPT !.stage = "saved", !.wins = {}, !.summary = {}]
    OBVIOUS
  <2>2. x \in RunState /\ x.stage = "saved" /\ x.at = run[r].at /\ x.keys = run[r].keys
    BY <1>1, <2>1 DEF RunState
  <2>3. run' = [run EXCEPT ![r] = x] /\ run[r].stage = "rebuilt"
    BY <1>1, <1>7, <2>1 DEF Commits
  <2> QED  BY <2>2, <2>3 DEF OneRunChanges
<1>8. ASSUME RollsBack(r)
      PROVE  \E x : OneRunChanges(r, x) /\ x.stage = "idle" /\ run[r].stage \in {"open", "rebuilt"}
  BY <1>2, <1>8 DEF RollsBack, Open, OneRunChanges
<1> QED  BY <1>3, <1>4, <1>5, <1>6, <1>7, <1>8

\* The sets of runs by stage, when one run changes.
LEMMA ChangedRun ==
  ASSUME RunsOK, NEW r \in Runs, NEW x, OneRunChanges(r, x)
  PROVE  /\ run' \in [Runs -> RunState] /\ run'[r] = x
         /\ \A s \in Runs : s # r => run'[s] = run[s]
         /\ Saved' = IF x.stage = "saved" THEN Saved \cup {r} ELSE Saved \ {r}
         /\ Open' = IF x.stage \in {"open", "rebuilt"} THEN Open \cup {r} ELSE Open \ {r}
         /\ Rebuilt' = IF x.stage = "rebuilt" THEN Rebuilt \cup {r} ELSE Rebuilt \ {r}
BY DEF RunsOK, OneRunChanges, Saved, Open, Rebuilt

----------------------------------------------------------------------------
(* Latest snapshots.                                                       *)

\* Nothing is saved, and no transaction begins.
Quiet ==
  /\ Saved' = Saved /\ latest' = latest /\ Open' \subseteq Open
  /\ \A r \in Saved \cup Open' :
       run'[r].at = run[r].at /\ run'[r].keys = run[r].keys /\ (r \in Open' => run'[r].wins = run[r].wins)

LEMMA KeyTypes ==
  ASSUME RunsOK, NEW r \in Runs
  PROVE  /\ run[r] \in RunState /\ run[r].at \in Nat /\ run[r].keys \in SUBSET Keys
         /\ QueryOf[r] \in Queries /\ \A k \in run[r].keys : <<QueryOf[r], k>> \in Queries \X Keys
BY Numbers DEF RunsOK, RunState

LEMMA QuietSnapshots == ASSUME RunsOK, SnapshotInv, Quiet PROVE SnapshotInv'
<1> USE DEF SnapshotInv
<1>1. LatestOK'
  BY DEF LatestOK, Quiet
<1>2. LatestIsNewest'
  BY DEF LatestIsNewest, Quiet
<1>3. ASSUME NEW r \in Open', NEW k \in run'[r].keys PROVE Decided(r, k)'
  <2>1. r \in Open /\ r \in Runs /\ k \in run[r].keys /\ Decided(r, k)
    BY <1>3 DEF Quiet, DecisionsOK, Open
  <2>2. <<QueryOf[r], k>> \in Queries \X Keys
    BY <2>1, KeyTypes
  <2>3. Latest(r, k) # Nothing => Latest(r, k) \in Saved
    BY <2>2 DEF LatestOK, Latest
  <2> QED  BY <1>3, <2>1, <2>3 DEF Decided, Quiet, Latest
<1>4. DecisionsOK'
  BY <1>3 DEF DecisionsOK, Quiet
<1> QED  BY <1>1, <1>2, <1>4

\* An insert decides from what is committed, once the rows it means to win are free.
LEMMA InsertSnapshots ==
  ASSUME RunsOK, SnapshotInv, NEW r \in Runs, Inserts(r) PROVE SnapshotInv'
<1> USE DEF SnapshotInv
<1>1. PICK x : /\ OneRunChanges(r, x) /\ x.stage = "open" /\ run[r].stage = "captured"
               /\ x.at = run[r].at /\ x.keys = run[r].keys
               /\ x.wins = {k \in run[r].keys : Newer(r, Latest(r, k))}
  BY RunSteps
<1>2. /\ run'[r] = x /\ \A s \in Runs : s # r => run'[s] = run[s]
      /\ Saved' = Saved /\ Open' = Open \cup {r} /\ r \notin Open /\ r \notin Saved
      /\ latest' = latest /\ Saved \subseteq Runs /\ Open \subseteq Runs
  BY <1>1, ChangedRun DEF Saved, Open, Inserts
<1>3. LatestOK' /\ LatestIsNewest'
  <2>1. \A s \in Saved : run'[s] = run[s]
    BY <1>2
  <2> QED  BY <1>2, <2>1 DEF LatestOK, LatestIsNewest
<1>4. ASSUME NEW s \in Open', NEW k \in run'[s].keys PROVE Decided(s, k)'
  <2>1. s \in Runs /\ k \in run[s].keys /\ <<QueryOf[s], k>> \in Queries \X Keys
    BY <1>1, <1>2, <1>4, KeyTypes
  <2>2. Latest(s, k) # Nothing => Latest(s, k) \in Saved /\ run'[Latest(s, k)] = run[Latest(s, k)]
                                  /\ run[Latest(s, k)].at \in Nat
    BY <1>2, <2>1, KeyTypes DEF LatestOK, Latest
  <2>3. CASE s = r
    BY <1>1, <1>2, <2>1, <2>2, <2>3, KeyTypes DEF Decided, Latest, Newer
  <2>4. CASE s # r
    <3>1. s \in Open /\ run'[s] = run[s] /\ Decided(s, k)
      BY <1>2, <1>4, <2>1, <2>4 DEF DecisionsOK
    <3> QED  BY <1>2, <2>2, <3>1 DEF Decided, Latest
  <2> QED  BY <2>3, <2>4
<1>5. ASSUME NEW s \in Open, QueryOf[s] = QueryOf[r] PROVE run[s].wins \cap x.wins = {}
  BY <1>1, <1>5 DEF Inserts
<1>6. DecisionsOK'
  <2>1. \A s, t \in Open' : s # t /\ QueryOf[s] = QueryOf[t] => run'[s].wins \cap run'[t].wins = {}
    BY <1>2, <1>5 DEF DecisionsOK
  <2>2. \A s \in Open' : run'[s].wins \subseteq run'[s].keys
    BY <1>1, <1>2 DEF DecisionsOK
  <2> QED  BY <1>4, <2>1, <2>2 DEF DecisionsOK
<1> QED  BY <1>3, <1>6

\* A commit replaces the snapshots that nobody else means to replace.
LEMMA CommitSnapshots ==
  ASSUME RunsOK, SnapshotInv, NEW r \in Runs, Commits(r) PROVE SnapshotInv'
<1> USE DEF SnapshotInv
<1>1. PICK x : /\ OneRunChanges(r, x) /\ x.stage = "saved" /\ run[r].stage = "rebuilt"
               /\ x.at = run[r].at /\ x.keys = run[r].keys
  BY RunSteps
<1>2. /\ run'[r] = x /\ \A s \in Runs : s # r => run'[s] = run[s]
      /\ Saved' = Saved \cup {r} /\ Open' = Open \ {r} /\ r \in Open /\ r \notin Saved
      /\ Saved \subseteq Runs /\ Open \subseteq Runs
      /\ \A s \in Saved \cup {r} : run'[s].at = run[s].at /\ run'[s].keys = run[s].keys
  BY <1>1, ChangedRun DEF Saved, Open
<1>3. latest' = [y \in Queries \X Keys |->
                   IF y[1] = QueryOf[r] /\ y[2] \in run[r].wins THEN r ELSE latest[y]]
  BY DEF Commits
<1>4. LatestOK'
  BY <1>2, <1>3 DEF LatestOK
<1>5. ASSUME NEW s \in Runs, NEW k \in run[s].keys
      PROVE  Latest(s, k)' = IF QueryOf[s] = QueryOf[r] /\ k \in run[r].wins THEN r ELSE Latest(s, k)
  BY <1>3, <1>5, KeyTypes DEF Latest
<1>6. ASSUME NEW s \in Runs, NEW k \in run[s].keys, Latest(s, k) # Nothing
      PROVE  /\ Latest(s, k) \in Saved /\ run[Latest(s, k)].at \in Nat
             /\ run'[Latest(s, k)].at = run[Latest(s, k)].at
  <2>1. Latest(s, k) \in Saved
    BY <1>6, KeyTypes DEF LatestOK, Latest
  <2> QED  BY <1>2, <2>1, KeyTypes
<1>7. ASSUME NEW s \in Runs, NEW k \in run[s].keys, QueryOf[s] = QueryOf[r], k \in run[r].wins
      PROVE  Latest(s, k) = Nothing \/ run[Latest(s, k)].at <= run[r].at
  <2>1. k \in run[r].keys /\ Decided(r, k)
    BY <1>2, <1>7 DEF DecisionsOK
  <2> QED  BY <1>7, <2>1 DEF Decided, Latest
<1>8. LatestIsNewest'
  <2> SUFFICES ASSUME NEW s \in Saved', NEW k \in run'[s].keys
               PROVE  Latest(s, k)' \in Saved' /\ run'[Latest(s, k)'].at >= run'[s].at
    BY DEF LatestIsNewest, Latest
  <2>1. s \in Runs /\ k \in run[s].keys /\ run'[s].at = run[s].at /\ run[s].at \in Nat
        /\ run'[r].at = run[r].at /\ run[r].at \in Nat
    BY <1>2, KeyTypes
  <2>2. CASE s = r
    <3>1. CASE k \in run[r].wins
      BY <1>2, <1>5, <2>1, <2>2, <3>1
    <3>2. CASE k \notin run[r].wins
      <4>1. Latest(r, k) # Nothing /\ run[Latest(r, k)].at >= run[r].at
        BY <1>2, <2>1, <2>2, <3>2 DEF DecisionsOK, Decided
      <4> QED  BY <1>2, <1>5, <1>6, <2>1, <2>2, <3>2, <4>1
    <3> QED  BY <3>1, <3>2
  <2>3. CASE s # r
    <3>1. Latest(s, k) \in Saved /\ run[Latest(s, k)].at >= run[s].at
      BY <1>2, <2>1, <2>3 DEF LatestIsNewest, Latest
    <3>2. Latest(s, k) # Nothing
      BY <1>2, <3>1, Numbers
    <3> QED  BY <1>2, <1>5, <1>6, <1>7, <2>1, <3>1, <3>2
  <2> QED  BY <2>2, <2>3
<1>9. DecisionsOK'
  <2>1. ASSUME NEW s \in Open', NEW k \in run'[s].keys PROVE Decided(s, k)'
    <3>1. s \in Runs /\ s \in Open /\ s # r /\ run'[s] = run[s] /\ k \in run[s].keys /\ Decided(s, k)
          /\ run[s].at \in Nat /\ run[r].at \in Nat
      BY <1>2, <2>1, KeyTypes DEF DecisionsOK
    <3>2. CASE QueryOf[s] = QueryOf[r] /\ k \in run[r].wins
      <4>1. k \notin run[s].wins
        BY <1>2, <3>1, <3>2 DEF DecisionsOK
      <4>2. Latest(s, k) # Nothing /\ run[Latest(s, k)].at >= run[s].at
        BY <3>1, <4>1 DEF Decided
      <4>3. run[Latest(s, k)].at <= run[r].at
        BY <1>7, <3>1, <3>2, <4>2
      <4>4. run[Latest(s, k)].at \in Nat /\ run'[r].at = run[r].at /\ r # Nothing
        BY <1>2, <1>6, <3>1, <4>2, Numbers
      <4>5. Latest(s, k)' = r
        BY <1>5, <3>1, <3>2
      <4> QED  BY <3>1, <4>1, <4>2, <4>3, <4>4, <4>5 DEF Decided
    <3>3. CASE ~(QueryOf[s] = QueryOf[r] /\ k \in run[r].wins)
      <4>1. Latest(s, k)' = Latest(s, k)
        BY <1>5, <3>1, <3>3
      <4> QED  BY <1>6, <3>1, <4>1 DEF Decided
    <3> QED  BY <3>2, <3>3
  <2>2. \A s \in Open' : s \in Open /\ run'[s] = run[s]
    BY <1>2
  <2> QED  BY <2>1, <2>2 DEF DecisionsOK
<1> QED  BY <1>4, <1>8, <1>9

Backfilling ==
  \/ \E scope \in Scopes : BackfillStarts(scope)
  \/ BatchChecks \/ BatchIsBlocked \/ BatchRebuilds \/ BatchCommits
  \/ WritesCheckpoint \/ BackfillStops

\* The steps that leave the runs and the trend alone.
Elsewhere ==
  \/ MaintainPartitions
  \/ \E query \in Fleeting : Subscribe(query) \/ Unsubscribe(query)
  \/ \E query \in Queries, range \in Ranges : CreateExport(query, range)
  \/ ReadsPage \/ ExportFails \/ Tick

LEMMA StillRuns == ASSUME Backfilling \/ Elsewhere \/ UNCHANGED vars PROVE UNCHANGED <<run, latest>>
BY DEF Backfilling, Elsewhere, BackfillStarts, BatchChecks, BatchIsBlocked, BatchRebuilds, BatchCommits,
       WritesCheckpoint, BackfillStops, MaintainPartitions, Subscribe, Unsubscribe, CreateExport,
       ReadsPage, ExportFails, Tick, store, vars

LEMMA NextRuns == ASSUME IInv, [Next]_vars PROVE RunsOK'
<1>1. now' \in Times
  <2>1. CASE Tick
    BY <2>1, Numbers DEF IInv, RunsOK, Times, Tick
  <2>2. CASE now' = now
    BY <2>2 DEF IInv, RunsOK
  <2> QED
    BY <2>1, <2>2
    DEF Next, BrowserEnds, Inserts, InsertFails, Rebuilds, Commits, RollsBack,
        BackfillStarts, BatchChecks, BatchIsBlocked, BatchRebuilds, BatchCommits,
        WritesCheckpoint, BackfillStops, MaintainPartitions, Subscribe, Unsubscribe, CreateExport,
        ReadsPage, ExportFails, store, vars
<1>2. run' \in [Runs -> RunState]
  <2>1. CASE UNCHANGED run
    BY <2>1 DEF IInv, RunsOK
  <2>2. CASE \E r \in Runs : \E x : OneRunChanges(r, x)
    BY <2>2, ChangedRun DEF IInv
  <2> QED
    BY <2>1, <2>2, StillRuns, RunSteps DEF Next, Backfilling, Elsewhere, IInv
<1> QED  BY <1>1, <1>2 DEF RunsOK

LEMMA NextSnapshots == ASSUME IInv, [Next]_vars PROVE SnapshotInv'
<1> USE DEF IInv
<1>1. ASSUME NEW r \in Runs,
             \/ \E keys \in SUBSET Keys : BrowserEnds(r, keys)
             \/ InsertFails(r) \/ Rebuilds(r) \/ RollsBack(r)
      PROVE  Quiet
  <2>1. PICK x : /\ OneRunChanges(r, x) /\ x.stage # "saved" /\ run[r].stage # "saved"
                 /\ x.stage \in {"open", "rebuilt"} =>
                      /\ run[r].stage = "open" /\ x.at = run[r].at /\ x.keys = run[r].keys
                      /\ x.wins = run[r].wins
    <3>1. CASE \E keys \in SUBSET Keys : BrowserEnds(r, keys)
      <4>1. PICK x : OneRunChanges(r, x) /\ x.stage = "captured" /\ run[r].stage = "idle"
        BY <3>1, RunSteps
      <4> QED  BY <4>1
    <3>2. CASE InsertFails(r)
      <4>1. PICK x : OneRunChanges(r, x) /\ x.stage = "idle" /\ run[r].stage = "captured"
        BY <3>2, RunSteps
      <4> QED  BY <4>1
    <3>3. CASE Rebuilds(r)
      <4>1. PICK x : /\ OneRunChanges(r, x) /\ x.stage = "rebuilt" /\ run[r].stage = "open"
                     /\ x.at = run[r].at /\ x.keys = run[r].keys /\ x.wins = run[r].wins
        BY <3>3, RunSteps
      <4> QED  BY <4>1
    <3>4. CASE RollsBack(r)
      <4>1. PICK x : OneRunChanges(r, x) /\ x.stage = "idle" /\ run[r].stage \in {"open", "rebuilt"}
        BY <3>4, RunSteps
      <4> QED  BY <4>1
    <3> QED  BY <1>1, <3>1, <3>2, <3>3, <3>4
  <2>2. latest' = latest
    BY <1>1 DEF BrowserEnds, InsertFails, Rebuilds, RollsBack
  <2>3. /\ run'[r] = x /\ \A s \in Runs : s # r => run'[s] = run[s]
        /\ Saved' = Saved \ {r} /\ r \notin Saved /\ Saved \subseteq Runs /\ Open \subseteq Runs
        /\ Open' = IF x.stage \in {"open", "rebuilt"} THEN Open \cup {r} ELSE Open \ {r}
        /\ run[r].stage = "open" => r \in Open
    BY <2>1, ChangedRun DEF Saved, Open
  <2> QED  BY <2>1, <2>2, <2>3 DEF Quiet
<1>2. CASE Backfilling \/ Elsewhere \/ UNCHANGED vars
  <2>1. Quiet
    BY <1>2, StillRuns DEF Quiet, Saved, Open
  <2> QED  BY <2>1, QuietSnapshots
<1> QED
  BY <1>1, <1>2, QuietSnapshots, InsertSnapshots, CommitSnapshots DEF Next, Backfilling, Elsewhere

----------------------------------------------------------------------------
(* The trend.                                                              *)

\* While the month of a day is attached, a rebuild sees every saved run of the day.
LEMMA VisibleIsAll ==
  ASSUME NEW q, NEW d, partition[d \div MonthLength] = "hot" PROVE Visible(q, d) = SavedOn(q, d)
BY DEF Visible, SavedOn, MonthOf, DayOf, Month

\* No run is saved, begins or is rebuilt.
QuietTrend ==
  /\ Saved' = Saved /\ Open' \subseteq Open /\ Rebuilt' \subseteq Rebuilt
  /\ \A r \in Saved \cup Open' \cup Rebuilt' : run'[r].at = run[r].at
  /\ \A r \in Rebuilt' : run'[r].summary = run[r].summary

LEMMA SameDays ==
  ASSUME Saved' = Saved, \A r \in Saved : run'[r].at = run[r].at
  PROVE  \A q, d : SavedOn(q, d)' = SavedOn(q, d)
BY DEF SavedOn, DayOf

LEMMA QuietRunsTrend ==
  ASSUME TrendInv, QuietTrend, UNCHANGED <<trend, partition, checkpoint, backfill>> PROVE TrendInv'
<1> USE DEF TrendInv
<1>1. \A q, d : SavedOn(q, d)' = SavedOn(q, d)
  BY SameDays DEF QuietTrend
<1>2. BackfillShape' /\ PartitionsOK'
  BY DEF BackfillShape, PartitionsOK, SharedLockHeld, SourceIsComplete, QuietTrend, MonthOf
<1>3. \A r \in Rebuilt' : r \in Rebuilt /\ DayOf(r)' = DayOf(r) /\ run'[r].summary = run[r].summary
  BY DEF QuietTrend, DayOf
<1>4. DayLocksOK'
  BY <1>3 DEF DayLocksOK
<1>5. SummariesOK'
  BY <1>1, <1>3 DEF SummariesOK
<1>6. TrendIsExact'
  BY <1>1 DEF TrendIsExact, SavedOn
<1> QED  BY <1>2, <1>4, <1>5, <1>6

LEMMA InsertTrend ==
  ASSUME RunsOK, TrendInv, NEW r \in Runs, Inserts(r) PROVE TrendInv'
<1> USE DEF TrendInv
<1>1. PICK x : /\ OneRunChanges(r, x) /\ x.stage = "open" /\ run[r].stage = "captured"
               /\ x.at = run[r].at
  BY RunSteps
<1>2. /\ run'[r] = x /\ \A s \in Runs : s # r => run'[s] = run[s]
      /\ Saved' = Saved /\ Open' = Open \cup {r} /\ Rebuilt' = Rebuilt
      /\ r \notin Saved /\ r \notin Rebuilt /\ Saved \subseteq Runs /\ Open \subseteq Runs
      /\ Rebuilt \subseteq Runs /\ partition[MonthOf(r)] = "hot"
      /\ UNCHANGED <<trend, partition, checkpoint, backfill>>
  BY <1>1, ChangedRun DEF Saved, Open, Rebuilt, Inserts
<1>3. \A q, d : SavedOn(q, d)' = SavedOn(q, d)
  BY <1>2, SameDays
<1>4. BackfillShape' /\ PartitionsOK'
  BY <1>1, <1>2 DEF BackfillShape, PartitionsOK, SharedLockHeld, SourceIsComplete, MonthOf
<1>5. DayLocksOK' /\ SummariesOK'
  <2>1. \A s \in Rebuilt : run'[s] = run[s] /\ DayOf(s)' = DayOf(s)
    BY <1>2 DEF DayOf
  <2> QED  BY <1>2, <1>3, <2>1 DEF DayLocksOK, SummariesOK
<1>6. TrendIsExact'
  BY <1>2, <1>3 DEF TrendIsExact, SavedOn
<1> QED  BY <1>4, <1>5, <1>6

LEMMA RebuildTrend ==
  ASSUME RunsOK, TrendInv, NEW r \in Runs, Rebuilds(r) PROVE TrendInv'
<1> USE DEF TrendInv
<1>1. PICK x : /\ OneRunChanges(r, x) /\ x.stage = "rebuilt" /\ run[r].stage = "open"
               /\ x.at = run[r].at /\ x.summary = Visible(QueryOf[r], DayOf(r)) \cup {r}
  BY RunSteps
<1>2. /\ run'[r] = x /\ \A s \in Runs : s # r => run'[s] = run[s]
      /\ Saved' = Saved /\ Open' = Open /\ Rebuilt' = Rebuilt \cup {r}
      /\ r \in Open /\ r \notin Saved /\ r \notin Rebuilt /\ Saved \subseteq Runs
      /\ Open \subseteq Runs /\ Rebuilt \subseteq Runs
      /\ DayFree(QueryOf[r], DayOf(r))
      /\ UNCHANGED <<trend, partition, checkpoint, backfill>>
  <2>1. /\ run'[r] = x /\ \A s \in Runs : s # r => run'[s] = run[s]
        /\ Saved' = Saved \ {r} /\ Open' = Open \cup {r} /\ Rebuilt' = Rebuilt \cup {r}
    BY <1>1, ChangedRun
  <2>2. /\ r \in Open /\ r \notin Saved /\ r \notin Rebuilt /\ Saved \subseteq Runs
        /\ Open \subseteq Runs /\ Rebuilt \subseteq Runs
    BY <1>1 DEF Saved, Open, Rebuilt
  <2>3. /\ DayFree(QueryOf[r], DayOf(r))
        /\ UNCHANGED <<trend, partition, checkpoint, backfill>>
    BY DEF Rebuilds
  <2> QED  BY <2>1, <2>2, <2>3
<1>3. \A s \in Runs : DayOf(s)' = DayOf(s) /\ MonthOf(s)' = MonthOf(s)
  BY <1>1, <1>2 DEF DayOf, MonthOf
<1>4. \A q, d : SavedOn(q, d)' = SavedOn(q, d)
  BY <1>2, SameDays
<1>5. BackfillShape' /\ PartitionsOK'
  BY <1>2, <1>3 DEF BackfillShape, PartitionsOK, SharedLockHeld, SourceIsComplete
<1>6. DayLocksOK'
  BY <1>2, <1>3 DEF DayLocksOK, DayFree, Rebuilt
<1>7. SummariesOK'
  <2>1. partition[DayOf(r) \div MonthLength] = "hot"
    BY <1>2 DEF PartitionsOK, MonthOf, DayOf, Month
  <2>2. Visible(QueryOf[r], DayOf(r)) = SavedOn(QueryOf[r], DayOf(r))
    BY <2>1, VisibleIsAll
  <2>3. ASSUME NEW s \in Rebuilt'
        PROVE  run'[s].summary = SavedOn(QueryOf[s], DayOf(s))' \cup {s}
    <3>1. CASE s = r
      <4>1. run'[r].summary = SavedOn(QueryOf[r], DayOf(r)) \cup {r}
        BY <1>1, <1>2, <2>2
      <4>2. SavedOn(QueryOf[r], DayOf(r))' = SavedOn(QueryOf[r], DayOf(r))
        BY <1>2, <1>3 DEF SavedOn
      <4> QED  BY <3>1, <4>1, <4>2
    <3>2. CASE s # r
      <4>1. s \in Rebuilt /\ run'[s] = run[s]
        BY <1>2, <2>3, <3>2
      <4>2. run[s].summary = SavedOn(QueryOf[s], DayOf(s)) \cup {s}
        BY <4>1 DEF SummariesOK
      <4>3. SavedOn(QueryOf[s], DayOf(s))' = SavedOn(QueryOf[s], DayOf(s))
        BY <1>2, <1>3, <4>1 DEF SavedOn
      <4> QED  BY <4>1, <4>2, <4>3
    <3> QED  BY <3>1, <3>2
  <2>4. backfill'.pc = "rebuilt" =>
          \A y \in backfill'.page : backfill'.summary[y] = SavedOn(y[1], y[2])'
    BY <1>2, <1>4 DEF SummariesOK
  <2> QED  BY <2>3, <2>4 DEF SummariesOK
<1>8. TrendIsExact'
  BY <1>2, <1>4 DEF TrendIsExact, SavedOn
<1> QED  BY <1>5, <1>6, <1>7, <1>8

\* What a run commits is what its day has by then.
LEMMA CommitTrend ==
  ASSUME RunsOK, TrendInv, NEW r \in Runs, Commits(r) PROVE TrendInv'
<1> USE DEF TrendInv
<1>1. PICK x : /\ OneRunChanges(r, x) /\ x.stage = "saved" /\ run[r].stage = "rebuilt"
               /\ x.at = run[r].at
  BY RunSteps
<1>2. /\ run'[r] = x /\ \A s \in Runs : s # r => run'[s] = run[s]
      /\ Saved' = Saved \cup {r} /\ Open' = Open \ {r} /\ Rebuilt' = Rebuilt \ {r}
      /\ r \in Rebuilt /\ Saved \subseteq Runs /\ Open \subseteq Runs /\ Rebuilt \subseteq Runs
      /\ UNCHANGED <<partition, checkpoint, backfill>>
  BY <1>1, ChangedRun DEF Saved, Open, Rebuilt, Commits
<1>3. \A s \in Runs : DayOf(s)' = DayOf(s) /\ MonthOf(s)' = MonthOf(s)
  BY <1>1, <1>2 DEF DayOf, MonthOf
<1>4. ASSUME NEW q, NEW d
      PROVE  SavedOn(q, d)' = IF q = QueryOf[r] /\ d = DayOf(r) THEN SavedOn(q, d) \cup {r}
                              ELSE SavedOn(q, d)
  BY <1>2, <1>3 DEF SavedOn
<1>5. BackfillShape' /\ PartitionsOK'
  BY <1>2, <1>3 DEF BackfillShape, PartitionsOK, SharedLockHeld, SourceIsComplete
<1>6. DayLocksOK'
  BY <1>2, <1>3 DEF DayLocksOK
<1>7. SummariesOK'
  <2>1. ASSUME NEW s \in Rebuilt' PROVE run'[s].summary = SavedOn(QueryOf[s], DayOf(s))' \cup {s}
    <3>1. s \in Rebuilt /\ s # r /\ run'[s] = run[s]
      BY <1>2, <2>1
    <3>2. ~(QueryOf[s] = QueryOf[r] /\ DayOf(s) = DayOf(r))
      BY <1>2, <3>1 DEF DayLocksOK
    <3>3. SavedOn(QueryOf[s], DayOf(s))' = SavedOn(QueryOf[s], DayOf(s))
      BY <1>2, <1>3, <3>1, <3>2 DEF SavedOn
    <3> QED  BY <3>1, <3>3 DEF SummariesOK
  <2>2. ASSUME backfill.pc = "rebuilt", NEW y \in backfill.page
        PROVE  backfill.summary[y] = SavedOn(y[1], y[2])'
    <3>1. y # <<QueryOf[r], DayOf(r)>> /\ y = <<y[1], y[2]>>
      BY <1>2, <2>2 DEF DayLocksOK, BackfillShape
    <3>2. ~(y[1] = QueryOf[r] /\ y[2] = DayOf(r))
      BY <3>1
    <3> QED  BY <1>4, <2>2, <3>2 DEF SummariesOK
  <2> QED  BY <1>2, <2>1, <2>2 DEF SummariesOK
<1>8. TrendIsExact'
  <2> SUFFICES ASSUME NEW y \in Queries \X Days, trend'[y] # Nothing
               PROVE  trend'[y] = SavedOn(y[1], y[2])'
    BY DEF TrendIsExact, SavedOn
  <2>1. trend'[y] = IF y = <<QueryOf[r], DayOf(r)>> THEN run[r].summary ELSE trend[y]
    BY DEF Commits
  <2>2. CASE y = <<QueryOf[r], DayOf(r)>>
    <3>1. trend'[y] = SavedOn(QueryOf[r], DayOf(r)) \cup {r}
      BY <1>2, <2>1, <2>2 DEF SummariesOK
    <3> QED  BY <1>4, <2>2, <3>1
  <2>3. CASE y # <<QueryOf[r], DayOf(r)>>
    <3>1. ~(y[1] = QueryOf[r] /\ y[2] = DayOf(r))
      BY <2>3
    <3>2. trend'[y] = SavedOn(y[1], y[2])
      BY <2>1, <2>3 DEF TrendIsExact, SavedOn
    <3> QED  BY <1>4, <3>1, <3>2
  <2> QED  BY <2>2, <2>3
<1> QED  BY <1>5, <1>6, <1>7, <1>8

\* The partitions of open transactions and of a batch stay attached.
LEMMA MaintenanceTrend ==
  ASSUME RunsOK, TrendInv, MaintainPartitions PROVE TrendInv'
<1> USE DEF TrendInv
<1>1. UNCHANGED <<run, trend, checkpoint, backfill>> /\ ~SharedLockHeld
  BY DEF MaintainPartitions, store
<1>2. ASSUME NEW r \in Open PROVE partition'[MonthOf(r)] = "hot"
  <2> DEFINE m == MonthOf(r)
  <2>1. m \in Months /\ partition[m] = "hot"
    <3>1. run[r].at \in Times
      BY DEF RunsOK, RunState, Open
    <3> QED  BY <3>1, InTime DEF MonthOf, PartitionsOK
  <2> DEFINE month == Month(now)
             needed == {n \in Months : n + 1 >= month /\ n <= month + 2 /\ partition[n] = "absent"}
             purged == Oldest(MaxActions, {n \in Months : /\ partition[n] = "archived"
                                                          /\ n + PurgeAfter < month
                                                          /\ ~Protected(n)})
             archived == Oldest(MaxActions - Cardinality(purged),
                                {n \in Months : partition[n] = "hot" /\ n + ArchiveAfter < month})
  <2>2. m \notin needed /\ m \notin purged
    BY <2>1 DEF Oldest
  <2>3. /\ m \notin archived
        /\ partition' = [n \in Months |-> CASE n \in needed -> "hot"
                                            [] n \in purged -> "purged"
                                            [] n \in archived -> "archived"
                                            [] OTHER -> partition[n]]
    BY DEF MaintainPartitions
  <2> HIDE DEF needed, purged, archived, m
  <2>4. partition'[m] = partition[m]
    BY <2>1, <2>2, <2>3
  <2> QED  BY <2>1, <2>4 DEF m
<1>3. Open' = Open /\ \A r \in Open : MonthOf(r)' = MonthOf(r)
  BY <1>1 DEF Open, MonthOf
<1>4. PartitionsOK'
  BY <1>1, <1>2, <1>3 DEF PartitionsOK, SharedLockHeld
<1>5. BackfillShape' /\ DayLocksOK' /\ SummariesOK' /\ TrendIsExact'
  BY <1>1 DEF BackfillShape, DayLocksOK, SummariesOK, TrendIsExact, Rebuilt, SavedOn, Saved, DayOf
<1> QED  BY <1>4, <1>5

----------------------------------------------------------------------------
LEMMA IdleShape == DOMAIN IdleBackfill = {"pc", "cursor", "page", "summary", "last"}
                   /\ IdleBackfill.pc = "idle"
BY DEF IdleBackfill

\* The steps of the backfill that hold no lock afterwards, and change no day.
LEMMA UnlockedBackfill ==
  ASSUME TrendInv, UNCHANGED <<run, trend, partition>>,
         DOMAIN backfill' = {"pc", "cursor", "page", "summary", "last"},
         backfill'.pc \notin {"checked", "rebuilt"}
  PROVE  TrendInv'
BY DEF TrendInv, BackfillShape, PartitionsOK, SharedLockHeld, DayLocksOK, SummariesOK, TrendIsExact,
       Rebuilt, Open, Saved, SavedOn, DayOf, MonthOf

LEMMA BackfillSteps == ASSUME IInv, Backfilling PROVE TrendInv'
<1> USE DEF IInv
<1>1. UNCHANGED <<run, partition>>
  BY DEF Backfilling, BackfillStarts, BatchChecks, BatchIsBlocked, BatchRebuilds, BatchCommits,
         WritesCheckpoint, BackfillStops, store
<1>2. DOMAIN backfill = {"pc", "cursor", "page", "summary", "last"}
  BY DEF TrendInv, BackfillShape
<1>3. ASSUME NEW scope \in Scopes, BackfillStarts(scope) PROVE TrendInv'
  <2>1. /\ DOMAIN backfill' = {"pc", "cursor", "page", "summary", "last"}
        /\ backfill'.pc = "running" /\ trend' = trend
    BY <1>3, IdleShape DEF BackfillStarts, store
  <2> QED  BY <1>1, <2>1, UnlockedBackfill
<1>4. CASE BatchIsBlocked \/ BackfillStops
  <2>1. backfill' = IdleBackfill /\ trend' = trend
    BY <1>4 DEF BatchIsBlocked, BackfillStops, store
  <2> QED  BY <1>1, <2>1, IdleShape, UnlockedBackfill
<1>5. CASE WritesCheckpoint
  <2>1. /\ DOMAIN backfill' = {"pc", "cursor", "page", "summary", "last"}
        /\ backfill'.pc \in {"idle", "running"} /\ trend' = trend
    BY <1>5, IdleShape DEF WritesCheckpoint, store
  <2> QED  BY <1>1, <2>1, UnlockedBackfill
<1>6. CASE BatchChecks
  <2>1. /\ DOMAIN backfill' = {"pc", "cursor", "page", "summary", "last"}
        /\ backfill'.pc = "checked" /\ UNCHANGED <<trend, checkpoint>>
        /\ SourceIsComplete(checkpoint.scope)
    BY <1>2, <1>6 DEF BatchChecks, store
  <2> QED
    BY <1>1, <2>1
    DEF TrendInv, BackfillShape, PartitionsOK, SharedLockHeld, SourceIsComplete, DayLocksOK,
        SummariesOK, TrendIsExact, Rebuilt, Open, Saved, SavedOn, DayOf, MonthOf
<1>7. CASE BatchRebuilds
  <2> DEFINE page == NextPage(backfill.cursor)
             summary == [x \in page |-> Visible(x[1], x[2])]
  <2>1. /\ backfill' = [backfill EXCEPT !.pc = "rebuilt", !.page = page, !.summary = summary]
        /\ backfill.pc = "checked" /\ UNCHANGED <<trend, checkpoint>>
        /\ \A x \in page : DayFree(x[1], x[2])
    BY <1>7 DEF BatchRebuilds, store
  <2>2. \A x \in page : x = <<x[1], x[2]>> /\ x[2] \in checkpoint.scope[1]..checkpoint.scope[2]
    BY DEF NextPage, Left
  <2>3. SourceIsComplete(checkpoint.scope)
    BY <2>1 DEF TrendInv, PartitionsOK, SharedLockHeld
  <2>4. \A x \in page : summary[x] = SavedOn(x[1], x[2])
    BY <2>2, <2>3, VisibleIsAll DEF SourceIsComplete
  <2> HIDE DEF page, summary
  <2>5. /\ DOMAIN backfill' = {"pc", "cursor", "page", "summary", "last"}
        /\ backfill'.pc = "rebuilt" /\ backfill'.page = page /\ backfill'.summary = summary
    BY <1>2, <2>1
  <2>6. /\ \A q, d : SavedOn(q, d)' = SavedOn(q, d)
        /\ Rebuilt' = Rebuilt /\ \A r \in Rebuilt : DayOf(r)' = DayOf(r)
    BY <1>1 DEF SavedOn, Saved, Rebuilt, DayOf
  <2>7. BackfillShape' /\ PartitionsOK'
    BY <1>1, <2>1, <2>2, <2>3, <2>5
    DEF TrendInv, BackfillShape, PartitionsOK, SharedLockHeld, SourceIsComplete, Open, MonthOf
  <2>8. DayLocksOK'
    <3>1. \A r \in Rebuilt : <<QueryOf[r], DayOf(r)>> \notin page
      BY <2>1, <2>2 DEF DayFree, Rebuilt
    <3> QED  BY <2>5, <2>6, <3>1 DEF TrendInv, DayLocksOK
  <2>9. SummariesOK'
    <3>1. \A r \in Rebuilt : run'[r].summary = SavedOn(QueryOf[r], DayOf(r))' \cup {r}
      BY <1>1 DEF TrendInv, SummariesOK, SavedOn, Saved, DayOf
    <3>2. \A x \in page : summary[x] = SavedOn(x[1], x[2])'
      BY <2>4, <2>6
    <3> QED  BY <2>5, <2>6, <3>1, <3>2 DEF SummariesOK
  <2>10. TrendIsExact'
    BY <1>1, <2>1 DEF TrendInv, TrendIsExact, Saved, DayOf
  <2> QED  BY <2>7, <2>8, <2>9, <2>10 DEF TrendInv
<1>8. CASE BatchCommits
  <2>1. /\ backfill.pc = "rebuilt"
        /\ trend' = [x \in Queries \X Days |-> IF x \in backfill.page THEN backfill.summary[x] ELSE trend[x]]
    BY <1>8 DEF BatchCommits
  <2>2. /\ DOMAIN backfill' = {"pc", "cursor", "page", "summary", "last"}
        /\ backfill'.pc = "committed" /\ checkpoint' = checkpoint
    BY <1>8, IdleShape DEF BatchCommits
  <2>3. TrendIsExact'
    <3> SUFFICES ASSUME NEW y \in Queries \X Days, trend'[y] # Nothing
                 PROVE  trend'[y] = SavedOn(y[1], y[2])
      BY <1>1 DEF TrendIsExact, SavedOn, Saved, DayOf
    <3> QED  BY <2>1 DEF TrendInv, SummariesOK, TrendIsExact, SavedOn
  <2>4. BackfillShape' /\ PartitionsOK' /\ DayLocksOK' /\ SummariesOK'
    BY <1>1, <2>2
    DEF TrendInv, BackfillShape, PartitionsOK, SharedLockHeld, DayLocksOK, SummariesOK,
        Rebuilt, Open, Saved, SavedOn, DayOf, MonthOf
  <2> QED  BY <2>3, <2>4 DEF TrendInv
<1> QED  BY <1>3, <1>4, <1>5, <1>6, <1>7, <1>8 DEF Backfilling

LEMMA NextTrend == ASSUME IInv, [Next]_vars PROVE TrendInv'
<1> USE DEF IInv
<1>1. ASSUME NEW r \in Runs,
             (\E keys \in SUBSET Keys : BrowserEnds(r, keys)) \/ InsertFails(r) \/ RollsBack(r)
      PROVE  TrendInv'
  <2>1. PICK x : /\ OneRunChanges(r, x) /\ x.stage \in {"captured", "idle"} /\ run[r].stage # "saved"
    <3>1. CASE \E keys \in SUBSET Keys : BrowserEnds(r, keys)
      <4>1. PICK x : OneRunChanges(r, x) /\ x.stage = "captured" /\ run[r].stage = "idle"
        BY <3>1, RunSteps
      <4> QED  BY <4>1
    <3>2. CASE InsertFails(r)
      <4>1. PICK x : OneRunChanges(r, x) /\ x.stage = "idle" /\ run[r].stage = "captured"
        BY <3>2, RunSteps
      <4> QED  BY <4>1
    <3>3. CASE RollsBack(r)
      <4>1. PICK x : OneRunChanges(r, x) /\ x.stage = "idle" /\ run[r].stage \in {"open", "rebuilt"}
        BY <3>3, RunSteps
      <4> QED  BY <4>1
    <3> QED  BY <1>1, <3>1, <3>2, <3>3
  <2>2. UNCHANGED <<trend, partition, checkpoint, backfill>>
    BY <1>1 DEF BrowserEnds, InsertFails, RollsBack
  <2>3. /\ \A s \in Runs : s # r => run'[s] = run[s]
        /\ Saved' = Saved /\ r \notin Saved /\ Saved \subseteq Runs /\ Open \subseteq Runs
        /\ Open' = Open \ {r} /\ Rebuilt' = Rebuilt \ {r} /\ Rebuilt \subseteq Runs
    BY <2>1, ChangedRun DEF Saved, Open, Rebuilt
  <2>4. QuietTrend
    BY <2>3 DEF QuietTrend
  <2> QED  BY <2>2, <2>4, QuietRunsTrend
<1>2. CASE (Elsewhere /\ ~MaintainPartitions) \/ UNCHANGED vars
  <2>1. UNCHANGED <<run, trend, partition, checkpoint, backfill>>
    BY <1>2 DEF Elsewhere, Subscribe, Unsubscribe, CreateExport, ReadsPage, ExportFails, Tick, store, vars
  <2>2. QuietTrend
    BY <2>1 DEF QuietTrend, Saved, Open, Rebuilt
  <2> QED  BY <2>1, <2>2, QuietRunsTrend
<1> QED
  BY <1>1, <1>2, InsertTrend, RebuildTrend, CommitTrend, MaintenanceTrend, BackfillSteps
  DEF Next, Backfilling, Elsewhere

----------------------------------------------------------------------------
\* What open transactions decided and summarized is still right when they commit.
THEOREM Invariance == Spec => []IInv
<1>1. IInv /\ [Next]_vars => IInv'
  BY NextRuns, NextSnapshots, NextTrend DEF IInv
<1> QED  BY InitIInv, <1>1, PTL DEF Spec

\* However late a run commits, and whichever transactions overlap, a latest snapshot
\* comes from the newest saved run that observed its key.
THEOREM SnapshotsAreNewest == Spec => []LatestIsNewest
<1>1. IInv => LatestIsNewest
  BY DEF IInv, SnapshotInv
<1> QED  BY <1>1, Invariance, PTL

\* A covered day summarizes every run that was ever saved for it, whatever rebuilt it
\* last, beside the backfill and the maintenance of partitions.
THEOREM TrendsAreExact == Spec => []TrendIsExact
<1>1. IInv => TrendIsExact
  BY DEF IInv, TrendInv
<1> QED  BY <1>1, Invariance, PTL
----------------------------------------------------------------------------
(* Pages of a keyset.                                                      *)

Earlier(L, R, x) == {y \in L : <<y, x>> \in R}

Orders(R, L) ==
  /\ \A x \in L : <<x, x>> \notin R
  /\ \A x, y, z \in L : <<x, y>> \in R /\ <<y, z>> \in R => <<x, z>> \in R
  /\ \A x, y \in L : x = y \/ <<x, y>> \in R \/ <<y, x>> \in R

LEMMA Smallest ==
  ASSUME NEW T \in SUBSET Nat, T # {} PROVE \E m \in T : \A n \in T : m <= n
<1> DEFINE less == {ss \in Nat \X Nat : ss[1] < ss[2]}
<1>1. IsWellFoundedOn(less, Nat)
  BY NatLessThanWellFounded DEF OpToRel
<1>2. PICK m \in T : \A n \in T : <<n, m>> \notin less
  BY <1>1, WFMin
<1>3. ASSUME NEW n \in T PROVE m <= n
  <2>1. <<n, m>> \notin less /\ n \in Nat /\ m \in Nat
    BY <1>2
  <2>2. ~(n < m)
    BY <2>1
  <2> QED  BY <2>1, <2>2
<1> QED  BY <1>3

LEMMA CountEarlier ==
  ASSUME NEW L, IsFiniteSet(L), NEW R, Orders(R, L)
  PROVE  /\ \A x \in L : IsFiniteSet(Earlier(L, R, x)) /\ Cardinality(Earlier(L, R, x)) \in Nat
         /\ \A x, y \in L : <<x, y>> \in R =>
              Cardinality(Earlier(L, R, x)) < Cardinality(Earlier(L, R, y))
<1>1. \A x \in L : IsFiniteSet(Earlier(L, R, x)) /\ Cardinality(Earlier(L, R, x)) \in Nat
  BY FS_Subset, FS_CardinalityType DEF Earlier
<1>2. ASSUME NEW x \in L, NEW y \in L, <<x, y>> \in R
      PROVE  Cardinality(Earlier(L, R, x)) < Cardinality(Earlier(L, R, y))
  <2>1. Earlier(L, R, x) \subseteq Earlier(L, R, y)
    BY <1>2 DEF Earlier, Orders
  <2>2. x \in Earlier(L, R, y) /\ x \notin Earlier(L, R, x)
    BY <1>2 DEF Earlier, Orders
  <2>3. /\ Cardinality(Earlier(L, R, x)) <= Cardinality(Earlier(L, R, y))
        /\ Cardinality(Earlier(L, R, x)) # Cardinality(Earlier(L, R, y))
    BY <1>1, <2>1, <2>2, FS_Subset
  <2> QED  BY <1>1, <2>3
<1> QED  BY <1>1, <1>2

LEMMA FirstOf ==
  ASSUME NEW L, IsFiniteSet(L), NEW R, Orders(R, L), NEW T \in SUBSET L, T # {}
  PROVE  \E x \in T : \A y \in T : <<y, x>> \notin R
<1> DEFINE count == [x \in T |-> Cardinality(Earlier(L, R, x))]
           counts == {count[x] : x \in T}
<1>1. \A x \in T : count[x] \in Nat
  BY CountEarlier
<1>2. counts \in SUBSET Nat /\ counts # {}
  BY <1>1
<1> HIDE DEF counts
<1>3. PICK m \in counts : \A n \in counts : m <= n
  BY <1>2, Smallest
<1>4. PICK x \in T : m = count[x]
  BY <1>3 DEF counts
<1>5. ASSUME NEW y \in T, <<y, x>> \in R PROVE FALSE
  <2>1. count[y] < count[x]
    BY <1>5, CountEarlier
  <2>2. count[y] \in counts
    BY DEF counts
  <2> QED  BY <1>1, <1>3, <1>4, <2>1, <2>2
<1> QED  BY <1>5

Page(L, R, n) == {x \in L : Cardinality(Earlier(L, R, x)) < n}

\* A page is the beginning of what is left, and all of it if it is not full.
LEMMA PageIsPrefix ==
  ASSUME NEW L, IsFiniteSet(L), NEW R, Orders(R, L), NEW n \in Nat
  PROVE  /\ IsFiniteSet(Page(L, R, n)) /\ Cardinality(Page(L, R, n)) \in Nat
         /\ \A x \in Page(L, R, n), y \in L : <<y, x>> \in R => y \in Page(L, R, n)
         /\ Cardinality(Page(L, R, n)) < n => Page(L, R, n) = L
<1> DEFINE P == Page(L, R, n)
<1>1. P \subseteq L /\ IsFiniteSet(P) /\ Cardinality(P) \in Nat
  BY FS_Subset, FS_CardinalityType DEF Page
<1>2. \A x \in L : x \in P <=> Cardinality(Earlier(L, R, x)) < n
  BY DEF Page
<1>3. ASSUME NEW x \in P, NEW y \in L, <<y, x>> \in R PROVE y \in P
  <2>1. Cardinality(Earlier(L, R, y)) < Cardinality(Earlier(L, R, x))
    BY <1>1, <1>3, CountEarlier
  <2>2. Cardinality(Earlier(L, R, x)) \in Nat /\ Cardinality(Earlier(L, R, y)) \in Nat
    BY <1>1, CountEarlier
  <2> QED  BY <1>1, <1>2, <2>1, <2>2
<1>4. ASSUME Cardinality(P) < n, L \ P # {} PROVE FALSE
  <2>1. PICK z \in L \ P : \A y \in L \ P : <<y, z>> \notin R
    BY <1>4, FirstOf
  <2>2. Earlier(L, R, z) \subseteq P
    BY <2>1 DEF Earlier
  <2>3. Cardinality(Earlier(L, R, z)) <= Cardinality(P) /\ Cardinality(Earlier(L, R, z)) \in Nat
    BY <1>1, <2>1, <2>2, CountEarlier, FS_Subset
  <2> QED  BY <1>1, <1>2, <1>4, <2>1, <2>3
<1> HIDE DEF P
<1>5. P = Page(L, R, n)
  BY DEF P
<1> QED  BY <1>1, <1>3, <1>4, <1>5

\* A page that is not empty has a last element, and what is not in it comes after that.
LEMMA PageHasLast ==
  ASSUME NEW L, IsFiniteSet(L), NEW R, Orders(R, L), NEW n \in Nat, Page(L, R, n) # {}
  PROVE  \E x \in Page(L, R, n) :
           /\ \A y \in Page(L, R, n) : y = x \/ <<y, x>> \in R
           /\ \A y \in L \ Page(L, R, n) : <<x, y>> \in R
<1> DEFINE P == Page(L, R, n)
           S == {p \in L \X L : <<p[2], p[1]>> \in R}
<1>1. P \subseteq L /\ P # {}
  BY DEF Page
<1>2. Orders(S, L)
  BY DEF Orders
<1>3. PICK x \in P : \A y \in P : <<y, x>> \notin S
  BY <1>1, <1>2, FirstOf
<1>4. \A y \in P : <<x, y>> \notin R
  BY <1>1, <1>3
<1>5. \A y \in P : y = x \/ <<y, x>> \in R
  BY <1>1, <1>4 DEF Orders
<1>6. \A y \in L \ P : <<x, y>> \in R
  BY <1>1, PageIsPrefix DEF Orders
<1> QED  BY <1>5, <1>6

----------------------------------------------------------------------------
(* The backfill covers what it has passed.                                 *)

Permanent == (Queries \ Fleeting) \X (checkpoint.scope[1]..checkpoint.scope[2])
Covered(x) == trend[x] # Nothing
AllCovered == \A x \in Permanent : Covered(x)
CoveredTo(cursor) ==
  \A x \in Permanent : cursor = Nothing \/ Before(cursor, x) \/ Covered(x)

\* What is neither covered nor on a page comes after the page, which is then full.
PageReaches(page) ==
  \A x \in Permanent :
    \/ x \in page \/ Covered(x)
    \/ page # {} /\ ~Exhausted(page) /\ Before(LastOf(page), x)

TrendTyped == trend \in [Queries \X Days -> (SUBSET Runs) \cup {Nothing}]
TrackedOK == tracked \subseteq Queries /\ Queries \ Fleeting \subseteq tracked

CheckpointOK ==
  /\ DOMAIN checkpoint = {"scope", "cursor", "complete"}
  /\ checkpoint.scope = Nothing =>
       backfill.pc = "idle" /\ ~checkpoint.complete /\ checkpoint.cursor = Nothing
  /\ checkpoint.scope # Nothing =>
       /\ checkpoint.scope \in Scopes /\ checkpoint.scope[1]..checkpoint.scope[2] \subseteq Days
       /\ CoveredTo(checkpoint.cursor) /\ (checkpoint.complete => AllCovered)

BackfillOK ==
  checkpoint.scope # Nothing =>
    /\ backfill.pc \in {"idle", "running", "checked", "rebuilt", "committed"}
    /\ backfill.pc # "idle" => CoveredTo(backfill.cursor)
    /\ backfill.pc = "rebuilt" =>
         PageReaches(backfill.page) /\ backfill.page \subseteq Queries \X Days
    /\ backfill.pc = "committed" /\ backfill.last => AllCovered

CoverInv == TrendTyped /\ TrackedOK /\ CheckpointOK /\ BackfillOK

LEMMA ScopesAreDays ==
  /\ \A scope \in Scopes : scope[1] \in Nat /\ scope[2] \in Nat
  /\ BatchSize \in Nat \ {0} /\ Fleeting \subseteq Queries /\ Queries \subseteq Nat
  /\ IsFiniteSet(Queries) /\ Nothing \notin Scopes /\ \A runs \in SUBSET Runs : runs # Nothing
BY ObservationsAssumption

LEMMA InitCoverInv == Init => CoverInv
<1> SUFFICES ASSUME Init PROVE CoverInv
  OBVIOUS
<1>1. checkpoint = NoCheckpoint /\ backfill = IdleBackfill /\ tracked = Queries \ Fleeting
      /\ trend = [x \in Queries \X Days |-> Nothing]
  BY DEF Init
<1>2. TrendTyped
  BY <1>1 DEF TrendTyped
<1>4. TrackedOK
  BY <1>1 DEF TrackedOK
<1>3. CheckpointOK /\ BackfillOK
  BY <1>1 DEF CheckpointOK, BackfillOK, NoCheckpoint, IdleBackfill
<1> QED  BY <1>2, <1>3, <1>4 DEF CoverInv

\* A page of the backfill is the beginning of what is left, or all of it.
LEMMA BackfillPage ==
  ASSUME TrackedOK, checkpoint.scope \in Scopes, NEW cursor
  PROVE  /\ NextPage(cursor) \subseteq Left(cursor)
         /\ \A x \in Left(cursor) \ NextPage(cursor) :
              /\ NextPage(cursor) # {} /\ ~Exhausted(NextPage(cursor))
              /\ Before(LastOf(NextPage(cursor)), x)
<1> DEFINE L == Left(cursor)
           R == {p \in L \X L : Before(p[1], p[2])}
           page == NextPage(cursor)
<1>1. L \subseteq Nat \X Nat /\ IsFiniteSet(L)
  <2>1. /\ checkpoint.scope[1] \in Nat /\ checkpoint.scope[2] \in Nat
        /\ checkpoint.scope[1]..checkpoint.scope[2] \subseteq Nat
    BY ScopesAreDays
  <2>2. IsFiniteSet(tracked \X (checkpoint.scope[1]..checkpoint.scope[2]))
    <3>1. IsFiniteSet(checkpoint.scope[1]..checkpoint.scope[2])
      <4>1. checkpoint.scope[1] \in Int /\ checkpoint.scope[2] \in Int
        BY <2>1
      <4> QED  BY <4>1, FS_Interval
    <3>2. IsFiniteSet(tracked)
      BY ScopesAreDays, FS_Subset DEF TrackedOK
    <3> QED  BY <3>1, <3>2, FS_Product
  <2>3. L \subseteq tracked \X (checkpoint.scope[1]..checkpoint.scope[2])
    BY DEF Left
  <2> QED  BY <2>1, <2>2, <2>3, FS_Subset, ScopesAreDays DEF TrackedOK
<1> HIDE DEF L
<1>2. \A x, y \in L : <<x, y>> \in R <=> Before(x, y)
  OBVIOUS
<1>3. Orders(R, L)
  <2>1. \A x \in L : x \in Nat \X Nat /\ x = <<x[1], x[2]>> /\ x[1] \in Nat /\ x[2] \in Nat
    BY <1>1
  <2>2. \A x \in L : ~Before(x, x)
    BY <2>1 DEF Before
  <2>3. \A x, y, z \in L : Before(x, y) /\ Before(y, z) => Before(x, z)
    BY <2>1 DEF Before
  <2>4. \A x, y \in L : x = y \/ Before(x, y) \/ Before(y, x)
    BY <2>1 DEF Before
  <2> HIDE DEF R
  <2> QED  BY <1>2, <2>2, <2>3, <2>4 DEF Orders
<1>4. page = Page(L, R, BatchSize)
  <2>1. \A x \in L : {y \in L : Before(y, x)} = Earlier(L, R, x)
    BY <1>2 DEF Earlier
  <2>2. page = {x \in L : Cardinality({y \in L : Before(y, x)}) < BatchSize}
    BY DEF NextPage, L
  <2> HIDE DEF page, R
  <2> QED  BY <2>1, <2>2 DEF Page
<1> HIDE DEF page, R
<1>5. page \subseteq L
  BY <1>4 DEF Page
<1>6. ASSUME NEW x \in L \ page
      PROVE  page # {} /\ ~Exhausted(page) /\ Before(LastOf(page), x)
  <2>1. ~(Cardinality(page) < BatchSize)
    BY <1>1, <1>3, <1>4, <1>6, PageIsPrefix, ScopesAreDays
  <2>2. page # {}
    BY <2>1, FS_EmptySet, ScopesAreDays
  <2>3. PICK l \in page : /\ \A y \in page : y = l \/ <<y, l>> \in R
                          /\ \A y \in L \ page : <<l, y>> \in R
    BY <1>1, <1>3, <1>4, <2>2, PageHasLast, ScopesAreDays
  <2>4. \A y \in page : y = l \/ Before(y, l)
    BY <1>2, <1>5, <2>3
  <2>5. LastOf(page) \in page /\ \A y \in page : y = LastOf(page) \/ Before(y, LastOf(page))
    BY <2>4 DEF LastOf
  <2>6. LastOf(page) = l
    <3>1. l = LastOf(page) \/ (Before(l, LastOf(page)) /\ Before(LastOf(page), l))
      BY <2>4, <2>5
    <3>2. ~(Before(l, LastOf(page)) /\ Before(LastOf(page), l))
      BY <1>2, <1>3, <1>5, <2>5 DEF Orders
    <3> QED  BY <3>1, <3>2
  <2> QED  BY <1>2, <1>5, <1>6, <2>1, <2>2, <2>3, <2>6 DEF Exhausted
<1> QED  BY <1>5, <1>6 DEF page, L

\* A day that is covered stays so.
TrendKept == TrendTyped' /\ \A x \in Queries \X Days : Covered(x) => Covered(x)'

LEMMA SameTrend == ASSUME TrendTyped, UNCHANGED trend PROVE TrendKept
BY DEF TrendTyped, TrendKept, Covered

LEMMA ReplacedDays ==
  ASSUME TrendTyped, NEW page, NEW f, \A x \in page : f[x] \in SUBSET Runs,
         trend' = [x \in Queries \X Days |-> IF x \in page THEN f[x] ELSE trend[x]]
  PROVE  TrendKept /\ \A x \in page \cap (Queries \X Days) : Covered(x)'
<1>1. \A x \in page : f[x] # Nothing
  BY ScopesAreDays
<1> QED  BY <1>1 DEF TrendTyped, TrendKept, Covered

LEMMA NextTrendKept == ASSUME IInv, CoverInv, [Next]_vars PROVE TrendKept
<1> USE DEF IInv, CoverInv
<1>1. ASSUME NEW r \in Runs, Commits(r) PROVE TrendKept
  <2> DEFINE page == {<<QueryOf[r], DayOf(r)>>}
             f == [x \in page |-> run[r].summary]
  <2>1. \A x \in page : f[x] \in SUBSET Runs /\ f[x] = run[r].summary
    BY DEF RunsOK, RunState
  <2>2. trend' = [x \in Queries \X Days |-> IF x \in page THEN f[x] ELSE trend[x]]
    BY <1>1, <2>1 DEF Commits
  <2> HIDE DEF page, f
  <2> QED  BY <2>1, <2>2, ReplacedDays
<1>2. CASE BatchCommits
  <2>1. \A x \in backfill.page : backfill.summary[x] \in SUBSET Runs
    BY <1>2 DEF BatchCommits, TrendInv, SummariesOK, SavedOn, Saved
  <2>2. trend' = [x \in Queries \X Days |->
                    IF x \in backfill.page THEN backfill.summary[x] ELSE trend[x]]
    BY <1>2 DEF BatchCommits
  <2> QED  BY <2>1, <2>2, ReplacedDays
<1>3. CASE UNCHANGED trend
  BY <1>3, SameTrend
<1> QED
  BY <1>1, <1>2, <1>3
  DEF Next, BrowserEnds, Inserts, InsertFails, Rebuilds, RollsBack, BackfillStarts, BatchChecks,
      BatchIsBlocked, BatchRebuilds, WritesCheckpoint, BackfillStops, MaintainPartitions,
      Subscribe, Unsubscribe, CreateExport, ReadsPage, ExportFails, Tick, store, vars

LEMMA NextTracked == ASSUME TrackedOK, [Next]_vars PROVE TrackedOK'
<1>1. CASE \E query \in Fleeting : Subscribe(query) \/ Unsubscribe(query)
  BY <1>1, ScopesAreDays DEF TrackedOK, Subscribe, Unsubscribe
<1>2. CASE UNCHANGED tracked
  BY <1>2 DEF TrackedOK
<1> QED
  BY <1>1, <1>2
  DEF Next, BrowserEnds, Inserts, InsertFails, Rebuilds, Commits, RollsBack, BackfillStarts, BatchChecks,
      BatchIsBlocked, BatchRebuilds, BatchCommits, WritesCheckpoint, BackfillStops, MaintainPartitions,
      CreateExport, ReadsPage, ExportFails, Tick, store, vars

\* What was covered of the scope still is.
LEMMA CoverKept ==
  ASSUME CheckpointOK, TrendKept, checkpoint.scope # Nothing, checkpoint'.scope = checkpoint.scope
  PROVE  /\ Permanent' = Permanent
         /\ \A x \in Permanent : x \in Queries \X Days /\ (Covered(x) => Covered(x)')
         /\ \A cursor : CoveredTo(cursor) => CoveredTo(cursor)'
         /\ AllCovered => AllCovered'
         /\ \A page : PageReaches(page) => PageReaches(page)'
<1>1. Permanent' = Permanent
  BY DEF Permanent
<1>2. \A x \in Permanent : x \in Queries \X Days /\ (Covered(x) => Covered(x)')
  BY DEF Permanent, CheckpointOK, TrendKept
<1>3. \A cursor : CoveredTo(cursor) => CoveredTo(cursor)'
  BY <1>1, <1>2 DEF CoveredTo
<1>4. AllCovered => AllCovered'
  BY <1>1, <1>2 DEF AllCovered
<1>5. \A page : PageReaches(page) => PageReaches(page)'
  BY <1>1, <1>2 DEF PageReaches
<1> QED  BY <1>1, <1>2, <1>3, <1>4, <1>5

LEMMA SameBackfill ==
  ASSUME CoverInv, TrendKept, TrackedOK', UNCHANGED <<backfill, checkpoint>> PROVE CoverInv'
<1> USE DEF CoverInv
<1>1. CASE checkpoint.scope = Nothing
  BY <1>1 DEF CheckpointOK, BackfillOK, TrendKept
<1>2. CASE checkpoint.scope # Nothing
  <2>1. CheckpointOK'
    BY <1>2, CoverKept DEF CheckpointOK
  <2>2. BackfillOK'
    BY <1>2, CoverKept DEF BackfillOK
  <2> QED  BY <2>1, <2>2 DEF TrendKept
<1> QED  BY <1>1, <1>2

\* Steps of the backfill within its scope.
LEMMA WithinScope ==
  ASSUME CoverInv, TrendKept, TrackedOK', checkpoint.scope # Nothing,
         checkpoint'.scope = checkpoint.scope, DOMAIN checkpoint' = DOMAIN checkpoint,
         NEW cursor, checkpoint'.cursor = cursor, CoveredTo(cursor)',
         checkpoint'.complete => AllCovered', BackfillOK'
  PROVE  CoverInv'
<1>1. CoveredTo(checkpoint.cursor)'
  BY DEF CoveredTo
<1>2. CheckpointOK'
  BY <1>1 DEF CoverInv, CheckpointOK
<1> QED  BY <1>2 DEF CoverInv, TrendKept

\* What BackfillOK says of a backfill that holds no page.
LEMMA BetweenPages ==
  ASSUME NEW cursor, backfill'.cursor = cursor, CoveredTo(cursor)',
         backfill'.pc \in {"running", "checked"}
  PROVE  BackfillOK'
<1>1. CoveredTo(backfill.cursor)'
  BY DEF CoveredTo
<1> QED  BY <1>1 DEF BackfillOK

LEMMA IdleBackfillOK == ASSUME backfill'.pc = "idle" PROVE BackfillOK'
BY DEF BackfillOK

LEMMA BackfillCovers == ASSUME IInv, CoverInv, Backfilling, TrendKept, TrackedOK' PROVE CoverInv'
<1> USE DEF CoverInv
<1>1. ASSUME NEW scope \in Scopes, BackfillStarts(scope) PROVE CoverInv'
  <2>1. /\ backfill'.pc = "running" /\ backfill'.cursor = checkpoint.cursor /\ backfill.pc = "idle"
        /\ ~checkpoint.complete /\ UNCHANGED <<trend, tracked>>
        /\ checkpoint.scope = Nothing => /\ scope[2] <= Day(now)
                                         /\ checkpoint' = [checkpoint EXCEPT !.scope = scope]
        /\ checkpoint.scope # Nothing => checkpoint' = checkpoint
    BY <1>1 DEF BackfillStarts, IdleBackfill, store
  <2>2. CASE checkpoint.scope = Nothing
    <3>1. /\ checkpoint'.scope = scope /\ ~checkpoint'.complete /\ checkpoint'.cursor = Nothing
          /\ DOMAIN checkpoint' = DOMAIN checkpoint
      BY <2>1, <2>2 DEF CheckpointOK
    <3>2. scope[1]..scope[2] \subseteq Days
      <4>1. now \in Times /\ scope[1] \in Nat /\ scope[2] \in Nat /\ scope[2] <= Day(now)
        BY <2>1, <2>2, ScopesAreDays DEF IInv, RunsOK
      <4>2. Day(now) \in Days
        BY <4>1, InTime
      <4>3. Day(MaxTime) \in Nat
        BY Numbers, Quotients DEF Day
      <4> QED  BY <4>1, <4>2, <4>3 DEF Days
    <3>3. \A cursor : cursor = Nothing => CoveredTo(cursor)'
      BY DEF CoveredTo
    <3>4. CheckpointOK'
      BY <3>1, <3>2, <3>3, ScopesAreDays DEF CheckpointOK
    <3>5. BackfillOK'
      BY <2>1, <2>2, <3>3 DEF BackfillOK, CheckpointOK
    <3> QED  BY <3>4, <3>5 DEF TrendKept
  <2>3. CASE checkpoint.scope # Nothing
    <3> PICK cursor : cursor = checkpoint.cursor
      OBVIOUS
    <3>1. CoveredTo(cursor) /\ checkpoint' = checkpoint
      BY <2>1, <2>3 DEF CheckpointOK
    <3>2. CoveredTo(cursor)'
      BY <2>3, <3>1, CoverKept
    <3>3. BackfillOK'
      BY <2>1, <3>2, BetweenPages
    <3> QED  BY <2>1, <2>3, <3>1, <3>2, <3>3, WithinScope
  <2> QED  BY <2>2, <2>3
<1> SUFFICES ASSUME backfill.pc # "idle", Backfilling, ~\E scope \in Scopes : BackfillStarts(scope)
             PROVE  CoverInv'
  BY <1>1 DEF Backfilling, BatchChecks, BatchIsBlocked, BatchRebuilds, BatchCommits,
              WritesCheckpoint, BackfillStops
<1>2. /\ checkpoint.scope # Nothing /\ CoveredTo(backfill.cursor) /\ CoveredTo(checkpoint.cursor)
      /\ checkpoint.complete => AllCovered
      /\ checkpoint.scope \in Scopes /\ DOMAIN checkpoint = {"scope", "cursor", "complete"}
      /\ DOMAIN backfill = {"pc", "cursor", "page", "summary", "last"}
  BY DEF CheckpointOK, BackfillOK, IInv, TrendInv, BackfillShape
<1>3. checkpoint'.scope = checkpoint.scope /\ DOMAIN checkpoint' = DOMAIN checkpoint
  BY <1>2 DEF Backfilling, BatchChecks, BatchIsBlocked, BatchRebuilds, BatchCommits,
              WritesCheckpoint, BackfillStops
<1>4. /\ Permanent' = Permanent
      /\ \A x \in Permanent : x \in Queries \X Days /\ (Covered(x) => Covered(x)')
      /\ \A cursor : CoveredTo(cursor) => CoveredTo(cursor)'
      /\ AllCovered => AllCovered'
  BY <1>2, <1>3, CoverKept
<1> PICK cursor : cursor = backfill.cursor
  OBVIOUS
<1>5. CoveredTo(cursor)' /\ (checkpoint.complete => AllCovered')
  BY <1>2, <1>4
<1>6. ASSUME UNCHANGED checkpoint, BackfillOK' PROVE CoverInv'
  <2> PICK kept : kept = checkpoint.cursor
    OBVIOUS
  <2>1. CoveredTo(kept)'
    BY <1>2, <1>4
  <2> QED  BY <1>2, <1>4, <1>6, <2>1, WithinScope
<1>7. CASE BatchChecks
  <2>1. backfill'.pc = "checked" /\ backfill'.cursor = cursor /\ UNCHANGED checkpoint
    BY <1>2, <1>7 DEF BatchChecks
  <2> QED  BY <1>2, <1>4, <1>6, <2>1, BetweenPages
<1>8. CASE BatchRebuilds
  <2> PICK page : page = NextPage(cursor)
    OBVIOUS
  <2>1. /\ backfill'.pc = "rebuilt" /\ backfill'.cursor = cursor /\ backfill'.page = page
        /\ UNCHANGED <<trend, checkpoint>>
    BY <1>2, <1>8 DEF BatchRebuilds, store
  <2>2. page \subseteq Queries \X Days
    <3>1. page \subseteq Left(cursor)
      BY <1>2, BackfillPage
    <3>2. Left(cursor) \subseteq tracked \X Days
      BY <1>2 DEF Left, CheckpointOK
    <3> QED  BY <3>1, <3>2 DEF TrackedOK
  <2>3. PageReaches(page)
    <3> SUFFICES ASSUME NEW x \in Permanent, ~Covered(x), x \notin page
                 PROVE  page # {} /\ ~Exhausted(page) /\ Before(LastOf(page), x)
      BY DEF PageReaches
    <3>1. x \in Left(cursor)
      BY <1>2 DEF Permanent, TrackedOK, CoveredTo, Left
    <3> QED  BY <1>2, <3>1, BackfillPage
  <2>4. PageReaches(page)' /\ CoveredTo(cursor)'
    BY <1>2, <1>3, <1>4, <2>3, CoverKept
  <2>5. PageReaches(backfill.page)' /\ CoveredTo(backfill.cursor)'
    BY <2>1, <2>4 DEF PageReaches, CoveredTo
  <2>6. BackfillOK'
    BY <2>1, <2>2, <2>5 DEF BackfillOK
  <2> QED  BY <1>6, <2>1, <2>6
<1>9. CASE BatchCommits
  <2> PICK page, next : page = backfill.page /\ next = IF page = {} THEN cursor ELSE LastOf(page)
    OBVIOUS
  <2>1. /\ backfill'.pc = "committed" /\ backfill'.last = Exhausted(page) /\ backfill'.cursor = next
        /\ trend' = [x \in Queries \X Days |-> IF x \in page THEN backfill.summary[x] ELSE trend[x]]
        /\ backfill.pc = "rebuilt" /\ UNCHANGED checkpoint
    BY <1>9 DEF BatchCommits, IdleBackfill
  <2>2. PageReaches(page) /\ page \subseteq Queries \X Days
    BY <1>2, <2>1 DEF BackfillOK
  <2>3. \A x \in page : Covered(x)'
    <3>1. \A x \in page : backfill.summary[x] \in SUBSET Runs
      BY <2>1 DEF IInv, TrendInv, SummariesOK, SavedOn, Saved
    <3>2. \A x \in page \cap (Queries \X Days) : Covered(x)'
      <4> DEFINE f == backfill.summary
      <4>1. trend' = [x \in Queries \X Days |-> IF x \in page THEN f[x] ELSE trend[x]]
        BY <2>1
      <4>2. \A x \in page : f[x] \in SUBSET Runs
        BY <3>1
      <4> HIDE DEF f
      <4> QED  BY <4>1, <4>2, ReplacedDays
    <3> QED  BY <2>2, <3>2
  <2>4. \A x \in Permanent : Covered(x)' \/ (page # {} /\ ~Exhausted(page) /\ Before(LastOf(page), x))
    BY <1>4, <2>2, <2>3 DEF PageReaches
  <2>5. Exhausted(page) => AllCovered'
    BY <1>4, <2>4 DEF AllCovered
  <2>6. CoveredTo(next)'
    BY <1>4, <1>5, <2>4 DEF CoveredTo
  <2>7. CoveredTo(backfill.cursor)' /\ (backfill'.last => AllCovered')
    BY <2>1, <2>5, <2>6 DEF CoveredTo
  <2>8. BackfillOK'
    BY <2>1, <2>7 DEF BackfillOK
  <2> QED  BY <1>6, <2>1, <2>8
<1>10. CASE BackfillStops
  BY <1>6, <1>10, IdleShape, IdleBackfillOK DEF BackfillStops
<1>11. CASE BatchIsBlocked
  <2>1. /\ checkpoint'.cursor = cursor /\ checkpoint'.complete = checkpoint.complete
        /\ backfill'.pc = "idle"
    BY <1>2, <1>11, IdleShape DEF BatchIsBlocked
  <2> QED  BY <1>2, <1>3, <1>4, <2>1, IdleBackfillOK, WithinScope
<1>12. CASE WritesCheckpoint
  <2>1. /\ checkpoint'.cursor = cursor /\ checkpoint'.complete = backfill.last
        /\ backfill.pc = "committed"
        /\ backfill'.pc \in {"idle", "running"} /\ (backfill'.pc # "idle" => backfill'.cursor = cursor)
    BY <1>2, <1>12, IdleShape DEF WritesCheckpoint, IdleBackfill
  <2>2. BackfillOK' /\ CoveredTo(cursor)'
    BY <1>2, <1>4, <2>1, BetweenPages, IdleBackfillOK
  <2>3. backfill.last => AllCovered'
    BY <1>2, <1>4, <2>1 DEF BackfillOK
  <2> QED  BY <1>2, <1>3, <2>1, <2>2, <2>3, WithinScope
<1> QED
  BY <1>7, <1>8, <1>9, <1>10, <1>11, <1>12 DEF Backfilling

LEMMA NextCoverInv == IInv /\ CoverInv /\ [Next]_vars => CoverInv'
<1> SUFFICES ASSUME IInv, CoverInv, [Next]_vars PROVE CoverInv'
  OBVIOUS
<1>1. TrendKept /\ TrackedOK'
  BY NextTrendKept, NextTracked DEF CoverInv
<1>2. CASE UNCHANGED <<backfill, checkpoint>>
  BY <1>1, <1>2, SameBackfill
<1>3. CASE Backfilling
  BY <1>1, <1>3, BackfillCovers
<1> QED
  BY <1>2, <1>3
  DEF Next, Backfilling, BrowserEnds, Inserts, InsertFails, Rebuilds, Commits, RollsBack,
      MaintainPartitions, Subscribe, Unsubscribe, CreateExport, ReadsPage, ExportFails, Tick, store, vars

\* A backfill that says it is complete has covered every day of every query that was
\* tracked all the time, whatever was interrupted, blocked or saved meanwhile.
THEOREM CompleteBackfillsCover == Spec => []CompleteBackfillCovers
<1>1. CoverInv => CompleteBackfillCovers
  BY DEF CoverInv, CheckpointOK, CompleteBackfillCovers, AllCovered, Permanent, Covered
<1> QED  BY <1>1, InitCoverInv, NextCoverInv, Invariance, PTL DEF Spec

----------------------------------------------------------------------------
(* An export reads its whole manifest.                                     *)

JobShape == DOMAIN job = {"status", "range", "manifest", "rows", "cursor"}

\* What an export has still to read is in range and readable.
Pending ==
  \A r \in job.manifest : r \in Saved /\ InRange(r, job.range) /\ Readable(MonthOf(r))

\* What comes at or before its cursor has been read.
ReadTo(cursor) ==
  \A row \in RowsOf(job.manifest) : row \in job.rows \/ cursor = Nothing \/ RowBefore(cursor, row)

ExportInv ==
  /\ JobShape
  /\ job.status \in {"active", "done"} =>
       job.manifest \subseteq Saved /\ job.rows \subseteq RowsOf(job.manifest)
  /\ job.status = "active" =>
       /\ Pending /\ ReadTo(job.cursor)
       /\ job.cursor = Nothing \/ job.cursor \in RowsOf(job.manifest)
  /\ ExportIsComplete

LEMMA InitExportInv == Init => ExportInv
<1> SUFFICES ASSUME Init PROVE ExportInv
  OBVIOUS
<1>1. job = NoJob
  BY DEF Init
<1> QED  BY <1>1 DEF ExportInv, JobShape, ExportIsComplete, NoJob

LEMMA RowsAreRows ==
  /\ IsFiniteSet(Runs) /\ IsFiniteSet(Keys) /\ PageSize \in Nat \ {0}
  /\ \A x \in Runs \X Keys : RowId[x] \in Nat
  /\ \A x, y \in Runs \X Keys : RowId[x] = RowId[y] => x = y
BY ObservationsAssumption

\* Rows are ordered by the time of their run and their id.
LEMMA RowOrder ==
  ASSUME RunsOK
  PROVE  /\ \A x \in Runs \X Keys : ~RowBefore(x, x)
         /\ \A x, y, z \in Runs \X Keys : RowBefore(x, y) /\ RowBefore(y, z) => RowBefore(x, z)
         /\ \A x, y \in Runs \X Keys : x = y \/ RowBefore(x, y) \/ RowBefore(y, x)
<1>1. \A x \in Runs \X Keys : run[x[1]].at \in Nat /\ RowId[x] \in Nat
  <2>1. \A r \in Runs : run[r].at \in Nat
    BY KeyTypes
  <2> QED  BY <2>1, RowsAreRows
<1>2. \A x \in Runs \X Keys : ~RowBefore(x, x)
  BY <1>1 DEF RowBefore
<1>3. \A x, y, z \in Runs \X Keys : RowBefore(x, y) /\ RowBefore(y, z) => RowBefore(x, z)
  BY <1>1 DEF RowBefore
<1>4. \A x, y \in Runs \X Keys : x = y \/ RowBefore(x, y) \/ RowBefore(y, x)
  BY <1>1, RowsAreRows DEF RowBefore
<1> QED  BY <1>2, <1>3, <1>4

\* A page of an export is the beginning of what is left, or all of it.
LEMMA ExportPage ==
  ASSUME RunsOK, NEW L \in SUBSET (Runs \X Keys)
  PROVE  LET page == {x \in L : Cardinality({y \in L : y # x /\ ~RowBefore(x, y)}) < PageSize}
             last == CHOOSE x \in page : \A y \in page : ~RowBefore(x, y) IN
         /\ page = {} => L = {}
         /\ Cardinality(page) < PageSize => page = L
         /\ page # {} => last \in page /\ \A x \in L \ page : RowBefore(last, x)
<1> DEFINE R == {p \in L \X L : RowBefore(p[1], p[2])}
           page == {x \in L : Cardinality({y \in L : y # x /\ ~RowBefore(x, y)}) < PageSize}
           last == CHOOSE x \in page : \A y \in page : ~RowBefore(x, y)
<1>1. IsFiniteSet(L)
  BY RowsAreRows, FS_Product, FS_Subset
<1>2. \A x, y \in L : <<x, y>> \in R <=> RowBefore(x, y)
  OBVIOUS
<1> HIDE DEF R
<1>3. Orders(R, L)
  BY <1>2, RowOrder DEF Orders
<1>4. page = Page(L, R, PageSize)
  <2>1. \A x \in L : {y \in L : y # x /\ ~RowBefore(x, y)} = Earlier(L, R, x)
    BY <1>2, RowOrder DEF Earlier
  <2> QED  BY <2>1 DEF Page
<1>5. page \subseteq L
  OBVIOUS
<1> HIDE DEF page
<1>6. Cardinality(page) < PageSize => page = L
  BY <1>1, <1>3, <1>4, PageIsPrefix, RowsAreRows
<1>7. page = {} => L = {}
  BY <1>6, FS_EmptySet, RowsAreRows
<1>8. ASSUME page # {} PROVE last \in page /\ \A x \in L \ page : RowBefore(last, x)
  <2>1. PICK l \in page : /\ \A y \in page : y = l \/ <<y, l>> \in R
                          /\ \A y \in L \ page : <<l, y>> \in R
    BY <1>1, <1>3, <1>4, <1>8, PageHasLast, RowsAreRows
  <2>2. \A y \in page : ~RowBefore(l, y)
    BY <1>2, <1>3, <1>5, <2>1 DEF Orders
  <2>3. last \in page /\ \A y \in page : ~RowBefore(last, y)
    BY <2>2
  <2> HIDE DEF last
  <2>4. last = l
    BY <1>2, <1>5, <2>1, <2>3
  <2> QED  BY <1>2, <1>5, <2>1, <2>4
<1> QED  BY <1>6, <1>7, <1>8 DEF page, last

\* A saved run stays as it is.
LEMMA SavedStays ==
  ASSUME IInv, [Next]_vars PROVE Saved \subseteq Saved' /\ \A r \in Saved : run'[r] = run[r]
<1>1. ASSUME NEW r \in Runs, NEW x, OneRunChanges(r, x), run[r].stage # "saved"
      PROVE  Saved \subseteq Saved' /\ \A s \in Saved : run'[s] = run[s]
  BY <1>1, ChangedRun DEF IInv, Saved
<1>2. ASSUME NEW r \in Runs,
             \/ \E keys \in SUBSET Keys : BrowserEnds(r, keys)
             \/ Inserts(r) \/ InsertFails(r) \/ Rebuilds(r) \/ Commits(r) \/ RollsBack(r)
      PROVE  \E x : OneRunChanges(r, x) /\ run[r].stage # "saved"
  <2>1. CASE \E keys \in SUBSET Keys : BrowserEnds(r, keys)
    <3>1. PICK x : OneRunChanges(r, x) /\ run[r].stage = "idle"
      BY <2>1, RunSteps DEF IInv
    <3> QED  BY <3>1
  <2>2. CASE Inserts(r) \/ InsertFails(r)
    <3>1. PICK x : OneRunChanges(r, x) /\ run[r].stage = "captured"
      BY <2>2, RunSteps DEF IInv
    <3> QED  BY <3>1
  <2>3. CASE Rebuilds(r) \/ Commits(r) \/ RollsBack(r)
    <3>1. PICK x : OneRunChanges(r, x) /\ run[r].stage \in {"open", "rebuilt"}
      BY <2>3, RunSteps DEF IInv
    <3> QED  BY <3>1
  <2> QED  BY <1>2, <2>1, <2>2, <2>3
<1>3. CASE UNCHANGED run
  BY <1>3 DEF Saved
<1> QED  BY <1>1, <1>2, <1>3, StillRuns DEF Next, Backfilling, Elsewhere

\* The rows of saved runs stay, and their order.
LEMMA RowsStay ==
  ASSUME IInv, [Next]_vars, NEW runs \in SUBSET Saved
  PROVE  /\ RowsOf(runs)' = RowsOf(runs)
         /\ \A x, y \in RowsOf(runs) : RowBefore(x, y)' <=> RowBefore(x, y)
         /\ \A r \in runs : MonthOf(r)' = MonthOf(r) /\ \A range : InRange(r, range)' <=> InRange(r, range)
<1>1. \A r \in runs : run'[r] = run[r]
  BY SavedStays
<1> QED  BY <1>1 DEF RowsOf, RowBefore, MonthOf, InRange

\* A partition that an active export reads stays readable.
LEMMA StaysReadable ==
  ASSUME IInv, [Next]_vars, job.status = "active", NEW r \in Saved, InRange(r, job.range),
         Readable(MonthOf(r))
  PROVE  Readable(MonthOf(r))'
<1>1. MonthOf(r)' = MonthOf(r) /\ run[r].at \in Times /\ MonthOf(r) \in Months
  BY SavedStays, InTime DEF IInv, RunsOK, RunState, Saved, MonthOf
<1>2. CASE MaintainPartitions
  <2> DEFINE m == MonthOf(r)
             month == Month(now)
             needed == {n \in Months : n + 1 >= month /\ n <= month + 2 /\ partition[n] = "absent"}
             purged == Oldest(MaxActions, {n \in Months : /\ partition[n] = "archived"
                                                          /\ n + PurgeAfter < month
                                                          /\ ~Protected(n)})
             archived == Oldest(MaxActions - Cardinality(purged),
                                {n \in Months : partition[n] = "hot" /\ n + ArchiveAfter < month})
  <2>1. Protected(m)
    BY <1>1 DEF Protected, InRange, MonthOf
  <2>2. m \notin needed /\ m \notin purged
    BY <2>1 DEF Oldest, Readable
  <2>3. partition' = [n \in Months |-> CASE n \in needed -> "hot"
                                         [] n \in purged -> "purged"
                                         [] n \in archived -> "archived"
                                         [] OTHER -> partition[n]]
    BY <1>2 DEF MaintainPartitions
  <2> HIDE DEF needed, purged, archived, m
  <2>4. partition'[m] \in {"archived", partition[m]}
    BY <1>1, <2>2, <2>3 DEF m
  <2> QED  BY <1>1, <2>4 DEF m, Readable
<1>3. CASE UNCHANGED partition
  BY <1>1, <1>3 DEF Readable
<1> QED
  BY <1>2, <1>3
  DEF Next, BrowserEnds, Inserts, InsertFails, Rebuilds, Commits, RollsBack, BackfillStarts, BatchChecks,
      BatchIsBlocked, BatchRebuilds, BatchCommits, WritesCheckpoint, BackfillStops, Subscribe, Unsubscribe,
      CreateExport, ReadsPage, ExportFails, Tick, store, vars

LEMMA SameExport == ASSUME IInv, ExportInv, [Next]_vars, UNCHANGED job PROVE ExportInv'
<1> USE DEF ExportInv
<1>1. CASE job.status \in {"active", "done"}
  <2> PICK manifest, cursor, rows : manifest = job.manifest /\ cursor = job.cursor /\ rows = job.rows
    OBVIOUS
  <2>1. manifest \in SUBSET Saved /\ rows \subseteq RowsOf(manifest)
    BY <1>1
  <2>2. /\ RowsOf(manifest)' = RowsOf(manifest) /\ manifest \subseteq Saved'
        /\ \A x, y \in RowsOf(manifest) : RowBefore(x, y)' <=> RowBefore(x, y)
        /\ \A r \in manifest : MonthOf(r)' = MonthOf(r) /\ \A range : InRange(r, range)' <=> InRange(r, range)
    BY <2>1, RowsStay, SavedStays
  <2>3. RowsOf(job.manifest)' = RowsOf(manifest)
    BY <2>2 DEF RowsOf
  <2>4. CASE job.status = "active"
    <3>1. Pending'
      BY <2>1, <2>2, <2>4, StaysReadable DEF Pending, InRange
    <3>2. ReadTo(job.cursor)'
      <4>1. ASSUME cursor # Nothing
            PROVE  \A row \in RowsOf(manifest) : RowBefore(job.cursor, row)' <=> RowBefore(cursor, row)
        BY <2>2, <2>4, <4>1 DEF RowBefore
      <4> QED  BY <2>3, <2>4, <4>1 DEF ReadTo
    <3> QED  BY <2>1, <2>2, <2>3, <2>4, <3>1, <3>2 DEF JobShape, ExportIsComplete
  <2>5. CASE job.status = "done"
    BY <2>1, <2>2, <2>3, <2>5 DEF JobShape, ExportIsComplete
  <2> QED  BY <1>1, <2>4, <2>5
<1>2. CASE job.status \notin {"active", "done"}
  BY <1>2 DEF JobShape, ExportIsComplete
<1> QED  BY <1>1, <1>2

LEMMA ReadsPageInv == ASSUME IInv, ExportInv, ReadsPage PROVE ExportInv'
<1> USE DEF ExportInv
<1> PICK manifest, cursor, rows, range :
      manifest = job.manifest /\ cursor = job.cursor /\ rows = job.rows /\ range = job.range
  OBVIOUS
<1> DEFINE L == {row \in RowsOf(manifest) : /\ Readable(MonthOf(row[1])) /\ InRange(row[1], range)
                                            /\ cursor = Nothing \/ RowBefore(cursor, row)}
           P == {x \in L : Cardinality({y \in L : y # x /\ ~RowBefore(x, y)}) < PageSize}
           last == CHOOSE x \in P : \A y \in P : ~RowBefore(x, y)
<1>1. /\ job.status = "active" /\ UNCHANGED run /\ UNCHANGED partition
      /\ job' = [job EXCEPT !.rows = @ \cup P, !.cursor = IF P = {} THEN @ ELSE last,
                            !.status = IF Cardinality(P) < PageSize THEN "done" ELSE @]
  BY DEF ReadsPage, store
<1>2. /\ manifest \subseteq Saved /\ rows \subseteq RowsOf(manifest) /\ Pending /\ ReadTo(cursor)
      /\ cursor = Nothing \/ cursor \in RowsOf(manifest)
  BY <1>1
<1>3. RowsOf(manifest) \subseteq Runs \X Keys /\ \A row \in RowsOf(manifest) : row[1] \in manifest
  BY <1>2 DEF RowsOf, Saved
<1>4. L = {row \in RowsOf(manifest) : cursor = Nothing \/ RowBefore(cursor, row)}
  BY <1>2, <1>3 DEF Pending
<1>5. /\ P = {} => L = {}
      /\ Cardinality(P) < PageSize => P = L
      /\ P # {} => last \in P /\ \A x \in L \ P : RowBefore(last, x)
  <2>1. L \in SUBSET (Runs \X Keys)
    BY <1>3
  <2> HIDE DEF L
  <2> QED  BY <2>1, ExportPage DEF IInv
<1>6. P \subseteq L /\ L \subseteq RowsOf(manifest)
  OBVIOUS
<1>7. RowsOf(manifest) \subseteq rows \cup L
  BY <1>2, <1>4 DEF ReadTo
<1> HIDE DEF P, last
<1>8a. PICK page : page = P
  OBVIOUS
<1>8b. PICK next : next = IF P = {} THEN cursor ELSE last
  OBVIOUS
<1>8. page = P /\ next = IF P = {} THEN cursor ELSE last
  BY <1>8a, <1>8b
<1>9. /\ DOMAIN job' = DOMAIN job /\ job'.range = range /\ job'.manifest = manifest
      /\ job'.rows = rows \cup page /\ job'.cursor = next
      /\ job'.status = IF Cardinality(page) < PageSize THEN "done" ELSE "active"
  BY <1>1, <1>8 DEF JobShape
<1>10. /\ RowsOf(job.manifest)' = RowsOf(manifest) /\ Saved' = Saved
       /\ \A x, y : RowBefore(x, y)' <=> RowBefore(x, y)
  BY <1>1, <1>9 DEF RowsOf, Saved, RowBefore
<1>11. job'.rows \subseteq RowsOf(manifest) /\ (next = Nothing \/ next \in RowsOf(manifest))
  BY <1>2, <1>5, <1>6, <1>8, <1>9
<1>12. CASE Cardinality(page) < PageSize
  <2>1. job'.rows = RowsOf(manifest)
    BY <1>5, <1>7, <1>8, <1>9, <1>11, <1>12
  <2> QED  BY <1>2, <1>9, <1>10, <1>11, <1>12, <2>1 DEF JobShape, ExportIsComplete
<1>13. CASE ~(Cardinality(page) < PageSize)
  <2>1. Pending'
    BY <1>1, <1>2, <1>9, <1>10 DEF Pending, InRange, MonthOf, Readable
  <2>2. \A row \in RowsOf(manifest) : row \in rows \cup page \/ RowBefore(next, row)
    BY <1>5, <1>7, <1>8
  <2>3. ReadTo(job.cursor)'
    BY <1>9, <1>10, <2>2 DEF ReadTo, RowBefore
  <2> QED  BY <1>2, <1>9, <1>10, <1>11, <1>13, <2>1, <2>3 DEF JobShape, ExportIsComplete
<1> QED  BY <1>12, <1>13

LEMMA NextExportInv == IInv /\ ExportInv /\ [Next]_vars => ExportInv'
<1> SUFFICES ASSUME IInv, ExportInv, [Next]_vars PROVE ExportInv'
  OBVIOUS
<1>1. ASSUME NEW query \in Queries, NEW range \in Ranges, CreateExport(query, range) PROVE ExportInv'
  <2> PICK manifest : manifest = {r \in Saved : QueryOf[r] = query /\ InRange(r, range)}
    OBVIOUS
  <2>1. /\ DOMAIN job' = {"status", "range", "manifest", "rows", "cursor"}
        /\ job'.status = "active" /\ job'.range = range /\ job'.manifest = manifest
        /\ job'.rows = {} /\ job'.cursor = Nothing /\ UNCHANGED <<run, partition>>
        /\ \A r \in manifest : Readable(MonthOf(r))
    BY <1>1 DEF CreateExport, NoJob, store
  <2>2. Saved' = Saved /\ manifest \subseteq Saved
    BY <2>1 DEF Saved
  <2>3. Pending' /\ ReadTo(job.cursor)'
    BY <2>1, <2>2 DEF Pending, ReadTo, InRange, Readable, MonthOf
  <2> QED  BY <2>1, <2>2, <2>3 DEF ExportInv, JobShape, ExportIsComplete
<1>2. CASE ExportFails
  BY <1>2 DEF ExportFails, NoJob, ExportInv, JobShape, ExportIsComplete
<1>3. CASE UNCHANGED job
  BY <1>3, SameExport
<1> QED
  BY <1>1, <1>2, <1>3, ReadsPageInv
  DEF Next, BrowserEnds, Inserts, InsertFails, Rebuilds, Commits, RollsBack, BackfillStarts, BatchChecks,
      BatchIsBlocked, BatchRebuilds, BatchCommits, WritesCheckpoint, BackfillStops, Subscribe, Unsubscribe,
      MaintainPartitions, Tick, store, vars

\* A finished export has every observation of its manifest, however many pages it took
\* and whatever was archived and purged between them.
THEOREM ExportsAreComplete == Spec => []ExportIsComplete
<1>1. ExportInv => ExportIsComplete
  BY DEF ExportInv
<1> QED  BY <1>1, InitExportInv, NextExportInv, Invariance, PTL DEF Spec
=============================================================================
