-------------------------- MODULE RunCreationProofs --------------------------
(***************************************************************************)
(* Proofs about RunCreation, for every set of searches, subscriptions and  *)
(* requests and every length of the intervals and buckets.                 *)
(*                                                                         *)
(* Why a generation is new: the generation of a run's key is at most the   *)
(* number of other failed runs of its search since the bucket began, and   *)
(* failed runs stay failed.  A request that goes on to insert has found    *)
(* every run it knows of the bucket failed, so what it counts includes     *)
(* that run besides the ones that the run itself counted.                  *)
(***************************************************************************)
EXTENDS RunCreation, FiniteSetTheorems, TLAPS

RowState == [status : {"active", "succeeded", "failed"}, at : Time]

RequestState ==
  [pc : {"idle", "active", "recent", "count", "provider", "insert"}, query : Queries, time : Time,
   generation : 0..MaxRuns, known : SUBSET Keys]

SubState == [status : {"absent", "paused", "enabled"}, due : Nat \cup {NoTime}]

TickState ==
  [pc : {"idle", "commit"}, time : Time, locked : SUBSET Subs,
   enabled : SUBSET Providers, active : SUBSET Queries]

\* The failed runs of a search since a bucket began.
Failed(q, bucket) ==
  {k \in RunsOf(q) : rows[k].status = "failed" /\ rows[k].at >= bucket * OnDemandBucket}

RowsOK ==
  /\ DOMAIN rows \subseteq Keys /\ rows \in [DOMAIN rows -> RowState]
  /\ \A q \in Queries : IsFiniteSet(RunsOf(q)) /\ Cardinality(RunsOf(q)) <= MaxRuns

\* A run starts in the bucket of its key, and failed runs account for its generation.
GenerationOK(k) ==
  k.kind = "on_demand" =>
    /\ rows[k].at >= k.bucket * OnDemandBucket
    /\ Cardinality(Failed(k.query, k.bucket) \ {k}) >= k.generation

BucketOf(p) == request[p].time \div OnDemandBucket

\* The request has its generation.
HasCounted(p) == request[p].pc \in {"provider", "insert"}

KnownOK(p) ==
  \A k \in request[p].known :
    /\ k \in DOMAIN rows /\ k.kind = "on_demand" /\ k.query = request[p].query
    /\ rows[k].status # "active"
    /\ request[p].pc = "count" /\ k.bucket = BucketOf(p) => rows[k].status = "failed"
    /\ HasCounted(p) /\ k.bucket = BucketOf(p) => k.generation < request[p].generation

CountOK(p) ==
  HasCounted(p) =>
    request[p].generation <= Cardinality(Failed(request[p].query, BucketOf(p)))

RequestsOK ==
  /\ request \in [Requests -> RequestState]
  /\ \A p \in Requests : KnownOK(p) /\ CountOK(p)

SubsOK ==
  /\ sub \in [Subs -> SubState]
  /\ \A s \in Subs : sub[s].status = "enabled" => sub[s].due \in Nat

\* Nobody else changes a subscription that the scheduler has locked.
TickOK ==
  /\ tick \in TickState
  /\ tick.pc = "idle" => tick.locked = {}
  /\ \A s \in tick.locked : sub[s].status = "enabled" /\ sub[s].due <= tick.time

IInv ==
  /\ now \in Time /\ enabled \subseteq Providers
  /\ RowsOK /\ \A k \in DOMAIN rows : GenerationOK(k)
  /\ RequestsOK /\ SubsOK /\ TickOK

----------------------------------------------------------------------------
LEMMA Numbers ==
  /\ Interval \in Nat \ {0} /\ ScheduleBucket \in Nat \ {0} /\ OnDemandBucket \in Nat \ {0}
  /\ Horizon \in Nat /\ MaxRuns \in Nat /\ NoTime \notin Nat
  /\ Time \subseteq Nat /\ 0 \in Time
  /\ Queries # {} /\ QueryOf \in [Subs -> Queries] /\ ProviderOf \in [Queries -> Providers]
BY CreationAssumption DEF Time

\* A bucket is no later than its instants, in number and in time.
LEMMA Buckets ==
  ASSUME NEW t \in Nat, NEW b \in Nat \ {0}
  PROVE  t \div b \in 0..t /\ (t \div b) * b <= t
OBVIOUS

LEMMA BucketInTime ==
  ASSUME NEW t \in Time, NEW b \in Nat \ {0} PROVE t \div b \in Time
BY Buckets, Numbers DEF Time

LEMMA OneOfTheQueries == (CHOOSE q \in Queries : TRUE) \in Queries
BY Numbers

LEMMA IdleState == IdleRequest \in RequestState /\ IdleRequest.pc = "idle" /\ IdleRequest.known = {}
BY OneOfTheQueries, Numbers DEF IdleRequest, RequestState

LEMMA InitIInv == Init => IInv
<1> SUFFICES ASSUME Init PROVE IInv
  OBVIOUS
<1>1. now \in Time /\ enabled \subseteq Providers /\ DOMAIN rows = {}
  BY Numbers DEF Init
<1>2. RowsOK /\ \A k \in DOMAIN rows : GenerationOK(k)
  <2>1. \A q \in Queries : RunsOf(q) = {}
    BY <1>1 DEF RunsOf
  <2>2. \A q \in Queries : IsFiniteSet(RunsOf(q)) /\ Cardinality(RunsOf(q)) <= MaxRuns
    <3>1. Cardinality({}) = 0 /\ IsFiniteSet({}) /\ 0 <= MaxRuns
      BY FS_EmptySet, Numbers
    <3> QED  BY <2>1, <3>1
  <2>3. DOMAIN rows \subseteq Keys /\ rows \in [DOMAIN rows -> RowState]
    BY <1>1 DEF Init
  <2>4. \A k \in DOMAIN rows : GenerationOK(k)
    BY <1>1
  <2> QED  BY <2>2, <2>3, <2>4 DEF RowsOK
<1>3. RequestsOK
  BY IdleState DEF Init, RequestsOK, KnownOK, CountOK, HasCounted
<1>4. SubsOK
  BY DEF Init, SubsOK, SubState
<1>5. TickOK
  BY Numbers DEF Init, TickOK, TickState, IdleTick
<1> QED  BY <1>1, <1>2, <1>3, <1>4, <1>5 DEF IInv

----------------------------------------------------------------------------
(* Rows: what no step undoes.                                              *)

Evolve ==
  \A k \in DOMAIN rows :
    /\ k \in DOMAIN rows' /\ rows'[k].at >= rows[k].at
    /\ rows[k].status # "active" => rows'[k].status # "active"
    /\ rows[k].status = "failed" => rows'[k].status = "failed"

LEMMA RowTypes ==
  ASSUME RowsOK, NEW k \in DOMAIN rows
  PROVE  /\ k \in Keys /\ k.query \in Queries /\ k.bucket \in Nat /\ k.generation \in Nat
         /\ rows[k] \in RowState /\ rows[k].at \in Nat
<1>1. k \in Keys /\ rows[k] \in RowState
  BY DEF RowsOK
<1>2. k.query \in Queries /\ k.bucket \in Time /\ k.generation \in 0..MaxRuns /\ rows[k].at \in Time
  BY <1>1 DEF Keys, RowState
<1>3. \A n \in 0..MaxRuns : n \in Nat
  BY Numbers
<1>4. Time \subseteq Nat
  BY Numbers
<1> QED  BY <1>1, <1>2, <1>3, <1>4

LEMMA FailedFinite ==
  ASSUME RowsOK, NEW q \in Queries, NEW b
  PROVE  /\ IsFiniteSet(Failed(q, b)) /\ Cardinality(Failed(q, b)) \in 0..MaxRuns
         /\ \A S \in SUBSET Failed(q, b) : IsFiniteSet(S) /\ Cardinality(S) \in Nat
                                           /\ Cardinality(S) <= Cardinality(Failed(q, b))
<1>1. IsFiniteSet(RunsOf(q)) /\ Cardinality(RunsOf(q)) <= MaxRuns /\ Failed(q, b) \subseteq RunsOf(q)
  BY DEF RowsOK, Failed
<1>2. /\ IsFiniteSet(Failed(q, b)) /\ Cardinality(Failed(q, b)) <= Cardinality(RunsOf(q))
  BY <1>1, FS_Subset
<1>3. Cardinality(Failed(q, b)) \in Nat /\ Cardinality(RunsOf(q)) \in Nat
  BY <1>1, <1>2, FS_CardinalityType
<1>4. ASSUME NEW S \in SUBSET Failed(q, b)
      PROVE  IsFiniteSet(S) /\ Cardinality(S) \in Nat /\ Cardinality(S) <= Cardinality(Failed(q, b))
  BY <1>2, FS_Subset, FS_CardinalityType
<1> QED  BY <1>1, <1>2, <1>3, <1>4, Numbers

\* Failed runs only become more.
LEMMA FailedGrows ==
  ASSUME RowsOK, RowsOK', Evolve, NEW q \in Queries, NEW b \in Nat
  PROVE  Failed(q, b) \subseteq Failed(q, b)'
<1> SUFFICES ASSUME NEW k \in Failed(q, b) PROVE k \in Failed(q, b)'
  OBVIOUS
<1>1. k \in DOMAIN rows /\ k.query = q /\ rows[k].status = "failed"
      /\ rows[k].at >= b * OnDemandBucket
  BY DEF Failed, RunsOf
<1>2. k \in DOMAIN rows' /\ rows'[k].at >= rows[k].at /\ rows'[k].status = "failed"
  BY <1>1 DEF Evolve
<1>3. rows[k].at \in Nat /\ rows'[k].at \in Nat
  BY <1>1, <1>2, Numbers DEF RowsOK, RowState
<1>4. b * OnDemandBucket \in Nat
  BY Numbers
<1> QED  BY <1>1, <1>2, <1>3, <1>4 DEF Failed, RunsOf

LEMMA MoreFailed ==
  ASSUME RowsOK, RowsOK', Evolve, NEW q \in Queries, NEW b \in Nat, NEW S
  PROVE  /\ Cardinality(Failed(q, b) \ S) \in Nat /\ Cardinality(Failed(q, b)' \ S) \in Nat
         /\ Cardinality(Failed(q, b)' \ S) >= Cardinality(Failed(q, b) \ S)
<1>1. IsFiniteSet(RunsOf(q)') /\ Failed(q, b)' \subseteq RunsOf(q)'
  BY DEF RowsOK, Failed
<1>2. IsFiniteSet(Failed(q, b)' \ S)
  BY <1>1, FS_Subset
<1>3. (Failed(q, b) \ S) \subseteq (Failed(q, b)' \ S)
  BY FailedGrows
<1>4. IsFiniteSet(Failed(q, b) \ S) /\ Cardinality(Failed(q, b) \ S) <= Cardinality(Failed(q, b)' \ S)
  BY <1>2, <1>3, FS_Subset
<1> QED  BY <1>2, <1>4, FS_CardinalityType

LEMMA KeptGenerations ==
  ASSUME RowsOK, RowsOK', Evolve, NEW k \in DOMAIN rows, GenerationOK(k)
  PROVE  GenerationOK(k)'
<1> SUFFICES ASSUME k.kind = "on_demand"
             PROVE  /\ rows'[k].at >= k.bucket * OnDemandBucket
                    /\ Cardinality(Failed(k.query, k.bucket)' \ {k}) >= k.generation
  BY DEF GenerationOK
<1>1. k.query \in Queries /\ k.bucket \in Nat /\ k.generation \in Nat /\ rows[k].at \in Nat
      /\ k.bucket * OnDemandBucket \in Nat
  BY RowTypes, Numbers
<1>2. rows'[k].at \in Nat /\ rows'[k].at >= rows[k].at
  BY Numbers DEF RowsOK, RowState, Evolve
<1>3. /\ Cardinality(Failed(k.query, k.bucket) \ {k}) \in Nat
      /\ Cardinality(Failed(k.query, k.bucket)' \ {k}) \in Nat
      /\ Cardinality(Failed(k.query, k.bucket)' \ {k}) >= Cardinality(Failed(k.query, k.bucket) \ {k})
  BY <1>1, MoreFailed
<1> QED  BY <1>1, <1>2, <1>3 DEF GenerationOK

LEMMA RequestTypes ==
  ASSUME RequestsOK, NEW p \in Requests
  PROVE  /\ request[p] \in RequestState /\ request[p].query \in Queries /\ request[p].time \in Time
         /\ request[p].generation \in Nat /\ request[p].generation <= MaxRuns
         /\ BucketOf(p) \in Time /\ BucketOf(p) \in Nat
         /\ BucketOf(p) * OnDemandBucket <= request[p].time
<1>1. /\ request[p] \in RequestState /\ request[p].query \in Queries /\ request[p].time \in Time
      /\ request[p].generation \in 0..MaxRuns
  BY DEF RequestsOK, RequestState
<1>2. /\ request[p].time \in Nat /\ OnDemandBucket \in Nat \ {0}
  BY <1>1, Numbers
<1>3. BucketOf(p) \in Time /\ BucketOf(p) * OnDemandBucket <= request[p].time
  BY <1>1, <1>2, Buckets, BucketInTime DEF BucketOf
<1>4. \A n \in 0..MaxRuns : n \in Nat /\ n <= MaxRuns
  BY Numbers
<1>5. Time \subseteq Nat
  BY Numbers
<1> QED  BY <1>1, <1>3, <1>4, <1>5

\* A request that stands still.
LEMMA KeptRequest ==
  ASSUME RowsOK, RowsOK', Evolve, RequestsOK, NEW p \in Requests, request'[p] = request[p]
  PROVE  KnownOK(p)' /\ CountOK(p)'
<1>1. KnownOK(p) /\ CountOK(p)
  BY DEF RequestsOK
<1>2. KnownOK(p)'
  BY <1>1 DEF KnownOK, Evolve, BucketOf, HasCounted
<1>3. CountOK(p)'
  <2> SUFFICES ASSUME HasCounted(p)
               PROVE  request[p].generation <= Cardinality(Failed(request[p].query, BucketOf(p))')
    BY DEF CountOK, BucketOf, HasCounted
  <2> DEFINE F == Failed(request[p].query, BucketOf(p))
  <2>1. request[p].query \in Queries /\ BucketOf(p) \in Nat /\ request[p].generation \in Nat
    BY RequestTypes
  <2>2. PICK q \in Queries, b \in Nat : q = request[p].query /\ b = BucketOf(p)
    BY <2>1
  <2>3. /\ Cardinality(Failed(q, b) \ {}) \in Nat /\ Cardinality(Failed(q, b)' \ {}) \in Nat
        /\ Cardinality(Failed(q, b)' \ {}) >= Cardinality(Failed(q, b) \ {})
    BY MoreFailed
  <2>4. /\ Failed(q, b)' \ {} = Failed(q, b)' /\ Failed(q, b) \ {} = Failed(q, b)
    OBVIOUS
  <2>5. request[p].generation <= Cardinality(Failed(q, b))
    BY <1>1, <2>2 DEF CountOK
  <2>6. Failed(request[p].query, BucketOf(p))' = Failed(q, b)'
    BY <2>2 DEF BucketOf
  <2> QED  BY <2>1, <2>3, <2>4, <2>5, <2>6
<1> QED  BY <1>2, <1>3

LEMMA StillRequests ==
  ASSUME RowsOK, RowsOK', Evolve, RequestsOK, request' = request PROVE RequestsOK'
BY KeptRequest DEF RequestsOK

----------------------------------------------------------------------------
(* New runs.                                                               *)

LEMMA NewRuns ==
  ASSUME RowsOK, NEW keys \in SUBSET Keys, NEW t \in Time, rows' = WithRuns(keys, t),
         \A k, l \in keys : k.query = l.query => k = l,
         \A k \in keys : k \in DOMAIN rows \/ Cardinality(RunsOf(k.query)) < MaxRuns
  PROVE  /\ RowsOK' /\ Evolve
         /\ \A q \in Queries, b \in Nat : Failed(q, b)' = Failed(q, b)
         /\ DOMAIN rows' = DOMAIN rows \cup keys
         /\ \A k \in keys \ DOMAIN rows : rows'[k] = [status |-> "active", at |-> t]
<1>1. /\ DOMAIN rows' = DOMAIN rows \cup keys
      /\ \A k \in DOMAIN rows : rows'[k] = rows[k]
      /\ \A k \in keys \ DOMAIN rows : rows'[k] = [status |-> "active", at |-> t]
      /\ rows' = [k \in DOMAIN rows' |-> rows'[k]]
  BY DEF WithRuns
<1>2. \A k \in DOMAIN rows : rows[k] \in RowState /\ rows[k].at \in Nat
  BY RowTypes
<1>3. Evolve
  BY <1>1, <1>2 DEF Evolve
<1>4. DOMAIN rows' \subseteq Keys /\ rows' \in [DOMAIN rows' -> RowState]
  <2>1. [status |-> "active", at |-> t] \in RowState
    BY DEF RowState
  <2>2. \A k \in DOMAIN rows' : rows'[k] \in RowState
    BY <1>1, <1>2, <2>1
  <2> QED  BY <1>1, <2>2 DEF RowsOK
<1>5. ASSUME NEW q \in Queries PROVE IsFiniteSet(RunsOf(q)') /\ Cardinality(RunsOf(q)') <= MaxRuns
  <2>1. RunsOf(q)' = RunsOf(q) \cup {k \in keys : k.query = q}
    BY <1>1 DEF RunsOf
  <2>2. IsFiniteSet(RunsOf(q)) /\ Cardinality(RunsOf(q)) <= MaxRuns
    BY DEF RowsOK
  <2>3. CASE \A k \in keys : k.query = q => k \in DOMAIN rows
    <3>1. RunsOf(q)' = RunsOf(q)
      BY <2>1, <2>3 DEF RunsOf
    <3> QED  BY <2>2, <3>1
  <2>4. CASE \E k \in keys : k.query = q /\ k \notin DOMAIN rows
    <3>1. PICK k \in keys : k.query = q /\ k \notin DOMAIN rows
      BY <2>4
    <3>2. RunsOf(q)' = RunsOf(q) \cup {k} /\ k \notin RunsOf(q) /\ Cardinality(RunsOf(q)) < MaxRuns
      BY <2>1, <3>1 DEF RunsOf
    <3>3. IsFiniteSet(RunsOf(q)') /\ Cardinality(RunsOf(q)') = Cardinality(RunsOf(q)) + 1
      BY <2>2, <3>2, FS_AddElement
    <3>4. Cardinality(RunsOf(q)) \in Nat
      BY <2>2, FS_CardinalityType
    <3> QED  BY <3>2, <3>3, <3>4, Numbers
  <2> QED  BY <2>3, <2>4
<1>6. ASSUME NEW q \in Queries, NEW b \in Nat PROVE Failed(q, b)' = Failed(q, b)
  BY <1>1 DEF Failed, RunsOf
<1> QED  BY <1>1, <1>3, <1>4, <1>5, <1>6 DEF RowsOK

RowsStep == RowsOK' /\ Evolve /\ \A k \in DOMAIN rows' : GenerationOK(k)'

LEMMA StillRows == ASSUME IInv, UNCHANGED rows PROVE RowsStep
<1>1. RowsOK' /\ \A k \in DOMAIN rows' : GenerationOK(k)'
  BY DEF IInv, RowsOK, RunsOf, GenerationOK, Failed
<1>2. Evolve
  BY RowTypes DEF IInv, Evolve
<1> QED  BY <1>1, <1>2 DEF RowsStep

\* A scheduled run has no generation.
LEMMA TickRows == ASSUME IInv, TickCommits PROVE RowsStep
<1> DEFINE keys == {ScheduledKey(q, tick.time) : q \in Wanted}
<1>1. tick.time \in Time /\ Wanted \subseteq Queries
  BY Numbers DEF IInv, TickOK, TickState, Wanted
<1>2. tick.time \div ScheduleBucket \in Time
  BY <1>1, BucketInTime, Numbers
<1>3. 0 \in 0..MaxRuns
  BY Numbers
<1>4. \A q \in Wanted : /\ ScheduledKey(q, tick.time) \in Keys /\ ScheduledKey(q, tick.time).query = q
                        /\ ScheduledKey(q, tick.time).kind = "scheduled"
  BY <1>1, <1>2, <1>3 DEF ScheduledKey, Keys
<1>5. /\ RowsOK' /\ Evolve /\ DOMAIN rows' = DOMAIN rows \cup keys
  <2>1. rows' = WithRuns(keys, tick.time) /\ \A q \in Wanted : Cardinality(RunsOf(q)) < MaxRuns
    BY DEF TickCommits
  <2>2. /\ keys \in SUBSET Keys
        /\ \A k, l \in keys : k.query = l.query => k = l
        /\ \A k \in keys : Cardinality(RunsOf(k.query)) < MaxRuns
    BY <1>4, <2>1
  <2> HIDE DEF keys
  <2> QED  BY <1>1, <2>1, <2>2, NewRuns DEF IInv
<1>6. ASSUME NEW k \in DOMAIN rows' PROVE GenerationOK(k)'
  <2>1. CASE k \in DOMAIN rows
    BY <1>5, <2>1, KeptGenerations DEF IInv
  <2>2. CASE k \in keys
    BY <1>4, <2>2 DEF GenerationOK
  <2> QED  BY <1>5, <1>6, <2>1, <2>2
<1> QED  BY <1>5, <1>6 DEF RowsStep

\* A new run is in the bucket of its key, and its generation is accounted for.
LEMMA InsertedRow ==
  ASSUME IInv, NEW key \in Keys, NEW t \in Time, rows' = WithRuns({key}, t),
         key \in DOMAIN rows \/ Cardinality(RunsOf(key.query)) < MaxRuns,
         key.bucket * OnDemandBucket <= t,
         key.generation <= Cardinality(Failed(key.query, key.bucket))
  PROVE  RowsStep
<1>1. key.query \in Queries /\ key.bucket \in Time /\ key.bucket \in Nat
  BY Numbers DEF Keys
<1>2. /\ RowsOK' /\ Evolve /\ DOMAIN rows' = DOMAIN rows \cup {key}
      /\ Failed(key.query, key.bucket)' = Failed(key.query, key.bucket)
      /\ key \notin DOMAIN rows => rows'[key] = [status |-> "active", at |-> t]
  <2>1. RowsOK
    BY DEF IInv
  <2>2. {key} \in SUBSET Keys /\ \A k, l \in {key} : k.query = l.query => k = l
    OBVIOUS
  <2>3. \A k \in {key} : k \in DOMAIN rows \/ Cardinality(RunsOf(k.query)) < MaxRuns
    OBVIOUS
  <2>4. /\ RowsOK' /\ Evolve /\ DOMAIN rows' = DOMAIN rows \cup {key}
        /\ \A q \in Queries, b \in Nat : Failed(q, b)' = Failed(q, b)
        /\ \A k \in {key} \ DOMAIN rows : rows'[k] = [status |-> "active", at |-> t]
    BY <2>1, <2>2, <2>3, NewRuns
  <2> QED  BY <1>1, <2>4
<1>3. ASSUME key \notin DOMAIN rows PROVE GenerationOK(key)'
  <2>1. rows'[key].at = t /\ key \notin Failed(key.query, key.bucket)
    BY <1>2, <1>3 DEF Failed, RunsOf
  <2>2. Failed(key.query, key.bucket)' \ {key} = Failed(key.query, key.bucket)
    BY <1>2, <2>1
  <2> QED  BY <2>1, <2>2 DEF GenerationOK
<1>4. ASSUME NEW k \in DOMAIN rows' PROVE GenerationOK(k)'
  <2>1. CASE k \in DOMAIN rows
    BY <1>2, <2>1, KeptGenerations DEF IInv
  <2>2. CASE k \notin DOMAIN rows
    <3>1. k = key
      BY <1>2, <1>4, <2>2
    <3> QED  BY <1>3, <2>2, <3>1
  <2> QED  BY <2>1, <2>2
<1> QED  BY <1>2, <1>4 DEF RowsStep

LEMMA InsertRows == ASSUME IInv, NEW p \in Requests, Inserts(p) PROVE RowsStep
<1>1. /\ request[p].query \in Queries /\ BucketOf(p) \in Time /\ BucketOf(p) * OnDemandBucket <= request[p].time
      /\ request[p].generation \in 0..MaxRuns /\ request[p].time \in Time
  BY RequestTypes DEF IInv, RequestState
<1>2. /\ KeyOf(p) \in Keys /\ KeyOf(p).query = request[p].query /\ KeyOf(p).bucket = BucketOf(p)
      /\ KeyOf(p).generation = request[p].generation
  BY <1>1 DEF KeyOf, OnDemandKey, Keys, BucketOf
<1>3. PICK key \in Keys : key = KeyOf(p)
  BY <1>2
<1>4. PICK t \in Time : t = request[p].time
  BY <1>1
<1>5. /\ rows' = WithRuns({key}, t)
      /\ key \in DOMAIN rows \/ Cardinality(RunsOf(key.query)) < MaxRuns
  BY <1>2, <1>3, <1>4 DEF Inserts
<1>6. key.generation <= Cardinality(Failed(key.query, key.bucket))
  BY <1>2, <1>3 DEF IInv, RequestsOK, CountOK, HasCounted, Inserts
<1> QED  BY <1>1, <1>2, <1>3, <1>4, <1>5, <1>6, InsertedRow

\* Rescheduling, success and failure.
SettlesRow(k) ==
  /\ DOMAIN rows' = DOMAIN rows /\ rows' = [j \in DOMAIN rows |-> rows'[j]]
  /\ \A j \in DOMAIN rows : j # k => rows'[j] = rows[j]
  /\ rows'[k] \in RowState /\ rows'[k].at >= rows[k].at
  /\ rows[k].status # "active" => rows'[k].status # "active"
  /\ rows[k].status = "failed" => rows'[k].status = "failed"

LEMMA SettledRows == ASSUME IInv, NEW k \in DOMAIN rows, SettlesRow(k) PROVE RowsStep
<1>1. RowsOK'
  <2>1. \A q \in Queries : RunsOf(q)' = RunsOf(q)
    BY DEF SettlesRow, RunsOf
  <2>2. \A j \in DOMAIN rows : rows'[j] \in RowState
    BY DEF SettlesRow, IInv, RowsOK
  <2> QED  BY <2>1, <2>2 DEF SettlesRow, IInv, RowsOK
<1>2. Evolve
  BY RowTypes DEF SettlesRow, IInv, Evolve
<1> QED  BY <1>1, <1>2, KeptGenerations DEF IInv, RowsStep, SettlesRow

LEMMA SettlingSteps ==
  ASSUME IInv, NEW k \in DOMAIN rows, RunIsRescheduled(k) \/ RunSucceeds(k) \/ RunFails(k)
  PROVE  SettlesRow(k)
<1>1. rows \in [DOMAIN rows -> RowState] /\ rows[k] \in RowState /\ rows[k].at \in Nat /\ now \in Nat
  BY RowTypes, Numbers DEF IInv, RowsOK
<1>2. CASE RunIsRescheduled(k)
  <2>1. PICK t \in Time : t \in {now, now + 1} /\ rows' = [rows EXCEPT ![k].at = t]
    BY <1>2 DEF RunIsRescheduled
  <2>2. t >= rows[k].at /\ rows[k].status = "active"
    BY <1>1, <1>2, <2>1 DEF RunIsRescheduled
  <2> QED  BY <1>1, <2>1, <2>2 DEF SettlesRow, RowState
<1>3. CASE RunSucceeds(k)
  <2>1. rows' = [rows EXCEPT ![k].status = "succeeded"] /\ rows[k].status = "active"
    BY <1>3 DEF RunSucceeds
  <2>2. PICK x : x = [rows[k] EXCEPT !.status = "succeeded"]
    OBVIOUS
  <2>3. x \in RowState /\ x.status = "succeeded" /\ x.at = rows[k].at
    BY <1>1, <2>2 DEF RowState
  <2>4. rows' = [rows EXCEPT ![k] = x]
    BY <2>1, <2>2
  <2>5. /\ DOMAIN rows' = DOMAIN rows /\ rows' = [j \in DOMAIN rows |-> rows'[j]] /\ rows'[k] = x
        /\ \A j \in DOMAIN rows : j # k => rows'[j] = rows[j]
    BY <1>1, <2>4
  <2> QED  BY <1>1, <2>1, <2>3, <2>5 DEF SettlesRow
<1>4. CASE RunFails(k)
  <2>1. rows' = [rows EXCEPT ![k].status = "failed"]
    BY <1>4 DEF RunFails
  <2>2. PICK x : x = [rows[k] EXCEPT !.status = "failed"]
    OBVIOUS
  <2>3. x \in RowState /\ x.status = "failed" /\ x.at = rows[k].at
    BY <1>1, <2>2 DEF RowState
  <2>4. rows' = [rows EXCEPT ![k] = x]
    BY <2>1, <2>2
  <2>5. /\ DOMAIN rows' = DOMAIN rows /\ rows' = [j \in DOMAIN rows |-> rows'[j]] /\ rows'[k] = x
        /\ \A j \in DOMAIN rows : j # k => rows'[j] = rows[j]
    BY <1>1, <2>4
  <2> QED  BY <1>1, <2>1, <2>3, <2>5 DEF SettlesRow
<1> QED  BY <1>2, <1>3, <1>4

LEMMA AllRows == ASSUME IInv, [Next]_vars PROVE RowsStep
<1>1. ASSUME NEW k \in DOMAIN rows, RunIsRescheduled(k) \/ RunSucceeds(k) \/ RunFails(k) PROVE RowsStep
  BY <1>1, SettlingSteps, SettledRows
<1> QED
  BY <1>1, StillRows, TickRows, InsertRows
  DEF Next, Requesting, Ticking, Arrive, LooksForActive, LooksForRecentSuccess, CountsGeneration,
      LooksForProvider, RequestFails, TickLooks, TickFails, CreateSubscription, SetEnabled, DeleteSubscription, SwitchProvider, TimePasses,
      vars

----------------------------------------------------------------------------
(* Requests.                                                               *)

\* One request moves on.
LEMMA OneRequest ==
  ASSUME IInv, RowsStep, NEW p \in Requests, NEW x \in RequestState,
         request' = [request EXCEPT ![p] = x], KnownOK(p)' /\ CountOK(p)'
  PROVE  RequestsOK'
<1>1. request' \in [Requests -> RequestState] /\ \A o \in Requests : o # p => request'[o] = request[o]
  BY DEF IInv, RequestsOK
<1>2. ASSUME NEW o \in Requests, o # p PROVE KnownOK(o)' /\ CountOK(o)'
  BY <1>1, <1>2, KeptRequest DEF IInv, RowsStep
<1> QED  BY <1>1, <1>2 DEF RequestsOK

LEMMA RequestIdles ==
  ASSUME IInv, RowsStep, NEW p \in Requests, request' = [request EXCEPT ![p] = IdleRequest]
  PROVE  RequestsOK'
<1>1. request'[p] = IdleRequest
  BY DEF IInv, RequestsOK
<1>2. KnownOK(p)' /\ CountOK(p)'
  BY <1>1, IdleState DEF KnownOK, CountOK, HasCounted
<1> QED  BY <1>2, IdleState, OneRequest

LEMMA ArriveStep ==
  ASSUME IInv, RowsStep, NEW p \in Requests, NEW q \in Queries, Arrive(p, q) PROVE RequestsOK'
<1>1. PICK x : x = [IdleRequest EXCEPT !.pc = "active", !.query = q, !.time = now]
  OBVIOUS
<1>2. x \in RequestState /\ x.pc = "active" /\ x.known = {}
  BY <1>1, IdleState DEF RequestState, IInv
<1>3. request' = [request EXCEPT ![p] = x] /\ request'[p] = x
  BY <1>1 DEF Arrive, IInv, RequestsOK
<1>4. KnownOK(p)' /\ CountOK(p)'
  BY <1>2, <1>3 DEF KnownOK, CountOK, HasCounted
<1> QED  BY <1>2, <1>3, <1>4, OneRequest

LEMMA LookStep ==
  ASSUME IInv, RowsStep, NEW p \in Requests, LooksForActive(p) PROVE RequestsOK'
<1> DEFINE q == request[p].query
<1>1. CASE ActiveRuns(q) # {}
  BY <1>1, RequestIdles DEF LooksForActive
<1>2. CASE ActiveRuns(q) = {}
  <2>1. PICK x : x = [request[p] EXCEPT !.pc = "recent", !.known = OnDemandRuns(q)]
    OBVIOUS
  <2>2. OnDemandRuns(q) \in SUBSET Keys
    BY DEF OnDemandRuns, RunsOf, IInv, RowsOK
  <2>3. x \in RequestState /\ x.pc = "recent" /\ x.known = OnDemandRuns(q) /\ x.query = q
    BY <2>1, <2>2, RequestTypes DEF RequestState, IInv
  <2>4. request' = [request EXCEPT ![p] = x] /\ request'[p] = x
    BY <1>2, <2>1 DEF LooksForActive, IInv, RequestsOK
  <2>5. \A k \in OnDemandRuns(q) : /\ k \in DOMAIN rows /\ k.kind = "on_demand" /\ k.query = q
                                   /\ rows[k].status # "active"
    BY <1>2 DEF OnDemandRuns, ActiveRuns, RunsOf
  <2>6. rows' = rows
    BY DEF LooksForActive
  <2>7. KnownOK(p)' /\ CountOK(p)'
    BY <2>3, <2>4, <2>5, <2>6 DEF KnownOK, CountOK, HasCounted
  <2> QED  BY <2>3, <2>4, <2>7, OneRequest
<1> QED  BY <1>1, <1>2

\* The known runs of the bucket have not succeeded, so they have failed.
LEMMA RecentStep ==
  ASSUME IInv, RowsStep, NEW p \in Requests, LooksForRecentSuccess(p) PROVE RequestsOK'
<1> DEFINE settled == SettledSince(request[p].query, "succeeded", request[p].time)
<1>1. CASE settled # {}
  BY <1>1, RequestIdles DEF LooksForRecentSuccess
<1>2. CASE settled = {}
  <2>1. PICK x : x = [request[p] EXCEPT !.pc = "count"]
    OBVIOUS
  <2>2. /\ x \in RequestState /\ x.pc = "count" /\ x.known = request[p].known
        /\ x.query = request[p].query /\ x.time = request[p].time
    BY <2>1, RequestTypes DEF RequestState, IInv
  <2>3. request' = [request EXCEPT ![p] = x] /\ request'[p] = x /\ rows' = rows
    BY <1>2, <2>1 DEF LooksForRecentSuccess, IInv, RequestsOK
  <2>4. ASSUME NEW k \in request[p].known, k.bucket = BucketOf(p) PROVE rows[k].status = "failed"
    <3>1. k \in DOMAIN rows /\ k.kind = "on_demand" /\ k.query = request[p].query
          /\ rows[k].status # "active"
      BY DEF IInv, RequestsOK, KnownOK
    <3>2. rows[k].at >= BucketOf(p) * OnDemandBucket /\ rows[k] \in RowState
      BY <2>4, <3>1, RowTypes DEF IInv, GenerationOK
    <3>3. rows[k].status # "succeeded"
      BY <1>2, <3>1, <3>2 DEF SettledSince, RunsOf, BucketOf
    <3> QED  BY <3>1, <3>2, <3>3 DEF RowState
  <2>5. KnownOK(p)
    BY DEF IInv, RequestsOK
  <2>6. KnownOK(p)' /\ CountOK(p)'
    BY <2>2, <2>3, <2>4, <2>5 DEF KnownOK, CountOK, BucketOf, HasCounted
  <2> QED  BY <2>2, <2>3, <2>6, OneRequest
<1> QED  BY <1>1, <1>2

\* What is counted includes a known run of the bucket besides what that run counted.
LEMMA CountStep ==
  ASSUME IInv, RowsStep, NEW p \in Requests, CountsGeneration(p) PROVE RequestsOK'
<1>1. /\ request[p].query \in Queries /\ BucketOf(p) \in Nat /\ request[p] \in RequestState
      /\ request[p].pc = "count"
  BY RequestTypes DEF IInv, CountsGeneration
<1>2. PICK q \in Queries, b \in Nat : q = request[p].query /\ b = BucketOf(p)
  BY <1>1
<1>3. /\ IsFiniteSet(Failed(q, b)) /\ Cardinality(Failed(q, b)) \in 0..MaxRuns
      /\ \A S \in SUBSET Failed(q, b) : Cardinality(S) \in Nat
  BY FailedFinite DEF IInv
<1>4. SettledSince(request[p].query, "failed", request[p].time) = Failed(q, b)
  BY <1>2 DEF SettledSince, Failed, BucketOf
<1>5. PICK x : x = [request[p] EXCEPT !.pc = "provider", !.generation = Cardinality(Failed(q, b))]
  OBVIOUS
<1>6. /\ x \in RequestState /\ x.pc = "provider" /\ x.known = request[p].known
      /\ x.query = q /\ x.time = request[p].time /\ x.generation = Cardinality(Failed(q, b))
  BY <1>1, <1>2, <1>3, <1>5 DEF RequestState
<1>7. request' = [request EXCEPT ![p] = x] /\ request'[p] = x /\ rows' = rows
  <2>1. request' = [request EXCEPT ![p].pc = "provider", ![p].generation = Cardinality(Failed(q, b))]
        /\ rows' = rows
    BY <1>4 DEF CountsGeneration
  <2>2. request \in [Requests -> RequestState]
    BY DEF IInv, RequestsOK
  <2> QED  BY <1>5, <2>1, <2>2
<1>8. ASSUME NEW k \in request[p].known, k.bucket = b PROVE k.generation < Cardinality(Failed(q, b))
  <2>1. /\ k \in DOMAIN rows /\ k.kind = "on_demand" /\ k.query = q /\ rows[k].status = "failed"
    BY <1>1, <1>2, <1>8 DEF IInv, RequestsOK, KnownOK
  <2>2. /\ rows[k].at >= b * OnDemandBucket /\ k.generation \in Nat
        /\ Cardinality(Failed(q, b) \ {k}) >= k.generation
    BY <1>8, <2>1, RowTypes DEF IInv, GenerationOK
  <2>3. k \in Failed(q, b)
    BY <2>1, <2>2 DEF Failed, RunsOf
  <2>4. Cardinality(Failed(q, b) \ {k}) = Cardinality(Failed(q, b)) - 1
    BY <1>3, <2>3, FS_RemoveElement
  <2>5. Cardinality(Failed(q, b)) \in Nat
    BY <1>3, Numbers
  <2> QED  BY <2>2, <2>4, <2>5
<1>9. KnownOK(p)' /\ CountOK(p)'
  <2>1. KnownOK(p)
    BY DEF IInv, RequestsOK
  <2>2. KnownOK(p)'
    BY <1>2, <1>6, <1>7, <1>8, <2>1 DEF KnownOK, BucketOf, HasCounted
  <2>3. Failed(q, b)' = Failed(q, b)
    BY <1>7 DEF Failed, RunsOf
  <2>4. Failed(request[p].query, BucketOf(p))' = Failed(q, b)'
    BY <1>2, <1>6, <1>7 DEF BucketOf
  <2>5. Cardinality(Failed(q, b)) <= Cardinality(Failed(q, b))
    BY <1>3, Numbers
  <2> QED  BY <1>6, <1>7, <2>2, <2>3, <2>4, <2>5 DEF CountOK
<1> QED  BY <1>6, <1>7, <1>9, OneRequest

\* The provider is enabled, or the request is over.
LEMMA ProviderStep ==
  ASSUME IInv, RowsStep, NEW p \in Requests, LooksForProvider(p) PROVE RequestsOK'
<1>1. CASE ProviderOf[request[p].query] \notin enabled
  BY <1>1, RequestIdles DEF LooksForProvider
<1>2. CASE ProviderOf[request[p].query] \in enabled
  <2>1. PICK x : x = [request[p] EXCEPT !.pc = "insert"]
    OBVIOUS
  <2>2. /\ x \in RequestState /\ x.pc = "insert" /\ x.known = request[p].known
        /\ x.query = request[p].query /\ x.time = request[p].time
        /\ x.generation = request[p].generation
    BY <2>1, RequestTypes DEF RequestState, IInv
  <2>3. request' = [request EXCEPT ![p] = x] /\ request'[p] = x /\ rows' = rows
    BY <1>2, <2>1 DEF LooksForProvider, IInv, RequestsOK
  <2>4. KnownOK(p) /\ CountOK(p) /\ request[p].pc = "provider"
    BY DEF IInv, RequestsOK, LooksForProvider
  <2>5. KnownOK(p)'
    BY <2>2, <2>3, <2>4 DEF KnownOK, BucketOf, HasCounted
  <2>6. CountOK(p)'
    <3>1. PICK q, b : q = request[p].query /\ b = BucketOf(p)
      OBVIOUS
    <3>2. Failed(q, b)' = Failed(q, b)
      BY <2>3 DEF Failed, RunsOf
    <3>3. Failed(request[p].query, BucketOf(p))' = Failed(q, b)'
      BY <2>2, <2>3, <3>1 DEF BucketOf
    <3>4. x.generation <= Cardinality(Failed(q, b))
      BY <2>2, <2>4, <3>1 DEF CountOK, HasCounted
    <3> QED  BY <2>3, <3>2, <3>3, <3>4 DEF CountOK
  <2> QED  BY <2>2, <2>3, <2>5, <2>6, OneRequest
<1> QED  BY <1>1, <1>2

LEMMA AllRequests == ASSUME IInv, [Next]_vars PROVE RequestsOK'
<1>1. RowsStep
  BY AllRows
<1>2. CASE request' = request
  BY <1>1, <1>2, StillRequests DEF IInv, RowsStep
<1>3. ASSUME NEW p \in Requests, Requesting(p) PROVE RequestsOK'
  BY <1>1, <1>3, ArriveStep, LookStep, RecentStep, CountStep, ProviderStep, RequestIdles
  DEF Requesting, Inserts, RequestFails
<1> QED
  BY <1>2, <1>3
  DEF Next, Ticking, TickLooks, TickCommits, TickFails, CreateSubscription, SetEnabled,
      DeleteSubscription, SwitchProvider, RunIsRescheduled, RunSucceeds, RunFails, TimePasses, vars

----------------------------------------------------------------------------
(* Subscriptions and the scheduler.                                        *)

LEMMA Grid ==
  ASSUME NEW due \in Nat, NEW t \in Nat, due <= t, NEW i \in Nat \ {0}
  PROVE  LET next == due + ((t - due) \div i + 1) * i IN
         next \in Nat /\ next \in (t + 1)..(t + i) /\ (next - due) % i = 0
<1> DEFINE n == (t - due) \div i
<1>1. n \in Nat /\ n * i <= t - due /\ t - due < n * i + i
  OBVIOUS
<1>2. ((n + 1) * i) % i = 0
  BY <1>1
<1> HIDE DEF n
<1>3. (n + 1) * i = n * i + i /\ n * i \in Nat
  BY <1>1
<1> QED  BY <1>1, <1>2, <1>3 DEF n

LEMMA AdvancedDue ==
  ASSUME NEW due \in Nat, NEW t \in Nat, due <= t
  PROVE  /\ AdvanceDueAt(due, t) \in Nat /\ AdvanceDueAt(due, t) \in (t + 1)..(t + Interval)
         /\ (AdvanceDueAt(due, t) - due) % Interval = 0
<1>1. due # NoTime /\ ~(due > t) /\ Interval \in Nat \ {0}
  BY Numbers
<1>2. AdvanceDueAt(due, t) = due + ((t - due) \div Interval + 1) * Interval
  BY <1>1 DEF AdvanceDueAt
<1> QED  BY <1>1, <1>2, Grid

LEMMA LockedSubs ==
  ASSUME IInv, NEW s \in tick.locked
  PROVE  /\ s \in Subs /\ sub[s].status = "enabled" /\ sub[s].due \in Nat
         /\ tick.time \in Nat /\ sub[s].due <= tick.time
<1>1. s \in Subs /\ tick.time \in Time /\ sub[s].status = "enabled" /\ sub[s].due <= tick.time
  BY DEF IInv, TickOK, TickState
<1> QED  BY <1>1, Numbers DEF IInv, SubsOK

LEMMA UserStep ==
  ASSUME IInv, NEW s \in Subs, NEW x \in SubState, s \notin tick.locked,
         x.status = "enabled" => x.due \in Nat,
         sub' = [sub EXCEPT ![s] = x], UNCHANGED tick
  PROVE  SubsOK' /\ TickOK'
BY DEF IInv, SubsOK, TickOK

LEMMA UserSteps ==
  ASSUME IInv, NEW s \in Subs,
         DeleteSubscription(s) \/ \E on \in BOOLEAN : CreateSubscription(s, on) \/ SetEnabled(s, on)
  PROVE  SubsOK' /\ TickOK'
<1>1. s \notin tick.locked /\ UNCHANGED tick
  BY LockedSubs DEF CreateSubscription, SetEnabled, DeleteSubscription
<1>2. PICK x \in {[status |-> "enabled", due |-> now], [status |-> "paused", due |-> NoTime],
                  [status |-> "absent", due |-> NoTime]} :
        sub' = [sub EXCEPT ![s] = x]
  BY DEF CreateSubscription, SetEnabled, DeleteSubscription
<1>3. x \in SubState /\ (x.status = "enabled" => x.due \in Nat)
  BY Numbers DEF SubState, IInv
<1> QED  BY <1>1, <1>2, <1>3, UserStep

LEMMA SuccessStep ==
  ASSUME IInv, NEW k \in DOMAIN rows, RunSucceeds(k) PROVE SubsOK' /\ TickOK'
<1>1. PICK observed \in rows[k].at..now :
        sub' = [s \in Subs |-> IF QueryOf[s] = k.query /\ sub[s].status = "enabled"
                               THEN [sub[s] EXCEPT !.due = observed + Interval]
                               ELSE sub[s]]
  BY DEF RunSucceeds
<1>2. observed + Interval \in Nat
  <2>1. rows[k].at \in Nat /\ now \in Nat /\ Interval \in Nat
    BY RowTypes, Numbers DEF IInv
  <2> QED  BY <2>1
<1>3. SubsOK'
  <2>1. \A s \in Subs : sub[s] \in SubState /\ (sub[s].status = "enabled" => sub[s].due \in Nat)
    BY DEF IInv, SubsOK
  <2>2. ASSUME NEW s \in Subs
        PROVE  sub'[s] \in SubState /\ (sub'[s].status = "enabled" => sub'[s].due \in Nat)
    <3>1. CASE QueryOf[s] = k.query /\ sub[s].status = "enabled"
      BY <1>1, <1>2, <2>1, <3>1 DEF SubState
    <3>2. CASE ~(QueryOf[s] = k.query /\ sub[s].status = "enabled")
      BY <1>1, <2>1, <3>2
    <3> QED  BY <3>1, <3>2
  <2> QED  BY <1>1, <2>2 DEF SubsOK
<1>4. \A s \in tick.locked : sub'[s] = sub[s]
  BY <1>1, LockedSubs DEF RunSucceeds
<1>5. tick' = tick
  BY DEF RunSucceeds
<1> QED  BY <1>3, <1>4, <1>5 DEF IInv, TickOK

LEMMA IdleTickState == IdleTick \in TickState /\ IdleTick.pc = "idle" /\ IdleTick.locked = {}
BY Numbers DEF IdleTick, TickState

LEMMA TickSteps == ASSUME IInv, Ticking PROVE SubsOK' /\ TickOK'
<1>1. CASE TickLooks
  <2>1. PICK locked \in SUBSET Due :
          tick' = [pc |-> "commit", time |-> now, locked |-> locked, enabled |-> enabled,
                   active |-> {q \in Queries : ActiveRuns(q) # {}}]
    BY <1>1 DEF TickLooks
  <2>2. sub' = sub /\ Due \subseteq Subs
    BY <1>1 DEF TickLooks, Due
  <2>3. tick' \in TickState /\ tick'.pc = "commit"
    BY <2>1, <2>2 DEF TickState, IInv
  <2>4. \A s \in tick'.locked : sub[s].status = "enabled" /\ sub[s].due <= tick'.time
    BY <2>1 DEF Due
  <2> QED  BY <2>2, <2>3, <2>4 DEF IInv, SubsOK, TickOK
<1>2. CASE TickCommits
  <2>1. /\ tick' = IdleTick
        /\ sub' = [s \in Subs |-> IF s \in tick.locked
                                  THEN [sub[s] EXCEPT !.due = AdvanceDueAt(sub[s].due, tick.time)]
                                  ELSE sub[s]]
    BY <1>2 DEF TickCommits
  <2>2. ASSUME NEW s \in Subs
        PROVE  sub'[s] \in SubState /\ (sub'[s].status = "enabled" => sub'[s].due \in Nat)
    <3>1. sub[s] \in SubState /\ (sub[s].status = "enabled" => sub[s].due \in Nat)
      BY DEF IInv, SubsOK
    <3>2. CASE s \in tick.locked
      <4>1. AdvanceDueAt(sub[s].due, tick.time) \in Nat
        BY <3>2, LockedSubs, AdvancedDue
      <4> QED  BY <2>1, <3>1, <3>2, <4>1 DEF SubState
    <3>3. CASE s \notin tick.locked
      BY <2>1, <3>1, <3>3
    <3> QED  BY <3>2, <3>3
  <2> QED  BY <2>1, <2>2, IdleTickState DEF SubsOK, TickOK
<1>3. CASE TickFails
  BY <1>3, IdleTickState DEF TickFails, IInv, SubsOK, TickOK
<1> QED  BY <1>1, <1>2, <1>3 DEF Ticking

LEMMA NextIInv == IInv /\ [Next]_vars => IInv'
<1> SUFFICES ASSUME IInv, [Next]_vars PROVE IInv'
  OBVIOUS
<1>1. RowsStep /\ RequestsOK'
  BY AllRows, AllRequests
<1>2. now' \in Time /\ enabled' \subseteq Providers
  <2>1. CASE TimePasses
    BY <2>1, Numbers DEF TimePasses, IInv, Time
  <2>2. CASE UNCHANGED <<now, enabled>>
    BY <2>2 DEF IInv
  <2>3. ASSUME NEW c \in Providers, SwitchProvider(c) PROVE now' \in Time /\ enabled' \subseteq Providers
    BY <2>3 DEF SwitchProvider, IInv
  <2> QED
    BY <2>1, <2>2, <2>3
    DEF Next, Requesting, Arrive, LooksForActive, LooksForRecentSuccess, CountsGeneration, LooksForProvider, Inserts,
        RequestFails, Ticking, TickLooks, TickCommits, TickFails, CreateSubscription, SetEnabled,
        DeleteSubscription, RunIsRescheduled, RunSucceeds, RunFails, vars
<1>3. SubsOK' /\ TickOK'
  <2>1. CASE UNCHANGED <<sub, tick>>
    BY <2>1 DEF IInv, SubsOK, TickOK
  <2> QED
    BY <2>1, UserSteps, SuccessStep, TickSteps
    DEF Next, Requesting, Arrive, LooksForActive, LooksForRecentSuccess, CountsGeneration, LooksForProvider, Inserts,
        RequestFails, SwitchProvider, RunIsRescheduled, RunFails, TimePasses, vars
<1> QED  BY <1>1, <1>2, <1>3 DEF IInv, RowsStep

----------------------------------------------------------------------------
\* A run's generation is accounted for by other failed runs of its search, and every
\* run that a request knows in its bucket has failed by the time it counts.
THEOREM Invariance == Spec => []IInv
BY InitIInv, NextIInv, PTL DEF Spec

\* Rows, requests and subscriptions stay within their types; in particular generations
\* stay below the number of runs of a search.
THEOREM TypeCorrect == Spec => []TypeOK
<1>1. IInv => TypeOK
  BY DEF IInv, TypeOK, RowsOK, RowState, RequestsOK, RequestState, SubsOK, SubState, TickOK, TickState
<1> QED  BY <1>1, Invariance, PTL

\* The key that a request is about to insert was not there when it looked: only
\* requests that overlap meet a conflict.
THEOREM ConflictsNeedOverlap == Spec => []ConflictNeedsOverlap
<1>1. ASSUME IInv, NEW p \in Requests, request[p].pc = "insert" PROVE KeyOf(p) \notin request[p].known
  <2>1. request[p].generation \in Nat
    BY <1>1, RequestTypes DEF IInv
  <2>2. ASSUME KeyOf(p) \in request[p].known PROVE FALSE
    <3>1. KeyOf(p).generation < request[p].generation
      <4>1. KeyOf(p).bucket = BucketOf(p)
        BY DEF KeyOf, OnDemandKey, BucketOf
      <4> QED  BY <1>1, <2>2, <4>1 DEF IInv, RequestsOK, KnownOK, HasCounted
    <3>2. KeyOf(p).generation = request[p].generation
      BY DEF KeyOf, OnDemandKey
    <3> QED  BY <2>1, <3>1, <3>2
  <2> QED  BY <2>2
<1>2. IInv => ConflictNeedsOverlap
  BY <1>1 DEF ConflictNeedsOverlap
<1> QED  BY <1>2, Invariance, PTL

\* A poll that the scheduler leaves behind is served by a run that was active when it
\* looked, or by one with the scheduler's key of the bucket, unless the provider was
\* disabled when it looked.
THEOREM PollsAreServed == Spec => AdvancedPollsAreServed
<1>1. ASSUME IInv, TickCommits, NEW s \in Subs, sub'[s] # sub[s]
      PROVE  \/ ProviderOf[QueryOf[s]] \notin tick.enabled
             \/ QueryOf[s] \in tick.active
             \/ ScheduledKey(QueryOf[s], tick.time) \in DOMAIN rows'
  <2>1. s \in tick.locked
    BY <1>1 DEF TickCommits
  <2>2. CASE QueryOf[s] \notin tick.active /\ ProviderOf[QueryOf[s]] \in tick.enabled
    <3>1. QueryOf[s] \in Wanted
      BY <2>1, <2>2 DEF Wanted
    <3>2. ScheduledKey(QueryOf[s], tick.time) \in {ScheduledKey(q, tick.time) : q \in Wanted}
      BY <3>1
    <3> QED  BY <1>1, <3>2 DEF TickCommits, WithRuns
  <2> QED  BY <2>2
<1>2. ASSUME IInv, [Next]_vars
      PROVE  [\A s \in Subs : /\ sub'[s] # sub[s]
                              /\ TickCommits
                              => \/ ProviderOf[QueryOf[s]] \notin tick.enabled
                                 \/ QueryOf[s] \in tick.active
                                 \/ ScheduledKey(QueryOf[s], tick.time) \in DOMAIN rows']_vars
  BY <1>1, <1>2
<1> QED  BY <1>2, Invariance, PTL DEF Spec, AdvancedPollsAreServed

\* However late the scheduler is, the next poll is in the future, at most an interval
\* away and on the grid of the poll before it.
THEOREM GridIsKept == Spec => PollsKeepTheirGrid
<1>1. ASSUME IInv, TickCommits, NEW s \in Subs, s \in tick.locked
      PROVE  /\ sub'[s].due \in (tick.time + 1)..(tick.time + Interval)
             /\ (sub'[s].due - sub[s].due) % Interval = 0
  <2>1. sub'[s].due = AdvanceDueAt(sub[s].due, tick.time)
    <3>1. sub[s] \in SubState
      BY <1>1 DEF IInv, SubsOK
    <3> QED  BY <1>1, <3>1 DEF TickCommits, SubState
  <2> QED  BY <1>1, <2>1, LockedSubs, AdvancedDue
<1>2. ASSUME IInv, [Next]_vars
      PROVE  [\A s \in Subs : /\ s \in tick.locked
                              /\ TickCommits
                              => /\ sub'[s].due \in (tick.time + 1)..(tick.time + Interval)
                                 /\ (sub'[s].due - sub[s].due) % Interval = 0]_vars
  BY <1>1, <1>2
<1> QED  BY <1>2, Invariance, PTL DEF Spec, PollsKeepTheirGrid
=============================================================================
