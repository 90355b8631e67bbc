--------------------------- MODULE RealtimeProofs ---------------------------
(***************************************************************************)
(* Proofs about Realtime, for every set of runs, users and publishers and  *)
(* every limit.                                                            *)
(*                                                                         *)
(* The inductive invariant has two halves.  What runs, requests and hints  *)
(* know (FactsOK) is never ahead of the rows.  What the connection and the *)
(* browser know (SeenOK) is between the hints that the cursor has passed   *)
(* and the rows: a snapshot on its way to the browser covers every hint up *)
(* to the cursor it will set, and the records of a connection follow its   *)
(* cursor without a gap but for what was trimmed.  Rows and the stream     *)
(* only grow, so what is seen survives every step that leaves it alone.    *)
(***************************************************************************)
EXTENDS Realtime, TLAPS

Row == [version: Nat, users: Seq(Users), notes: Nat]

Hint == [run: Runs, version: Nat]

RowsOK ==
  /\ row \in [Runs -> Row]
  /\ \A r \in Runs : Len(row[r].users) <= UserLimit /\ row[r].notes <= row[r].version

AttachOK ==
  /\ attach \in [Users -> [pc: {"idle", "found"}, run: Nat, users: Seq(Users), notes: Nat]]
  /\ \A u \in Users : attach[u].pc = "found" =>
       attach[u].run \in Runs /\ attach[u].notes <= row[attach[u].run].version

PublisherOK ==
  /\ publisher \in [Publishers -> [pc: {"idle", "committed", "read"}, run: Nat, version: Nat]]
  /\ \A p \in Publishers : publisher[p].pc # "idle" =>
       /\ publisher[p].run \in Runs
       /\ publisher[p].pc = "read" => publisher[p].version <= row[publisher[p].run].version

HintsOK ==
  /\ stream \in Seq(Hint) /\ first \in Nat \ {0}
  /\ \A i \in 1..Len(stream) : stream[i].version <= row[stream[i].run].version

FactsOK == RowsOK /\ AttachOK /\ PublisherOK /\ HintsOK

----------------------------------------------------------------------------
Cursors == Nat \cup {NoCursor}

Items == UNION {[S -> Nat] : S \in SUBSET Runs}

ServerState ==
  [pc: {"closed", "tail", "session", "snapshot", "loaded", "follow", "check", "deliver"},
   tail: Nat, cursor: Cursors, redis: BOOLEAN, items: Items, records: Seq(Nat)]

ShownOK == shown \in [Runs -> Nat] /\ \A r \in Runs : shown[r] <= row[r].version

\* The browser has seen what the hints up to c announced.
Earned(c) ==
  \A i \in first..c :
    shown[stream[i].run] = 0 \/ stream[i].run \in skipped \/ shown[stream[i].run] >= stream[i].version

BrowserOK ==
  /\ browser \in [state: {"off", "waiting", "open"}, cursor: Cursors]
  /\ browser.cursor # NoCursor => browser.cursor <= Len(stream) /\ Earned(browser.cursor)
  /\ browser.cursor = NoCursor => \A r \in Runs : shown[r] = 0

\* The cursor that the browser will have after the snapshot.
Start == IF server.cursor # NoCursor THEN server.cursor ELSE server.tail

FetchingOK ==
  server.pc \in {"tail", "session", "snapshot", "loaded"} =>
    server.cursor = browser.cursor /\ server.tail <= Len(stream)

LoadedOK ==
  server.pc = "loaded" => \A r \in DOMAIN server.items :
    /\ shown[r] <= server.items[r] /\ server.items[r] <= row[r].version
    /\ \A i \in 1..Len(stream) :
         i <= Start /\ stream[i].run = r => stream[i].version <= server.items[r]

FollowingOK ==
  server.pc \in {"follow", "check", "deliver"} =>
    server.cursor # NoCursor /\ server.cursor <= Len(stream) /\ Earned(server.cursor)

RecordsOK ==
  server.pc \in {"check", "deliver"} =>
    /\ \A k \in 1..Len(server.records) :
         /\ server.records[k] \in 1..Len(stream)
         /\ server.records[k] = server.records[1] + k - 1
    /\ server.records # <<>> => \A i \in first..(server.records[1] - 1) : i <= server.cursor

SeenOK ==
  /\ ShownOK /\ BrowserOK
  /\ server \in ServerState
  /\ FetchingOK /\ LoadedOK /\ FollowingOK /\ RecordsOK

IInv == FactsOK /\ SeenOK

LEMMA Numbers ==
  /\ Runs \subseteq Nat /\ Runs \subseteq Nat \ {0} /\ Me \in Users
  /\ UserLimit \in Nat \ {0} /\ ReadCount \in Nat \ {0} /\ NoCursor \notin Nat
  BY RealtimeAssumption

LEMMA NoItems == <<>> \in Items
<1>1. <<>> \in [{} -> Nat]
  OBVIOUS
<1> QED  BY <1>1 DEF Items

LEMMA ClosedState ==
  /\ Closed \in ServerState /\ Closed.pc = "closed"
  BY NoItems, Numbers DEF Closed, ServerState, Cursors

LEMMA InitIInv == Init => IInv
<1> SUFFICES ASSUME Init PROVE IInv
  OBVIOUS
<1>1. RowsOK
  BY Numbers DEF Init, RowsOK, Row
<1>2. AttachOK
  BY DEF Init, AttachOK, NoAttach
<1>3. PublisherOK
  BY DEF Init, PublisherOK, NoPublication
<1>4. HintsOK
  BY DEF Init, HintsOK
<1>5. ShownOK /\ BrowserOK
  BY DEF Init, ShownOK, BrowserOK, Cursors
<1>6. server \in ServerState /\ server.pc = "closed"
  BY ClosedState DEF Init
<1>7. FetchingOK /\ LoadedOK /\ FollowingOK /\ RecordsOK
  BY <1>6 DEF FetchingOK, LoadedOK, FollowingOK, RecordsOK
<1> QED  BY <1>1, <1>2, <1>3, <1>4, <1>5, <1>6, <1>7 DEF IInv, FactsOK, SeenOK

----------------------------------------------------------------------------
(* Rows, requests, publishers and hints.                                   *)

RowsGrow == \A r \in Runs : row'[r].version >= row[r].version

StreamGrows ==
  /\ Len(stream') >= Len(stream) /\ \A i \in 1..Len(stream) : stream'[i] = stream[i]
  /\ first' >= first

FactsStep == FactsOK' /\ RowsGrow /\ StreamGrows

LEMMA AttachedUsers ==
  ASSUME NEW users \in Seq(Users), NEW u \in Users
  PROVE  /\ Attached(users, u) \in Seq(Users) /\ Len(Attached(users, u)) <= UserLimit
         /\ Len(users) <= UserLimit =>
              \A i \in DOMAIN users : i > 1 \/ Len(users) < UserLimit =>
                Contains(Attached(users, u), users[i])
<1> DEFINE all == IF Contains(users, u) THEN users ELSE Append(users, u)
           from == IF Len(all) > UserLimit THEN Len(all) - UserLimit + 1 ELSE 1
<1>1. /\ all \in Seq(Users) /\ Len(users) <= Len(all) /\ Len(all) <= Len(users) + 1
      /\ \A i \in 1..Len(users) : all[i] = users[i]
  OBVIOUS
<1>2. from \in 1..(Len(all) + 1) /\ Len(all) - from + 1 <= UserLimit
  BY <1>1, Numbers
<1>3. Attached(users, u) = SubSeq(all, from, Len(all))
  BY DEF Attached
<1> HIDE DEF all, from
<1>4. /\ Attached(users, u) \in Seq(Users) /\ Len(Attached(users, u)) = Len(all) - from + 1
      /\ \A i \in 1..(Len(all) - from + 1) : Attached(users, u)[i] = all[from + i - 1]
  BY <1>1, <1>2, <1>3
<1>5. ASSUME Len(users) <= UserLimit, NEW i \in DOMAIN users, i > 1 \/ Len(users) < UserLimit
      PROVE  Contains(Attached(users, u), users[i])
  <2>1. i \in 1..Len(all) /\ all[i] = users[i]
    BY <1>1
  <2>2. from <= i
    <3>1. from <= 2 /\ (Len(users) < UserLimit => from = 1)
      BY <1>1, <1>5, Numbers DEF from
    <3> QED  BY <3>1, <1>2, <1>5, <2>1
  <2>3. i - from + 1 \in 1..(Len(all) - from + 1) /\ from + (i - from + 1) - 1 = i
    BY <1>2, <2>1, <2>2, <1>1
  <2> QED  BY <1>4, <2>1, <2>3 DEF Contains
<1> QED  BY <1>2, <1>4, <1>5

LEMMA KeptHints ==
  ASSUME IInv, RowsOK', RowsGrow, UNCHANGED <<stream, first>> PROVE HintsOK' /\ StreamGrows
<1>1. ASSUME NEW i \in 1..Len(stream) PROVE stream[i].version <= row'[stream[i].run].version
  <2>1. stream[i].run \in Runs /\ stream[i].version \in Nat
        /\ stream[i].version <= row[stream[i].run].version
    <3>1. stream[i] \in Hint /\ stream[i].version <= row[stream[i].run].version
      BY DEF IInv, FactsOK, HintsOK
    <3> QED  BY <3>1 DEF Hint
  <2>2. row[stream[i].run].version \in Nat /\ row'[stream[i].run].version \in Nat
        /\ row'[stream[i].run].version >= row[stream[i].run].version
    BY <2>1 DEF IInv, FactsOK, RowsOK, Row, RowsGrow
  <2> QED  BY <2>1, <2>2
<1> QED  BY <1>1 DEF IInv, FactsOK, HintsOK, StreamGrows

LEMMA UpdateStep ==
  ASSUME IInv, NEW p \in Publishers, NEW r \in Runs, Updates(p, r) PROVE FactsStep
<1> USE DEF IInv, FactsOK, Updates
<1>1. RowsOK' /\ RowsGrow
  BY DEF RowsOK, Row, RowsGrow
<1>2. AttachOK'
  BY <1>1 DEF AttachOK, RowsOK, Row, RowsGrow
<1>3. PublisherOK'
  <2>1. r \in Nat
    BY Numbers
  <2>2. ASSUME NEW o \in Publishers, publisher'[o].pc = "read"
        PROVE  publisher'[o] = publisher[o] /\ publisher[o].run \in Runs
               /\ publisher[o].version <= row'[publisher[o].run].version
    <3>1. publisher'[o] = publisher[o] /\ publisher[o].run \in Runs
      BY <2>2 DEF PublisherOK
    <3> QED  BY <2>2, <3>1, <1>1 DEF PublisherOK, RowsOK, Row, RowsGrow
  <2> QED  BY <2>1, <2>2 DEF PublisherOK
<1>4. HintsOK' /\ StreamGrows
  BY <1>1, KeptHints
<1> QED  BY <1>1, <1>2, <1>3, <1>4 DEF FactsStep

LEMMA PublisherSteps ==
  ASSUME IInv, NEW p \in Publishers, ReadsAgain(p) \/ AddsHint(p) \/ HintIsLost(p) PROVE FactsStep
<1> USE DEF IInv, FactsOK
<1>1. RowsOK' /\ RowsGrow /\ AttachOK' /\ row' = row
  BY DEF ReadsAgain, AddsHint, HintIsLost, runs, RowsOK, Row, RowsGrow, AttachOK
<1>2. PublisherOK'
  <2>1. CASE ReadsAgain(p)
    <3>1. publisher[p].run \in Runs /\ row[publisher[p].run].version \in Nat
      BY <2>1 DEF ReadsAgain, PublisherOK, RowsOK, Row
    <3>2. /\ publisher'[p].pc = "read" /\ publisher'[p].run = publisher[p].run
          /\ publisher'[p].version = row[publisher[p].run].version
      BY <2>1 DEF ReadsAgain, PublisherOK
    <3>3. /\ publisher' \in [Publishers -> [pc: {"idle", "committed", "read"}, run: Nat, version: Nat]]
          /\ \A o \in Publishers \ {p} : publisher'[o] = publisher[o]
      BY <2>1, <3>1 DEF ReadsAgain, PublisherOK
    <3>4. ASSUME NEW o \in Publishers, publisher'[o].pc # "idle"
          PROVE  /\ publisher'[o].run \in Runs
                 /\ publisher'[o].pc = "read" => publisher'[o].version <= row'[publisher'[o].run].version
      <4>1. CASE o = p
        BY <1>1, <3>1, <3>2, <4>1
      <4>2. CASE o # p
        BY <1>1, <3>3, <3>4, <4>2 DEF PublisherOK
      <4> QED  BY <4>1, <4>2
    <3> QED  BY <3>3, <3>4 DEF PublisherOK
  <2>2. CASE AddsHint(p) \/ HintIsLost(p)
    <3>1. publisher' = [publisher EXCEPT ![p] = NoPublication]
      BY <2>2 DEF AddsHint, HintIsLost
    <3>2. publisher' \in [Publishers -> [pc: {"idle", "committed", "read"}, run: Nat, version: Nat]]
      BY <3>1 DEF PublisherOK, NoPublication
    <3>3. ASSUME NEW o \in Publishers, publisher'[o].pc # "idle" PROVE publisher'[o] = publisher[o]
      BY <3>1, <3>3 DEF PublisherOK, NoPublication
    <3> QED  BY <1>1, <3>2, <3>3 DEF PublisherOK
  <2> QED  BY <2>1, <2>2
<1>3. HintsOK' /\ StreamGrows
  <2>1. CASE AddsHint(p)
    <3>1. [run |-> publisher[p].run, version |-> publisher[p].version] \in Hint
      BY <2>1 DEF AddsHint, PublisherOK, Hint
    <3>2. /\ stream' = Append(stream, [run |-> publisher[p].run, version |-> publisher[p].version])
          /\ first' = first /\ UNCHANGED row
      BY <2>1 DEF AddsHint, runs
    <3>3. publisher[p].version <= row[publisher[p].run].version
      BY <2>1 DEF AddsHint, PublisherOK
    <3>4. stream \in Seq(Hint) /\ first \in Nat \ {0}
      BY DEF HintsOK
    <3>5. /\ stream' \in Seq(Hint) /\ Len(stream') = Len(stream) + 1
          /\ \A i \in 1..Len(stream) : stream'[i] = stream[i]
          /\ stream'[Len(stream) + 1] =
               [run |-> publisher[p].run, version |-> publisher[p].version]
      BY <3>1, <3>2, <3>4
    <3>6. \A i \in 1..Len(stream') : stream'[i].version <= row'[stream'[i].run].version
      BY <3>2, <3>3, <3>4, <3>5 DEF HintsOK
    <3> QED  BY <3>2, <3>4, <3>5, <3>6 DEF HintsOK, StreamGrows
  <2>2. CASE ReadsAgain(p) \/ HintIsLost(p)
    BY <2>2 DEF ReadsAgain, HintIsLost, HintsOK, StreamGrows, runs
  <2> QED  BY <2>1, <2>2
<1> QED  BY <1>1, <1>2, <1>3 DEF FactsStep

LEMMA TrimStep ==
  ASSUME IInv, NEW n \in 2..(Len(stream) + 1), StreamIsTrimmed(n) PROVE FactsStep
BY DEF IInv, FactsOK, FactsStep, StreamIsTrimmed, runs, RowsOK, AttachOK, PublisherOK, HintsOK,
       RowsGrow, StreamGrows, Row

LEMMA AttachSteps ==
  ASSUME IInv, NEW u \in Users,
         WritesUsers(u) \/ \E r \in Sought : FindsRun(u, r)
  PROVE  FactsStep
<1> USE DEF IInv, FactsOK
<1>1. RowsOK' /\ RowsGrow /\ AttachOK'
  <2>1. ASSUME NEW r \in Sought, FindsRun(u, r) PROVE RowsOK' /\ RowsGrow /\ AttachOK'
    <3>1. r \in Runs /\ r \in Nat
      BY RealtimeAssumption
    <3>2. RowsOK' /\ RowsGrow
      BY <2>1 DEF FindsRun, RowsOK, Row, RowsGrow
    <3>3. AttachOK'
      BY <2>1, <3>1 DEF FindsRun, AttachOK, RowsOK, Row
    <3> QED  BY <3>2, <3>3
  <2>2. CASE WritesUsers(u)
    <3>1. attach[u].run \in Runs /\ attach[u].users \in Seq(Users) /\ attach[u].notes \in Nat
          /\ attach[u].notes <= row[attach[u].run].version
      BY <2>2 DEF WritesUsers, AttachOK
    <3>2. RowsOK' /\ RowsGrow
      <4>1. /\ Attached(attach[u].users, u) \in Seq(Users)
            /\ Len(Attached(attach[u].users, u)) <= UserLimit
        BY <3>1, AttachedUsers
      <4>2. row' = [row EXCEPT ![attach[u].run].users = Attached(attach[u].users, u),
                               ![attach[u].run].notes = attach[u].notes]
        BY <2>2 DEF WritesUsers
      <4> DEFINE k == attach[u].run
                 n == attach[u].notes
                 us == Attached(attach[u].users, u)
      <4>3. k \in Runs /\ n \in Nat /\ n <= row[k].version /\ us \in Seq(Users) /\ Len(us) <= UserLimit
        BY <3>1, <4>1
      <4>4. row' = [row EXCEPT ![k].users = us, ![k].notes = n]
        BY <4>2
      <4> HIDE DEF k, n, us
      <4>5. /\ row' \in [Runs -> Row] /\ \A r \in Runs \ {k} : row'[r] = row[r]
            /\ row'[k].users = us /\ row'[k].notes = n /\ row'[k].version = row[k].version
        BY <4>3, <4>4 DEF RowsOK, Row
      <4>6. \A r \in Runs : row[r].version \in Nat
        BY DEF RowsOK, Row
      <4> QED  BY <4>3, <4>5, <4>6 DEF RowsOK, RowsGrow
    <3>3. \A r \in Runs : row'[r].version = row[r].version
      <4>1. row' = [row EXCEPT ![attach[u].run].users = Attached(attach[u].users, u),
                               ![attach[u].run].notes = attach[u].notes]
        BY <2>2 DEF WritesUsers
      <4> QED  BY <3>1, <4>1 DEF RowsOK, Row
    <3>4. AttachOK'
      <4>1. attach' = [attach EXCEPT ![u] = NoAttach]
        BY <2>2 DEF WritesUsers
      <4>2. NoAttach \in [pc: {"idle", "found"}, run: Nat, users: Seq(Users), notes: Nat]
            /\ NoAttach.pc = "idle"
        BY DEF NoAttach
      <4>3. \A v \in Users : attach'[v].pc = "found" => attach'[v] = attach[v]
        BY <4>1, <4>2 DEF AttachOK
      <4> QED  BY <3>3, <4>1, <4>2, <4>3 DEF AttachOK
    <3> QED  BY <3>2, <3>4
  <2> QED  BY <2>1, <2>2
<1>2. UNCHANGED hints
  BY DEF FindsRun, WritesUsers
<1>3. PublisherOK' /\ HintsOK' /\ StreamGrows
  <2>1. ASSUME NEW p \in Publishers, publisher[p].pc = "read"
        PROVE  publisher[p].version <= row'[publisher[p].run].version
    <3>1. /\ publisher[p].run \in Runs /\ publisher[p].version \in Nat
          /\ publisher[p].version <= row[publisher[p].run].version
      BY <2>1 DEF PublisherOK
    <3>2. row[publisher[p].run].version \in Nat /\ row'[publisher[p].run].version \in Nat
          /\ row'[publisher[p].run].version >= row[publisher[p].run].version
      BY <1>1, <3>1 DEF RowsOK, Row, RowsGrow
    <3> QED  BY <3>1, <3>2
  <2> QED  BY <1>1, <1>2, <2>1, KeptHints DEF hints, PublisherOK
<1> QED  BY <1>1, <1>3 DEF FactsStep

LEMMA StillFacts ==
  ASSUME IInv, UNCHANGED <<row, attach, hints>> PROVE FactsStep
BY DEF IInv, FactsOK, FactsStep, hints, RowsOK, AttachOK, PublisherOK, HintsOK, RowsGrow, StreamGrows,
       Row

ClientSteps == Connects \/ Serving \/ Listens \/ StopsListening

LEMMA ClientKeepsFacts == ASSUME ClientSteps PROVE UNCHANGED <<runs, hints>>
BY DEF ClientSteps, Connects, Serving, Listens, StopsListening, ReadsTail, ChecksSession,
       SessionIsOver, LoadsSnapshot, SendsSnapshot, ReadsStream, Delivers, SendsCheckpoint,
       DatabaseIsAway, RedisIsAway, ConnectionTimesOut, ConnectionDrops, Ends

LEMMA AllFacts == ASSUME IInv, [Next]_vars PROVE FactsStep
<1>1. CASE ClientSteps
  BY <1>1, ClientKeepsFacts, StillFacts DEF runs
<1>2. CASE SubscriptionChanges \/ SessionEnds \/ UNCHANGED vars
  BY <1>2, StillFacts DEF SubscriptionChanges, SessionEnds, vars, runs
<1> QED
  BY <1>1, <1>2, UpdateStep, PublisherSteps, TrimStep, AttachSteps DEF Next, ClientSteps

----------------------------------------------------------------------------
(* The connection and the browser.                                         *)

\* The version of every hint is a number no run is behind.
LEMMA HintIsPast ==
  ASSUME FactsOK, NEW i \in 1..Len(stream)
  PROVE  /\ stream[i].run \in Runs /\ stream[i].version \in Nat
         /\ row[stream[i].run].version \in Nat
         /\ stream[i].version <= row[stream[i].run].version
<1>1. stream[i] \in Hint /\ stream[i].version <= row[stream[i].run].version
  BY DEF FactsOK, HintsOK
<1>2. stream[i].run \in Runs /\ stream[i].version \in Nat
  BY <1>1 DEF Hint
<1> QED  BY <1>1, <1>2 DEF FactsOK, RowsOK, Row

LEMMA Lengths ==
  ASSUME FactsOK PROVE Len(stream) \in Nat /\ first \in Nat \ {0}
BY DEF FactsOK, HintsOK

\* What was seen stays seen while rows and the stream grow.
LEMMA StillSeen ==
  ASSUME IInv, FactsStep, UNCHANGED <<server, client>> PROVE SeenOK'
<1> USE Lengths DEF IInv, SeenOK
<1>1. Len(stream') \in Nat /\ Len(stream') >= Len(stream) /\ first' \in Nat /\ first' >= first
      /\ first \in Nat /\ first > 0 /\ Len(stream) \in Nat
  BY DEF FactsStep, FactsOK, HintsOK, StreamGrows
<1>2. \A r \in Runs : row[r].version \in Nat /\ row'[r].version \in Nat
                      /\ row'[r].version >= row[r].version
  BY DEF FactsStep, FactsOK, RowsOK, Row, RowsGrow
<1>3. ShownOK'
  BY <1>2 DEF ShownOK, client
<1>4. ASSUME NEW c \in Nat, c <= Len(stream), Earned(c) PROVE Earned(c)'
  BY <1>1, <1>4 DEF Earned, FactsStep, StreamGrows, client
<1>5. BrowserOK'
  BY <1>1, <1>4 DEF BrowserOK, client, Cursors
<1>6. server' \in ServerState /\ FetchingOK'
  BY <1>1 DEF FetchingOK, client, ServerState
<1>7. LoadedOK'
  <2> SUFFICES ASSUME server.pc = "loaded", NEW r \in DOMAIN server.items
               PROVE  /\ shown[r] <= server.items[r] /\ server.items[r] <= row'[r].version
                      /\ \A i \in 1..Len(stream') :
                           i <= Start /\ stream'[i].run = r => stream'[i].version <= server.items[r]
    BY DEF LoadedOK, client, Start
  <2>1. r \in Runs /\ server.items[r] \in Nat
    BY DEF ServerState, Items
  <2>2. Start \in Nat /\ Start <= Len(stream)
    BY DEF Start, FetchingOK, BrowserOK, ServerState, Cursors
  <2> QED  BY <1>1, <1>2, <2>1, <2>2 DEF LoadedOK, FactsStep, StreamGrows
<1>8. FollowingOK'
  BY <1>1, <1>4 DEF FollowingOK, ServerState, Cursors
<1>9. RecordsOK'
  BY <1>1 DEF RecordsOK, ServerState
<1> QED  BY <1>3, <1>5, <1>6, <1>7, <1>8, <1>9

LEMMA Unconnected ==
  ASSUME server \in ServerState, server.pc = "closed"
  PROVE  FetchingOK /\ LoadedOK /\ FollowingOK /\ RecordsOK
BY DEF FetchingOK, LoadedOK, FollowingOK, RecordsOK

LEMMA EndStep == ASSUME IInv, FactsStep, Ends PROVE SeenOK'
<1> USE DEF IInv, SeenOK, Ends
<1>1. ShownOK' /\ BrowserOK'
  BY DEF ShownOK, BrowserOK, Earned, runs, hints
<1>2. server' \in ServerState /\ server'.pc = "closed"
  BY ClosedState
<1>3. (FetchingOK /\ LoadedOK /\ FollowingOK /\ RecordsOK)'
  BY <1>2 DEF FetchingOK, LoadedOK, FollowingOK, RecordsOK
<1> QED  BY <1>1, <1>2, <1>3

LEMMA ListenerSteps == ASSUME IInv, FactsStep, Listens \/ StopsListening PROVE SeenOK'
<1> USE DEF IInv, SeenOK
<1>1. CASE Listens
  <2>1. ShownOK' /\ BrowserOK'
    BY <1>1 DEF Listens, ShownOK, BrowserOK, Earned, runs, hints
  <2>2. server' = server /\ browser'.cursor = browser.cursor
    BY <1>1 DEF Listens, BrowserOK
  <2> QED
    BY <1>1, <2>1, <2>2 DEF Listens, FetchingOK, LoadedOK, Start, FollowingOK, RecordsOK, Earned, runs, hints
<1>2. CASE StopsListening
  <2>1. ShownOK' /\ BrowserOK'
    BY <1>2 DEF StopsListening, ShownOK, BrowserOK, Cursors, FactsStep, FactsOK, RowsOK, Row
  <2>2. server' \in ServerState /\ server'.pc = "closed"
    BY <1>2, ClosedState DEF StopsListening
  <2>3. (FetchingOK /\ LoadedOK /\ FollowingOK /\ RecordsOK)'
    BY <2>2 DEF FetchingOK, LoadedOK, FollowingOK, RecordsOK
  <2> QED  BY <2>1, <2>2, <2>3
<1> QED  BY <1>1, <1>2

LEMMA ConnectStep == ASSUME IInv, FactsStep, Connects PROVE SeenOK'
<1> USE DEF IInv, SeenOK, Connects
<1>1. ShownOK' /\ BrowserOK' /\ browser'.cursor = browser.cursor /\ browser.cursor \in Cursors
  BY DEF ShownOK, BrowserOK, Earned, runs, hints
<1>2. server' \in ServerState /\ server'.pc = "tail" /\ server'.cursor = browser.cursor /\ server'.tail = 0
  <2>1. Closed \in ServerState /\ Closed.tail = 0
    BY ClosedState DEF Closed
  <2>2. server' = [Closed EXCEPT !.pc = "tail", !.cursor = browser.cursor]
    OBVIOUS
  <2> QED  BY <1>1, <2>1, <2>2 DEF ServerState
<1>3. Len(stream) \in Nat /\ stream' = stream
  BY Lengths DEF hints
<1> QED
  BY <1>1, <1>2, <1>3 DEF FetchingOK, LoadedOK, FollowingOK, RecordsOK

\* Steps that only move the connection on.
LEMMA TailStep == ASSUME IInv, FactsStep, ReadsTail PROVE SeenOK'
<1> USE DEF IInv, SeenOK, ReadsTail
<1>1. ShownOK' /\ BrowserOK' /\ UNCHANGED <<browser, stream>>
  BY DEF ShownOK, BrowserOK, Earned, runs, hints, client
<1>2. Len(stream) \in Nat
  BY Lengths
<1>3. /\ server' \in ServerState /\ server'.pc = "session" /\ server'.cursor = server.cursor
      /\ server'.tail <= Len(stream)
  <2>1. PICK available \in BOOLEAN :
          server' = [server EXCEPT !.pc = "session", !.redis = available,
                                   !.tail = IF available /\ Retained # {} THEN Len(stream) ELSE 0]
    OBVIOUS
  <2> DEFINE tail == IF available /\ Retained # {} THEN Len(stream) ELSE 0
  <2>2. tail \in Nat /\ tail <= Len(stream)
    BY <1>2
  <2>3. server' = [server EXCEPT !.pc = "session", !.redis = available, !.tail = tail]
    BY <2>1
  <2> HIDE DEF tail
  <2> QED  BY <2>2, <2>3 DEF ServerState
<1> QED
  BY <1>1, <1>3 DEF FetchingOK, LoadedOK, FollowingOK, RecordsOK

LEMMA SessionStep == ASSUME IInv, FactsStep, ChecksSession PROVE SeenOK'
<1> USE DEF IInv, SeenOK, ChecksSession
<1>1. ShownOK' /\ BrowserOK' /\ UNCHANGED <<browser, shown, skipped, stream, first>>
  BY DEF ShownOK, BrowserOK, Earned, runs, hints, client
<1>2. /\ server.pc = "session" => server'.pc = "snapshot"
      /\ server.pc = "check" => server'.pc \in {"follow", "deliver"}
      /\ server' \in ServerState /\ server'.cursor = server.cursor /\ server'.tail = server.tail
      /\ server'.records = server.records
  <2> DEFINE pc == IF server.pc = "session" THEN "snapshot"
                   ELSE IF server.records = <<>> THEN "follow" ELSE "deliver"
  <2>1. /\ server.pc = "session" => pc = "snapshot"
        /\ server.pc # "session" => pc \in {"follow", "deliver"}
    OBVIOUS
  <2>2. server' = [server EXCEPT !.pc = pc]
    OBVIOUS
  <2> HIDE DEF pc
  <2> QED  BY <2>1, <2>2 DEF ServerState
<1>3. FetchingOK' /\ LoadedOK'
  BY <1>1, <1>2 DEF FetchingOK, LoadedOK
<1>4. FollowingOK' /\ RecordsOK'
  BY <1>1, <1>2 DEF FollowingOK, RecordsOK, Earned
<1> QED  BY <1>1, <1>2, <1>3, <1>4

LEMMA LoadStep == ASSUME IInv, FactsStep, LoadsSnapshot PROVE SeenOK'
<1> USE DEF IInv, SeenOK, LoadsSnapshot
<1>1. ShownOK' /\ UNCHANGED <<browser, shown, stream, first, row>>
  BY DEF ShownOK, runs, hints
<1>2. BrowserOK'
  BY <1>1 DEF BrowserOK, Earned
<1>3. Snapshot \subseteq Runs /\ \A r \in Runs : row[r].version \in Nat
  BY DEF Snapshot, FactsOK, RowsOK, Row
<1>4. [r \in Snapshot |-> row[r].version] \in Items
  BY <1>3 DEF Items
<1>5. /\ server' \in ServerState /\ server'.pc = "loaded" /\ server'.cursor = server.cursor
      /\ server'.tail = server.tail /\ server'.items = [r \in Snapshot |-> row[r].version]
  BY <1>4 DEF ServerState
<1>6. FetchingOK'
  BY <1>1, <1>5 DEF FetchingOK
<1>7. LoadedOK'
  BY <1>1, <1>3, <1>5, HintIsPast DEF LoadedOK, ShownOK
<1> QED  BY <1>1, <1>2, <1>5, <1>6, <1>7 DEF FollowingOK, RecordsOK

\* The snapshot covers every hint up to the cursor that the browser gets with it.
LEMMA SendStep == ASSUME IInv, FactsStep, SendsSnapshot PROVE SeenOK'
<1> USE DEF IInv, SeenOK
<1>1. server.pc = "loaded" /\ UNCHANGED <<stream, first, row>> /\ server.items \in Items
      /\ server.cursor = browser.cursor /\ Len(stream) \in Nat
  BY Lengths DEF SendsSnapshot, runs, hints, FetchingOK, ServerState
<1>0. PICK c \in Nat : c = Start
  BY <1>1 DEF Start, FetchingOK, BrowserOK, ServerState, Cursors
<1>2. c <= Len(stream) /\ (server.cursor # NoCursor => c = browser.cursor)
  BY <1>0, <1>1 DEF Start, FetchingOK, BrowserOK, ServerState, Cursors
<1>3. /\ shown' = [r \in Runs |-> IF r \in DOMAIN server.items THEN server.items[r] ELSE shown[r]]
      /\ skipped' = skipped \ DOMAIN server.items
      /\ browser' = [cursor |-> c, state |-> IF server.redis THEN "open" ELSE "waiting"]
      /\ server' = IF server.redis THEN [Closed EXCEPT !.pc = "follow", !.cursor = c] ELSE Closed
  <2>1. c = IF server.cursor # NoCursor THEN server.cursor ELSE TailForSnapshot(server.tail)
    BY <1>0 DEF Start, TailForSnapshot
  <2> QED  BY <2>1 DEF SendsSnapshot
<1>4. /\ DOMAIN server.items \subseteq Runs
      /\ \A r \in DOMAIN server.items :
           /\ server.items[r] \in Nat /\ server.items[r] <= row[r].version
           /\ \A i \in 1..Len(stream) :
                i <= c /\ stream[i].run = r => stream[i].version <= server.items[r]
  BY <1>0, <1>1 DEF LoadedOK, Items
<1>5. ShownOK'
  BY <1>1, <1>3, <1>4 DEF ShownOK
<1>6. Earned(c)'
  <2> SUFFICES ASSUME NEW i \in first..c
               PROVE  \/ shown'[stream[i].run] = 0 \/ stream[i].run \in skipped'
                      \/ shown'[stream[i].run] >= stream[i].version
    BY <1>1, <1>2 DEF Earned
  <2>1. i \in 1..Len(stream) /\ i <= c /\ first \in Nat
    BY <1>1, <1>2, Lengths
  <2>2. stream[i].run \in Runs /\ stream[i].version \in Nat
    BY <2>1, HintIsPast
  <2>3. CASE stream[i].run \in DOMAIN server.items
    BY <1>3, <1>4, <2>1, <2>2, <2>3
  <2>4. CASE stream[i].run \notin DOMAIN server.items
    <3>1. shown'[stream[i].run] = shown[stream[i].run]
      BY <1>3, <2>2, <2>4
    <3>2. stream[i].run \in skipped => stream[i].run \in skipped'
      BY <1>3, <2>4
    <3>3. CASE server.cursor = NoCursor
      BY <1>1, <2>2, <3>1, <3>3 DEF BrowserOK
    <3>4. CASE server.cursor # NoCursor
      <4>1. c = browser.cursor /\ Earned(browser.cursor)
        BY <1>1, <1>2, <3>4 DEF BrowserOK
      <4> QED  BY <4>1, <3>1, <3>2 DEF Earned
    <3> QED  BY <3>3, <3>4
  <2> QED  BY <2>3, <2>4
<1>7. BrowserOK'
  <2>1. browser' \in [state: {"off", "waiting", "open"}, cursor: Cursors] /\ browser'.cursor = c
    BY <1>2, <1>3 DEF Cursors
  <2>2. c # NoCursor
    BY <1>2, Numbers
  <2> QED  BY <1>1, <1>2, <1>6, <2>1, <2>2 DEF BrowserOK, Earned
<1>8. /\ server' \in ServerState /\ server'.pc \in {"closed", "follow"}
      /\ server'.pc = "follow" => server'.cursor = c
  <2>1. Closed \in ServerState /\ Closed.pc = "closed"
    BY ClosedState
  <2>2. c \in Cursors
    BY <1>2 DEF Cursors
  <2> QED  BY <1>3, <2>1, <2>2 DEF ServerState
<1>9. FollowingOK'
  BY <1>1, <1>2, <1>6, <1>8, Numbers DEF FollowingOK, Earned
<1> QED  BY <1>5, <1>7, <1>8, <1>9 DEF FetchingOK, LoadedOK, RecordsOK

\* The records read follow the cursor, but for what was trimmed.
LEMMA ReadStep == ASSUME IInv, FactsStep, ReadsStream PROVE SeenOK'
<1> USE DEF IInv, SeenOK
<1> DEFINE cursor == server.cursor
           from == IF first > cursor + 1 THEN first ELSE cursor + 1
           until == IF from + ReadCount - 1 < Len(stream) THEN from + ReadCount - 1 ELSE Len(stream)
           records == [i \in 1..(until + 1 - from) |-> from + i - 1]
<1>1. /\ server.pc = "follow" /\ UNCHANGED <<stream, first, row, client>>
      /\ Len(stream) \in Nat /\ first \in Nat \ {0} /\ cursor \in Nat
  BY Lengths DEF ReadsStream, runs, hints, FollowingOK, ServerState, Cursors
<1>2. /\ from \in Nat \ {0} /\ from >= first /\ from > cursor /\ (from = first \/ from = cursor + 1)
      /\ until \in Nat /\ until <= Len(stream)
  BY <1>1, Numbers
<1>3. server' = [server EXCEPT !.pc = "check", !.records = records]
  BY DEF ReadsStream
<1> HIDE DEF from, until
<1>4. records \in Seq(Nat) /\ Len(records) \in Nat
      /\ \A k \in 1..Len(records) : records[k] = from + k - 1 /\ records[k] \in 1..Len(stream)
  <2>1. CASE until + 1 - from \in Nat
    <3>1. \A i \in 1..(until + 1 - from) : from + i - 1 \in 1..Len(stream)
      BY <1>1, <1>2
    <3>2. Len(records) = until + 1 - from
      BY <1>2, <2>1
    <3> QED  BY <1>1, <1>2, <2>1, <3>1, <3>2
  <2>2. CASE until + 1 - from \notin Nat
    <3>1. 1..(until + 1 - from) = {}
      BY <1>2, <2>2
    <3>2. records = <<>>
      BY <3>1
    <3> HIDE DEF records
    <3> QED  BY <3>2
  <2> QED  BY <2>1, <2>2
<1> HIDE DEF records
<1>5. /\ server' \in ServerState /\ server'.pc = "check" /\ server'.cursor = server.cursor
      /\ server'.records = records
  BY <1>3, <1>4 DEF ServerState
<1>6. ShownOK' /\ BrowserOK' /\ FollowingOK'
  BY <1>1, <1>5 DEF ShownOK, BrowserOK, FollowingOK, Earned, client
<1>7. RecordsOK'
  <2>1. ASSUME records # <<>> PROVE records[1] = from
    <3>1. 1 \in 1..Len(records)
      BY <1>4, <2>1
    <3> QED  BY <1>2, <1>4, <3>1
  <2>2. ASSUME NEW k \in 1..Len(records) PROVE records[k] = records[1] + k - 1
    BY <1>2, <1>4, <2>1, <2>2
  <2>3. ASSUME records # <<>>, NEW i \in first..(records[1] - 1) PROVE i <= cursor
    BY <1>1, <1>2, <2>1, <2>3
  <2> QED  BY <1>1, <1>4, <1>5, <2>2, <2>3 DEF RecordsOK
<1> QED  BY <1>5, <1>6, <1>7 DEF FetchingOK, LoadedOK

LEMMA CheckpointStep == ASSUME IInv, FactsStep, SendsCheckpoint PROVE SeenOK'
<1> USE DEF IInv, SeenOK, SendsCheckpoint
<1>1. UNCHANGED <<stream, first, row, shown, skipped>>
  BY DEF runs, hints
<1>2. server' \in ServerState /\ server'.pc = "follow" /\ server'.cursor = server.cursor
  BY DEF ServerState
<1>3. browser' \in [state: {"off", "waiting", "open"}, cursor: Cursors] /\ browser'.cursor = server.cursor
  BY DEF BrowserOK, ServerState
<1>4. server.cursor # NoCursor /\ server.cursor <= Len(stream) /\ Earned(server.cursor)
  BY DEF FollowingOK
<1>5. ShownOK' /\ BrowserOK' /\ FollowingOK'
  BY <1>1, <1>2, <1>3, <1>4 DEF ShownOK, BrowserOK, FollowingOK, Earned
<1> QED  BY <1>2, <1>5 DEF FetchingOK, LoadedOK, RecordsOK

\* What a hint is answered with is no older than any hint of its run.
LEMMA DeliverStep == ASSUME IInv, FactsStep, Delivers PROVE SeenOK'
<1> USE DEF IInv, SeenOK
<1> DEFINE id == Head(server.records)
           r == stream[id].run
<1>1. /\ server.pc = "deliver" /\ server.records \in Seq(Nat) /\ server.records # <<>>
      /\ UNCHANGED <<stream, first, row>> /\ Len(stream) \in Nat /\ first \in Nat \ {0}
      /\ server.cursor \in Nat /\ server.cursor <= Len(stream) /\ Earned(server.cursor)
  BY Lengths DEF Delivers, runs, hints, FollowingOK, ServerState, Cursors
<1>2. id = server.records[1] /\ id \in 1..Len(stream) /\ 1 \in 1..Len(server.records)
  BY <1>1 DEF RecordsOK
<1>3. r \in Runs /\ \A q \in Runs : row[q].version \in Nat /\ shown[q] \in Nat
  BY <1>2, HintIsPast DEF FactsOK, RowsOK, Row, ShownOK
<1>4. server' = [server EXCEPT !.cursor = id, !.records = Tail(server.records)]
  BY DEF Delivers
<1>5. \/ /\ shown' = [shown EXCEPT ![r] = row[r].version]
         /\ skipped' = skipped \ {r} /\ browser' = [browser EXCEPT !.cursor = id]
      \/ skipped' = skipped \cup {r} /\ UNCHANGED <<shown, browser>>
  BY DEF Delivers, VersionSent
<1>6. ASSUME NEW i \in first..id PROVE i = id \/ i \in first..server.cursor
  <2>1. \A j \in first..(id - 1) : j <= server.cursor
    BY <1>1, <1>2 DEF RecordsOK
  <2> QED  BY <1>1, <1>2, <2>1
<1> HIDE DEF id
<1>7. ASSUME NEW i \in 1..Len(stream),
             i = id \/ shown[stream[i].run] = 0 \/ stream[i].run \in skipped
                    \/ shown[stream[i].run] >= stream[i].version
      PROVE  \/ shown'[stream[i].run] = 0 \/ stream[i].run \in skipped'
             \/ shown'[stream[i].run] >= stream[i].version
  <2>1. /\ stream[i].run \in Runs /\ stream[i].version \in Nat
        /\ row[stream[i].run].version >= stream[i].version
    BY HintIsPast
  <2> QED  BY <1>3, <1>5, <1>7, <2>1 DEF ShownOK
<1>8. ASSUME NEW c \in Nat, c <= Len(stream), Earned(c)
      PROVE  \A i \in first..c : \/ shown'[stream[i].run] = 0 \/ stream[i].run \in skipped'
                                 \/ shown'[stream[i].run] >= stream[i].version
  <2> SUFFICES ASSUME NEW i \in first..c
               PROVE  \/ shown'[stream[i].run] = 0 \/ stream[i].run \in skipped'
                      \/ shown'[stream[i].run] >= stream[i].version
    OBVIOUS
  <2>1. i \in 1..Len(stream)
    BY <1>1, <1>8
  <2> QED  BY <1>7, <1>8, <2>1 DEF Earned
<1>9. \A i \in first..id : \/ shown'[stream[i].run] = 0 \/ stream[i].run \in skipped'
                           \/ shown'[stream[i].run] >= stream[i].version
  <2> SUFFICES ASSUME NEW i \in first..id
               PROVE  \/ shown'[stream[i].run] = 0 \/ stream[i].run \in skipped'
                      \/ shown'[stream[i].run] >= stream[i].version
    OBVIOUS
  <2>1. i \in 1..Len(stream)
    BY <1>1, <1>2
  <2>2. CASE i = id
    BY <1>7, <2>1, <2>2
  <2>3. CASE i \in first..server.cursor
    BY <1>1, <1>8, <2>3
  <2> QED  BY <1>6, <2>2, <2>3
<1>10. ShownOK'
  <2>1. shown' = shown \/ shown' = [shown EXCEPT ![r] = row[r].version]
    BY <1>5
  <2>2. shown \in [Runs -> Nat] /\ \A q \in Runs : shown[q] <= row[q].version
    BY DEF ShownOK
  <2> HIDE DEF r
  <2>3. shown' \in [Runs -> Nat]
    BY <1>3, <2>1, <2>2
  <2>4. \A q \in Runs : shown'[q] <= row[q].version
    BY <1>3, <2>1, <2>2
  <2> QED  BY <1>1, <2>3, <2>4 DEF ShownOK
<1>11. BrowserOK'
  <2>1. CASE skipped' = skipped \cup {r} /\ UNCHANGED <<shown, browser>>
    <3>1. browser.cursor # NoCursor => browser.cursor \in Nat
      BY DEF BrowserOK, Cursors
    <3> QED  BY <1>1, <1>8, <2>1, <3>1 DEF BrowserOK, Earned
  <2>2. CASE browser' = [browser EXCEPT !.cursor = id]
    <3>1. browser' \in [state: {"off", "waiting", "open"}, cursor: Cursors] /\ browser'.cursor = id
      BY <1>2, <2>2 DEF BrowserOK, Cursors
    <3>2. id # NoCursor /\ id <= Len(stream)
      BY <1>1, <1>2, Numbers
    <3> QED  BY <1>1, <1>9, <3>1, <3>2 DEF BrowserOK, Earned
  <2> QED  BY <1>5, <2>1, <2>2
<1>12. /\ server' \in ServerState /\ server'.pc = "deliver" /\ server'.cursor = id
       /\ server'.records = Tail(server.records)
  <2>1. Tail(server.records) \in Seq(Nat) /\ id \in Cursors
    BY <1>1, <1>2 DEF Cursors
  <2> QED  BY <1>1, <1>4, <2>1 DEF ServerState
<1>13. FollowingOK'
  <2>1. id # NoCursor /\ id <= Len(stream)
    BY <1>1, <1>2, Numbers
  <2> QED  BY <1>1, <1>9, <1>12, <2>1 DEF FollowingOK, Earned
<1>14. RecordsOK'
  <2> DEFINE rest == Tail(server.records)
  <2>1. Len(rest) = Len(server.records) - 1 /\ \A k \in 1..Len(rest) : rest[k] = server.records[k + 1]
    BY <1>1
  <2>2. ASSUME NEW k \in 1..Len(rest) PROVE rest[k] = id + k /\ rest[k] \in 1..Len(stream)
    <3>1. k + 1 \in 1..Len(server.records) /\ rest[k] = server.records[k + 1] /\ k \in Nat
      BY <1>1, <2>1
    <3>2. server.records[k + 1] = server.records[1] + (k + 1) - 1
          /\ server.records[k + 1] \in 1..Len(stream)
      BY <1>1, <3>1 DEF RecordsOK
    <3> QED  BY <1>2, <3>1, <3>2
  <2>3. rest \in Seq(Nat)
    BY <1>1
  <2>4. ASSUME rest # <<>> PROVE rest[1] = id + 1
    BY <2>2, <2>3, <2>4
  <2> HIDE DEF rest
  <2>5. \A k \in 1..Len(rest) : rest[k] = rest[1] + k - 1
    <3> SUFFICES ASSUME NEW k \in 1..Len(rest) PROVE rest[k] = rest[1] + k - 1
      OBVIOUS
    <3>1. rest[1] = id + 1
      BY <2>3, <2>4
    <3>2. rest[k] = id + k
      BY <2>2
    <3>3. k \in Nat /\ id \in Nat
      BY <1>2, <2>3
    <3> QED  BY <3>1, <3>2, <3>3
  <2>6. rest # <<>> => \A i \in first..(rest[1] - 1) : i <= id
    BY <1>1, <1>2, <2>4
  <2>7. server'.records = rest
    BY <1>12 DEF rest
  <2> QED  BY <1>1, <1>12, <2>2, <2>5, <2>6, <2>7 DEF RecordsOK
<1> QED  BY <1>10, <1>11, <1>12, <1>13, <1>14 DEF FetchingOK, LoadedOK

----------------------------------------------------------------------------
LEMMA NextIInv == IInv /\ [Next]_vars => IInv'
<1> SUFFICES ASSUME IInv, [Next]_vars PROVE IInv'
  OBVIOUS
<1>1. FactsStep
  BY AllFacts
<1>2. CASE ~ClientSteps
  <2>1. UNCHANGED <<server, client>>
    BY <1>2 DEF Next, ClientSteps, Updates, ReadsAgain, AddsHint, HintIsLost, StreamIsTrimmed, FindsRun,
                WritesUsers, SubscriptionChanges, SessionEnds, vars
  <2> QED  BY <1>1, <2>1, StillSeen DEF FactsStep, IInv
<1>3. CASE Ends
  BY <1>1, <1>3, EndStep DEF FactsStep, IInv
<1>4. CASE ClientSteps /\ ~Ends
  <2>1. SeenOK'
    BY <1>1, <1>4, ListenerSteps, ConnectStep, TailStep, SessionStep, LoadStep, SendStep, ReadStep,
       DeliverStep, CheckpointStep
    DEF ClientSteps, Serving, SessionIsOver, DatabaseIsAway, RedisIsAway, ConnectionTimesOut,
        ConnectionDrops
  <2> QED  BY <1>1, <2>1 DEF FactsStep, IInv
<1> QED  BY <1>2, <1>3, <1>4

\* What is known of a run is never ahead of its row, and what the browser is about
\* to be shown is not behind what its cursor promises.
THEOREM Invariance == Spec => []IInv
BY InitIInv, NextIInv, PTL DEF Spec

\* Between two connections, and between a snapshot and the stream, no change falls
\* through: the browser has seen what the hints up to its cursor announced.
THEOREM CursorsAreEarned == Spec => []CursorIsEarned
<1>1. IInv => CursorIsEarned
  BY DEF IInv, SeenOK, BrowserOK, Earned, CursorIsEarned
<1> QED  BY <1>1, Invariance, PTL

\* Hints out of order, read again and sent twice never show a run as it was before.
THEOREM ShownNeverGoesBack == Spec => NeverGoesBack
<1>1. IInv /\ [Next]_vars => [browser'.state # "off" => \A r \in Runs : shown'[r] >= shown[r]]_vars
  <2> SUFFICES ASSUME IInv, [Next]_vars, browser'.state # "off", NEW r \in Runs
               PROVE  shown'[r] >= shown[r]
    OBVIOUS
  <2>1. shown[r] \in Nat /\ row[r].version \in Nat /\ shown[r] <= row[r].version
        /\ shown \in [Runs -> Nat]
    BY DEF IInv, SeenOK, ShownOK, FactsOK, RowsOK, Row
  <2>2. CASE SendsSnapshot
    <3>1. server.items \in Items
      BY DEF IInv, SeenOK, ServerState
    <3> QED  BY <2>1, <2>2, <3>1 DEF SendsSnapshot, IInv, SeenOK, LoadedOK, Items
  <2>3. CASE Delivers
    BY <2>1, <2>3 DEF Delivers, VersionSent
  <2>4. CASE UNCHANGED shown
    BY <2>1, <2>4
  <2>5. SendsSnapshot \/ Delivers \/ StopsListening \/ UNCHANGED shown
    BY DEF Next, Updates, ReadsAgain, AddsHint, HintIsLost, StreamIsTrimmed, FindsRun, WritesUsers,
           SubscriptionChanges, SessionEnds, vars, Connects, Serving, Listens, ReadsTail, ChecksSession,
           SessionIsOver, LoadsSnapshot, ReadsStream, SendsCheckpoint, DatabaseIsAway, RedisIsAway,
           ConnectionTimesOut, ConnectionDrops, Ends, client
  <2> QED  BY <2>2, <2>3, <2>4, <2>5 DEF StopsListening
<1> QED  BY <1>1, Invariance, PTL DEF Spec, NeverGoesBack

----------------------------------------------------------------------------
\* What the property forbids, and what it allows it for.
Loses(r) ==
  \/ row'[r].notes < row[r].notes
  \/ \E i \in DOMAIN row[r].users :
       /\ ~Contains(row'[r].users, row[r].users[i])
       /\ i > 1 \/ Len(row[r].users) < UserLimit

Overlaps(r) ==
  \E u \in Users : /\ attach[u].pc = "found" /\ attach[u].run = r
                   /\ attach[u].users # row[r].users \/ attach[u].notes # row[r].notes

LEMMA RowOf ==
  ASSUME IInv, NEW r \in Runs
  PROVE  /\ row \in [Runs -> Row] /\ row[r].users \in Seq(Users) /\ Len(row[r].users) <= UserLimit
         /\ row[r].notes \in Nat /\ row[r].version \in Nat /\ row[r].notes <= row[r].version
<1>1. row \in [Runs -> Row] /\ Len(row[r].users) <= UserLimit /\ row[r].notes <= row[r].version
  BY DEF IInv, FactsOK, RowsOK
<1> QED  BY <1>1 DEF Row

\* A request that writes back the metadata it read loses no user and no note, unless
\* they changed under it or the list is full.
THEOREM LossNeedsOverlap == Spec => MetadataLossNeedsOverlap
<1>1. ASSUME IInv, [Next]_vars, NEW r \in Runs, Loses(r) PROVE Overlaps(r)
  <2>1. /\ row \in [Runs -> Row] /\ row[r].users \in Seq(Users) /\ Len(row[r].users) <= UserLimit
        /\ row[r].notes \in Nat /\ row[r].version \in Nat /\ row[r].notes <= row[r].version
    BY <1>1, RowOf
  <2>2. ASSUME row'[r].users = row[r].users PROVE row'[r].notes < row[r].notes
    BY <1>1, <2>1, <2>2 DEF Contains, Loses
  <2>3. row' # row
    BY <2>1, <2>2
  <2>4. CASE \E p \in Publishers, q \in Runs : Updates(p, q)
    <3>1. PICK p \in Publishers, q \in Runs : Updates(p, q)
      BY <2>4
    <3>2. row'[r].users = row[r].users /\ row'[r].notes >= row[r].notes
      <4>1. /\ row'[r].users = row[r].users
            /\ row'[r].notes = row[r].notes \/ row'[r].notes = row[r].version + 1
        BY <2>1, <3>1 DEF Updates, Row
      <4> QED  BY <2>1, <4>1
    <3>3. row'[r].notes \in Nat
      BY <2>1, <3>1 DEF Updates, Row
    <3> QED  BY <2>1, <2>2, <3>2, <3>3
  <2>5. CASE \E u \in Users : WritesUsers(u)
    <3>1. PICK u \in Users : WritesUsers(u)
      BY <2>5
    <3>2. /\ attach[u].pc = "found" /\ attach[u].run \in Runs /\ attach[u].users \in Seq(Users)
          /\ row' = [row EXCEPT ![attach[u].run].users = Attached(attach[u].users, u),
                                ![attach[u].run].notes = attach[u].notes]
      <4>1. attach[u].pc = "found"
        BY <3>1 DEF WritesUsers
      <4>2. attach[u].run \in Runs /\ attach[u].users \in Seq(Users)
        BY <1>1, <4>1 DEF IInv, FactsOK, AttachOK
      <4> QED  BY <3>1, <4>1, <4>2 DEF WritesUsers
    <3>3. attach[u].run = r
      BY <2>1, <2>3, <1>1, <2>2, <3>2
    <3>4. row'[r].users = Attached(attach[u].users, u) /\ row'[r].notes = attach[u].notes
      BY <2>1, <3>2, <3>3 DEF Row
    <3>5. ASSUME attach[u].users = row[r].users, attach[u].notes = row[r].notes PROVE FALSE
      <4>1. \A i \in DOMAIN row[r].users : i > 1 \/ Len(row[r].users) < UserLimit =>
              Contains(row'[r].users, row[r].users[i])
        BY <2>1, <3>4, <3>5, AttachedUsers
      <4> QED  BY <1>1, <2>1, <3>4, <3>5, <4>1 DEF Loses
    <3> QED  BY <3>2, <3>3, <3>5 DEF Overlaps
  <2> QED
    BY <1>1, <2>3, <2>4, <2>5, ClientKeepsFacts
    DEF Next, ClientSteps, ReadsAgain, AddsHint, HintIsLost, StreamIsTrimmed, FindsRun,
        SubscriptionChanges, SessionEnds, vars, runs
<1>2. ASSUME IInv, [Next]_vars PROVE \A r \in Runs : Loses(r) => Overlaps(r)
  BY <1>1, <1>2
<1>3. [\A r \in Runs : Loses(r) => Overlaps(r)]_vars
        => [\A r \in Runs :
              \/ row'[r].notes < row[r].notes
              \/ \E i \in DOMAIN row[r].users :
                   /\ ~Contains(row'[r].users, row[r].users[i])
                   /\ i > 1 \/ Len(row[r].users) < UserLimit
              => \E u \in Users : /\ attach[u].pc = "found" /\ attach[u].run = r
                                  /\ \/ attach[u].users # row[r].users
                                     \/ attach[u].notes # row[r].notes]_vars
  BY DEF Loses, Overlaps
<1> QED  BY <1>2, <1>3, Invariance, PTL DEF Spec, MetadataLossNeedsOverlap
=============================================================================
