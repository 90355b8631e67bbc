------------------------------ MODULE Realtime ------------------------------
(***************************************************************************)
(* How the browser of one user learns what happens to collection runs.     *)
(*                                                                         *)
(* Whoever commits a change of a run reads the run again and adds a hint   *)
(* to a Redis stream.  A connection reads the tail of the stream, sends a  *)
(* snapshot of the runs the user may see, then follows the stream and      *)
(* sends, for each hint, the run as the database has it by then.  The      *)
(* browser remembers a cursor and connects again whenever the connection   *)
(* ends, for whatever reason.                                              *)
(*                                                                         *)
(* A run is visible through a subscription or through the list of users    *)
(* in its metadata, which requests read and write back whole.  A frame     *)
(* that is lost on the way is a connection that dropped before it.         *)
(***************************************************************************)
EXTENDS Naturals, FiniteSets, Sequences, SequencesExt

CONSTANTS Runs,           \* numbers, the newest scheduled_at last
          Users, Me, Publishers,
          UserLimit,      \* 100
          SnapshotLimit,  \* collection_realtime_snapshot_limit
          ReadCount,      \* collection_realtime_read_count
          MaxVersion,     \* bound: the last version of each run
          Sought,         \* bound: the runs that on-demand searches find
          NoCursor,       \* no cursor; an empty stream has the cursor 0
          MaxTrims        \* bound: how often the stream is trimmed or lost

ASSUME RealtimeAssumption ==
  /\ Runs \subseteq Nat \ {0} /\ Me \in Users
  /\ {UserLimit, SnapshotLimit, ReadCount} \subseteq Nat \ {0}
  /\ MaxVersion \in [Runs -> Nat \ {0}] /\ Sought \subseteq Runs
  /\ MaxTrims \in Nat /\ NoCursor \notin Nat

VARIABLES row,        \* [version, users, notes]: changes committed, run_metadata
          subscribed, \* the user has a subscription of the runs' search
          session,    \* the user's session is valid
          attach,     \* requests that add their user to a run
          publisher,  \* [pc, run, version]
          stream, first, trims,  \* all hints ever, the first that is left
          server,     \* the connection: [pc, tail, cursor, redis, items, records]
          browser,    \* [state, cursor]
          shown,      \* the version of each run that the browser was sent, or 0
          skipped     \* runs not sent, for want of visibility, since they were last sent

runs == <<row, subscribed, session, attach>>
hints == <<publisher, stream, first, trims>>
client == <<browser, shown, skipped>>
vars == <<runs, hints, server, client>>

NoAttach == [pc |-> "idle", run |-> 0, users |-> <<>>, notes |-> 0]
NoPublication == [pc |-> "idle", run |-> 0, version |-> 0]
Closed == [pc |-> "closed", tail |-> 0, cursor |-> NoCursor, redis |-> TRUE, items |-> <<>>, records |-> <<>>]

Init ==
  /\ row = [r \in Runs |-> [version |-> 1, users |-> <<>>, notes |-> 1]]
  /\ subscribed \in BOOLEAN /\ session = TRUE
  /\ attach = [u \in Users |-> NoAttach]
  /\ publisher = [p \in Publishers |-> NoPublication]
  /\ stream = <<>> /\ first = 1 /\ trims = 0
  /\ server = Closed
  /\ browser = [state |-> "off", cursor |-> NoCursor]
  /\ shown = [r \in Runs |-> 0] /\ skipped = {}

Visible(r) == subscribed \/ \E i \in DOMAIN row[r].users : row[r].users[i] = Me

----------------------------------------------------------------------------
(* Runs, their users, and the hints.                                       *)

\* A process commits a change of a run, under the lock of its row.
Updates(p, r) ==
  /\ publisher[p].pc = "idle" /\ row[r].version < MaxVersion[r]
  /\ row' = [row EXCEPT ![r].version = @ + 1, ![r].notes = row[r].version + 1]
  /\ publisher' = [publisher EXCEPT ![p] = [pc |-> "committed", run |-> r, version |-> 0]]
  /\ UNCHANGED <<subscribed, session, attach, stream, first, trims, server, client>>

ReadsAgain(p) ==
  /\ publisher[p].pc = "committed"
  /\ publisher' = [publisher EXCEPT ![p].pc = "read",
                                    ![p].version = row[publisher[p].run].version]
  /\ UNCHANGED <<runs, stream, first, trims, server, client>>

AddsHint(p) ==
  /\ publisher[p].pc = "read"
  /\ stream' = Append(stream, [run |-> publisher[p].run, version |-> publisher[p].version])
  /\ publisher' = [publisher EXCEPT ![p] = NoPublication]
  /\ UNCHANGED <<runs, first, trims, server, client>>

\* Redis or the database is away, or the process dies: the hint is never added.
HintIsLost(p) ==
  /\ publisher[p].pc # "idle"
  /\ publisher' = [publisher EXCEPT ![p] = NoPublication]
  /\ UNCHANGED <<runs, stream, first, trims, server, client>>

StreamIsTrimmed(n) ==
  /\ trims < MaxTrims /\ n > first
  /\ first' = n /\ trims' = trims + 1
  /\ UNCHANGED <<runs, publisher, stream, server, client>>

\* An on-demand search finds the run active or recent, without a lock.
FindsRun(u, r) ==
  /\ attach[u].pc = "idle" /\ ~Contains(row[r].users, u)
  /\ attach' = [attach EXCEPT ![u] = [pc |-> "found", run |-> r,
                                      users |-> row[r].users, notes |-> row[r].notes]]
  /\ UNCHANGED <<row, subscribed, session, hints, server, client>>

\* Mistakes that the mutation runs put in place of the definitions they are named for.
AttachedAlone(users, u) == <<u>>
Attached(users, u) ==
  LET all == IF Contains(users, u) THEN users ELSE Append(users, u) IN
  SubSeq(all, IF Len(all) > UserLimit THEN Len(all) - UserLimit + 1 ELSE 1, Len(all))

WritesUsers(u) ==
  LET a == attach[u] IN
  /\ a.pc = "found"
  /\ row' = [row EXCEPT ![a.run].users = Attached(a.users, u), ![a.run].notes = a.notes]
  /\ attach' = [attach EXCEPT ![u] = NoAttach]
  /\ UNCHANGED <<subscribed, session, hints, server, client>>

SubscriptionChanges ==
  /\ subscribed' = ~subscribed
  /\ UNCHANGED <<row, session, attach, hints, server, client>>

SessionEnds ==
  /\ session /\ session' = FALSE
  /\ UNCHANGED <<row, subscribed, attach, hints, server, client>>

----------------------------------------------------------------------------
(* The connection: collection_run_event_stream.                            *)

Retained == first..Len(stream)

Connects ==
  /\ browser.state = "waiting"
  /\ browser' = [browser EXCEPT !.state = "open"]
  /\ server' = [Closed EXCEPT !.pc = "tail", !.cursor = browser.cursor]
  /\ UNCHANGED <<runs, hints, shown, skipped>>

\* Every end of the connection the server knows of is told in a last frame.
Ends ==
  /\ server' = Closed
  /\ browser' = [browser EXCEPT !.state = "waiting"]
  /\ UNCHANGED <<runs, hints, shown, skipped>>

TailAfterwards(tail) == IF Retained = {} THEN 0 ELSE Len(stream)

\* The tail as it was read before the snapshot.
TailForSnapshot(tail) == tail

ReadsTail ==
  /\ server.pc = "tail"
  /\ \E available \in BOOLEAN :
       server' = [server EXCEPT !.pc = "session", !.redis = available,
                                !.tail = IF available /\ Retained # {} THEN Len(stream) ELSE 0]
  /\ UNCHANGED <<runs, hints, client>>

ChecksSession ==
  /\ server.pc \in {"session", "check"} /\ session
  /\ server' = [server EXCEPT !.pc = IF server.pc = "session" THEN "snapshot"
                                     ELSE IF server.records = <<>> THEN "follow" ELSE "deliver"]
  /\ UNCHANGED <<runs, hints, client>>

SessionIsOver ==
  /\ server.pc \in {"session", "check"} /\ ~session
  /\ Ends

DatabaseIsAway ==
  /\ server.pc \in {"session", "snapshot", "check", "deliver"}
  /\ Ends

RedisIsAway ==
  /\ server.pc = "follow"
  /\ Ends

\* The newest visible runs; none if the session has ended meanwhile.
Snapshot ==
  {r \in Runs : /\ session /\ Visible(r)
                /\ Cardinality({s \in Runs : s > r /\ Visible(s)}) < SnapshotLimit}

LoadsSnapshot ==
  /\ server.pc = "snapshot"
  /\ server' = [server EXCEPT !.pc = "loaded", !.items = [r \in Snapshot |-> row[r].version]]
  /\ skipped' = skipped \cup {r \in Runs : ~session \/ ~Visible(r)}
  /\ UNCHANGED <<runs, hints, browser, shown>>

SendsSnapshot ==
  LET start == IF server.cursor # NoCursor THEN server.cursor ELSE TailForSnapshot(server.tail) IN
  /\ server.pc = "loaded"
  /\ shown' = [r \in Runs |-> IF r \in DOMAIN server.items THEN server.items[r] ELSE shown[r]]
  /\ skipped' = skipped \ DOMAIN server.items
  /\ browser' = [cursor |-> start, state |-> IF server.redis THEN "open" ELSE "waiting"]
  /\ server' = IF server.redis THEN [Closed EXCEPT !.pc = "follow", !.cursor = start] ELSE Closed
  /\ UNCHANGED <<runs, hints>>

\* The records after the cursor that are left; none if the read times out.
ReadsStream ==
  LET from == IF first > server.cursor + 1 THEN first ELSE server.cursor + 1
      until == IF from + ReadCount - 1 < Len(stream) THEN from + ReadCount - 1 ELSE Len(stream) IN
  /\ server.pc = "follow"
  /\ server' = [server EXCEPT !.pc = "check", !.records = [i \in 1..(until + 1 - from) |-> from + i - 1]]
  /\ UNCHANGED <<runs, hints, client>>

VersionOfHint(hint) == hint.version

\* What is sent for a hint: the run as it is now.
VersionSent(hint) == row[hint.run].version

Delivers ==
  LET id == Head(server.records)
      hint == stream[id] IN
  /\ server.pc = "deliver" /\ server.records # <<>>
  /\ server' = [server EXCEPT !.cursor = id, !.records = Tail(@)]
  /\ IF session /\ Visible(hint.run)
     THEN /\ shown' = [shown EXCEPT ![hint.run] = VersionSent(hint)]
          /\ skipped' = skipped \ {hint.run}
          /\ browser' = [browser EXCEPT !.cursor = id]
     ELSE /\ skipped' = skipped \cup {hint.run}
          /\ UNCHANGED <<shown, browser>>
  /\ UNCHANGED <<runs, hints>>

SendsCheckpoint ==
  /\ server.pc = "deliver" /\ server.records = <<>>
  /\ server' = [server EXCEPT !.pc = "follow"]
  /\ browser' = [browser EXCEPT !.cursor = server.cursor]
  /\ UNCHANGED <<runs, hints, shown, skipped>>

\* collection_realtime_connection_seconds are over, seen between two reads.
ConnectionTimesOut ==
  /\ server.pc = "follow"
  /\ Ends

\* The network, the proxy or the API process fails.
ConnectionDrops ==
  /\ server.pc # "closed"
  /\ Ends

----------------------------------------------------------------------------
(* The browser: the first listener comes, the last one goes.               *)

Listens ==
  /\ browser.state = "off"
  /\ browser' = [browser EXCEPT !.state = "waiting"]
  /\ UNCHANGED <<runs, hints, server, shown, skipped>>

StopsListening ==
  /\ browser.state # "off"
  /\ browser' = [state |-> "off", cursor |-> NoCursor]
  /\ shown' = [r \in Runs |-> 0] /\ skipped' = {} /\ server' = Closed
  /\ UNCHANGED <<runs, hints>>

----------------------------------------------------------------------------
Serving ==
  \/ ReadsTail \/ ChecksSession \/ SessionIsOver \/ LoadsSnapshot \/ SendsSnapshot
  \/ ReadsStream \/ Delivers \/ SendsCheckpoint
  \/ DatabaseIsAway \/ RedisIsAway \/ ConnectionTimesOut \/ ConnectionDrops

Next ==
  \/ \E p \in Publishers, r \in Runs : Updates(p, r)
  \/ \E p \in Publishers : ReadsAgain(p) \/ AddsHint(p) \/ HintIsLost(p)
  \/ \E n \in 2..(Len(stream) + 1) : StreamIsTrimmed(n)
  \/ \E u \in Users, r \in Sought : FindsRun(u, r)
  \/ \E u \in Users : WritesUsers(u)
  \/ SubscriptionChanges \/ SessionEnds
  \/ Connects \/ Serving
  \/ Listens \/ StopsListening

Spec == Init /\ [][Next]_vars

----------------------------------------------------------------------------
\* Though hints are added out of order, read again and sent twice, what the browser
\* is shown of a run never goes back to an earlier state.
NeverGoesBack ==
  [][browser'.state # "off" => \A r \in Runs : shown'[r] >= shown[r]]_vars

\* The browser has seen what every hint up to its cursor announced: nothing falls
\* between the snapshot and the stream, or between two connections.
CursorIsEarned ==
  browser.cursor # NoCursor => \A i \in first..browser.cursor :
    LET hint == stream[i] IN
    shown[hint.run] = 0 \/ hint.run \in skipped \/ shown[hint.run] >= hint.version

\* A user or a note disappears from a run's metadata only when a request overlaps
\* another change of it, but for the first user of a full list, who makes room.
MetadataLossNeedsOverlap ==
  [][\A r \in Runs :
       \/ row'[r].notes < row[r].notes
       \/ \E i \in DOMAIN row[r].users :
            /\ ~Contains(row'[r].users, row[r].users[i])
            /\ i > 1 \/ Len(row[r].users) < UserLimit
       => \E u \in Users : /\ attach[u].pc = "found" /\ attach[u].run = r
                           /\ \/ attach[u].users # row[r].users
                              \/ attach[u].notes # row[r].notes]_vars
=============================================================================
