--------------------------- MODULE RedisGateProofs ---------------------------
(***************************************************************************)
(* Proofs about RedisGate, for every number of collectors, routes and      *)
(* tokens, every limit and every lease.                                    *)
(*                                                                         *)
(* The inductive invariant bounds the entries of the sorted sets, live or  *)
(* not, and says that sessions have tokens of their own.  All steps but    *)
(* acquisitions only take entries away and move one slot along its way     *)
(* (QuietMove), which is shown action by action; the rest follows from     *)
(* that.                                                                   *)
(***************************************************************************)
EXTENDS RedisGate, FiniteSetTheorems, TLAPS

Slot == [pc : {"out", "waiting", "body", "cancelling", "leaving", "releasing"},
         token : Tokens \cup {NoToken}, route : Routes, wait : Nat, renewing : BOOLEAN,
         failed : {"none", "body_error", "coordination"},
         result : {"none", "clean", "body_error", "coordination", "cancelled"}]

\* What a slot is at each place: it has a token while it is inside, its result comes at
\* the end, and a renewal is under way only while there is a heartbeat.
SlotOK(x) ==
  /\ x \in Slot
  /\ x.pc # "out" => x.token \in Tokens /\ x.result = "none"
  /\ x.pc \in {"out", "waiting", "body"} => x.failed = "none"
  /\ x.pc = "leaving" => x.failed # "coordination"
  /\ x.renewing => x.pc \in {"body", "leaving"}

EntriesOK ==
  /\ DOMAIN provider \subseteq Tokens
  /\ Cardinality(DOMAIN provider) <= ProviderLimit
  /\ route = [r \in Routes |-> route[r]]
  /\ \A r \in Routes : /\ DOMAIN route[r] \subseteq Tokens
                       /\ Cardinality(DOMAIN route[r]) <= RouteLimit

TokensDiffer ==
  \A s, q \in Slots :
    s # q /\ slot[s].pc # "out" /\ slot[q].pc # "out" => slot[s].token # slot[q].token

SlotsOK == slot \in [Slots -> Slot] /\ \A s \in Slots : SlotOK(slot[s])

IInv == SlotsOK /\ EntriesOK /\ TokensDiffer

----------------------------------------------------------------------------
(* What a step does.                                                       *)

AtWork(s) == slot[s].pc \in {"body", "leaving", "releasing"}
Displaced(s) == AtWork(s) /\ s \notin Unharmed

Shrinking ==
  /\ DOMAIN provider' \subseteq DOMAIN provider
  /\ route' = [r \in Routes |-> route'[r]]
  /\ \A r \in Routes : DOMAIN route'[r] \subseteq DOMAIN route[r]

\* A slot goes its way: it keeps its token and route until it is out.
Moves(s) ==
  /\ slot' = [slot EXCEPT ![s] = slot'[s]]
  /\ SlotOK(slot'[s])
  /\ slot'[s].pc # "out" =>
       /\ slot[s].pc # "out"
       /\ slot'[s].token = slot[s].token /\ slot'[s].route = slot[s].route

\* A displaced session never ends cleanly, nor does it forget why it failed.
Remembers(s) ==
  Displaced(s) =>
    /\ slot'[s].result # "clean"
    /\ slot[s].failed = "coordination" => ~AtWork(s)' \/ slot'[s].failed = "coordination"

QuietMove(s) == Shrinking /\ Moves(s) /\ Remembers(s)

LEMMA OutsideOK ==
  ASSUME NEW result \in {"none", "clean", "body_error", "coordination", "cancelled"}
  PROVE  SlotOK(Outside(result)) /\ Outside(result).pc = "out" /\ Outside(result).result = result
BY GateAssumption DEF SlotOK, Slot, Outside

\* The scripts other than the acquisition only take entries away.
LEMMA ScriptsShrink ==
  ASSUME IInv, NEW s \in Slots
  PROVE  /\ Renews(s) => Shrinking
         /\ Removes(s) => Shrinking
         /\ UNCHANGED <<provider, route>> => Shrinking
<1> DEFINE r == slot[s].route
           t == slot[s].token
<1>0. r \in Routes
  BY DEF IInv, SlotsOK, Slot
<1>1. ASSUME Renews(s) PROVE Shrinking
  <2>1. t \in DOMAIN provider /\ t \in DOMAIN route[r]
    BY <1>1 DEF Renews, Renewable, Live
  <2>2. DOMAIN WithLease(provider, t) = DOMAIN provider /\ DOMAIN WithLease(route[r], t) = DOMAIN route[r]
    BY <2>1 DEF WithLease
  <2>3. provider' = WithLease(provider, t) /\ route' = [route EXCEPT ![r] = WithLease(@, t)]
    BY <1>1 DEF Renews
  <2> QED  BY <1>0, <2>2, <2>3 DEF Shrinking, IInv, EntriesOK
<1>2. ASSUME Removes(s) PROVE Shrinking
  <2>1. /\ DOMAIN Without(provider, t) \subseteq DOMAIN provider
        /\ DOMAIN Without(route[r], t) \subseteq DOMAIN route[r]
    BY DEF Without, Restrict
  <2>2. provider' = Without(provider, t) /\ route' = [route EXCEPT ![r] = Without(@, t)]
    BY <1>2 DEF Removes
  <2> QED  BY <1>0, <2>1, <2>2 DEF Shrinking, IInv, EntriesOK
<1>3. ASSUME UNCHANGED <<provider, route>> PROVE Shrinking
  BY <1>3 DEF Shrinking, IInv, EntriesOK
<1> QED  BY <1>1, <1>2, <1>3

----------------------------------------------------------------------------
(* The actions of a slot, one by one.                                      *)

LEMMA WaitingIsQuiet ==
  ASSUME IInv, NEW s \in Slots, FindsNoRoom(s) \/ AcquireUnavailable(s)
  PROVE  QuietMove(s)
<1>0. SlotOK(slot[s]) /\ slot \in [Slots -> Slot] /\ slot[s].pc = "waiting"
  BY DEF IInv, SlotsOK, FindsNoRoom, AcquireUnavailable
<1>1. Shrinking
  <2>1. CASE AcquireUnavailable(s)
    BY <2>1, ScriptsShrink DEF AcquireUnavailable
  <2>2. CASE FindsNoRoom(s)
    <3> DEFINE r == slot[s].route
    <3>1. r \in Routes
      BY <1>0 DEF SlotOK, Slot
    <3>2. DOMAIN Purged(provider) \subseteq DOMAIN provider /\ DOMAIN Purged(route[r]) \subseteq DOMAIN route[r]
      BY DEF Purged, Live, Restrict
    <3>3. provider' = Purged(provider) /\ route' = [route EXCEPT ![r] = Purged(@)]
      BY <2>2 DEF FindsNoRoom
    <3> QED  BY <3>1, <3>2, <3>3 DEF Shrinking, IInv, EntriesOK
  <2> QED  BY <2>1, <2>2
<1>2. slot' = slot \/ slot' = [slot EXCEPT ![s] = Outside("coordination")]
  BY DEF FindsNoRoom, AcquireUnavailable
<1>3. Moves(s)
  BY <1>0, <1>2, OutsideOK DEF Moves
<1>4. Remembers(s)
  BY <1>0 DEF Remembers, Displaced, AtWork
<1> QED  BY <1>1, <1>3, <1>4 DEF QuietMove

LEMMA BeatingIsQuiet ==
  ASSUME IInv, NEW s \in Slots, Beating(s)
  PROVE  QuietMove(s)
<1>0. SlotOK(slot[s]) /\ slot \in [Slots -> Slot]
  BY DEF IInv, SlotsOK
<1>1. CASE RenewalStarts(s)
  <2>1. Shrinking
    BY <1>1, ScriptsShrink DEF RenewalStarts
  <2>2. slot[s].pc = "body" /\ slot' = [slot EXCEPT ![s] = [slot[s] EXCEPT !.renewing = TRUE]]
    BY <1>1, <1>0 DEF RenewalStarts
  <2>3. Moves(s) /\ Remembers(s)
    BY <1>0, <2>2 DEF Moves, Remembers, SlotOK, Slot, AtWork, Displaced
  <2> QED  BY <2>1, <2>3 DEF QuietMove
<1>2. CASE RenewalSucceeds(s)
  <2>1. Shrinking
    BY <1>2, ScriptsShrink DEF RenewalSucceeds
  <2>2. slot' = [slot EXCEPT ![s] = [slot[s] EXCEPT !.renewing = FALSE]] /\ slot[s].renewing
    BY <1>2, <1>0 DEF RenewalSucceeds
  <2>3. Moves(s) /\ Remembers(s)
    BY <1>0, <2>2 DEF Moves, Remembers, SlotOK, Slot, AtWork, Displaced
  <2> QED  BY <2>1, <2>3 DEF QuietMove
<1>3. CASE RenewalFails(s)
  <2>1. Shrinking
    BY <1>3, ScriptsShrink DEF RenewalFails
  <2>2. \/ /\ slot[s].pc = "body"
           /\ slot' = [slot EXCEPT ![s] = [slot[s] EXCEPT !.pc = "cancelling", !.renewing = FALSE,
                                                          !.failed = "coordination"]]
        \/ slot' = [slot EXCEPT ![s] = Outside("cancelled")]
    BY <1>3, <1>0 DEF RenewalFails
  <2>3. CASE slot' = [slot EXCEPT ![s] = Outside("cancelled")]
    BY <1>0, <2>1, <2>3, OutsideOK DEF QuietMove, Moves, Remembers, AtWork
  <2>4. CASE /\ slot[s].pc = "body"
             /\ slot' = [slot EXCEPT ![s] = [slot[s] EXCEPT !.pc = "cancelling", !.renewing = FALSE,
                                                            !.failed = "coordination"]]
    <3>1. Moves(s)
      BY <1>0, <2>4 DEF Moves, SlotOK, Slot
    <3>2. Remembers(s)
      BY <1>0, <2>4 DEF Remembers, SlotOK, Slot, AtWork, Displaced
    <3> QED  BY <2>1, <3>1, <3>2 DEF QuietMove
  <2> QED  BY <2>2, <2>3, <2>4
<1> QED  BY <1>1, <1>2, <1>3 DEF Beating

LEMMA LeavingIsQuiet ==
  ASSUME IInv, NEW s \in Slots, Leaving(s) \/ Crash(s)
  PROVE  QuietMove(s)
<1>0. SlotOK(slot[s]) /\ slot \in [Slots -> Slot]
  BY DEF IInv, SlotsOK
<1>1. CASE BodyEnds(s)
  <2>1. Shrinking
    BY <1>1, ScriptsShrink DEF BodyEnds
  <2>2. PICK failed \in {"none", "body_error"} :
          slot' = [slot EXCEPT ![s] = [slot[s] EXCEPT !.pc = "leaving", !.failed = failed]]
    BY <1>1, <1>0 DEF BodyEnds
  <2>3. slot[s].pc = "body"
    BY <1>1 DEF BodyEnds
  <2>4. Moves(s) /\ Remembers(s)
    BY <1>0, <2>2, <2>3 DEF Moves, Remembers, SlotOK, Slot, AtWork, Displaced
  <2> QED  BY <2>1, <2>4 DEF QuietMove
<1>2. CASE BodyIsCancelled(s)
  <2>1. Shrinking
    BY <1>2, ScriptsShrink DEF BodyIsCancelled
  <2>2. slot[s].pc = "cancelling"
    BY <1>2 DEF BodyIsCancelled
  <2>3. \/ slot' = [slot EXCEPT ![s] = [slot[s] EXCEPT !.pc = "releasing"]]
        \/ slot' = [slot EXCEPT ![s] = Outside("cancelled")]
    BY <1>2, <1>0 DEF BodyIsCancelled
  <2>4. Remembers(s)
    BY <2>2 DEF Remembers, Displaced, AtWork
  <2>5. CASE slot' = [slot EXCEPT ![s] = Outside("cancelled")]
    BY <1>0, <2>1, <2>4, <2>5, OutsideOK DEF QuietMove, Moves
  <2>6. CASE slot' = [slot EXCEPT ![s] = [slot[s] EXCEPT !.pc = "releasing"]]
    BY <1>0, <2>1, <2>2, <2>4, <2>6 DEF QuietMove, Moves, SlotOK, Slot
  <2> QED  BY <2>3, <2>5, <2>6
<1>3. CASE HeartbeatStops(s)
  <2>1. Shrinking
    BY <1>3, ScriptsShrink DEF HeartbeatStops
  <2>2. slot[s].pc = "leaving" /\ ~slot[s].renewing
        /\ slot' = [slot EXCEPT ![s] = [slot[s] EXCEPT !.pc = "releasing"]]
    BY <1>3, <1>0 DEF HeartbeatStops
  <2>3. Moves(s) /\ Remembers(s)
    BY <1>0, <2>2 DEF Moves, Remembers, SlotOK, Slot, AtWork, Displaced
  <2> QED  BY <2>1, <2>3 DEF QuietMove
<1>4. CASE Releases(s) \/ ReleaseUnavailable(s)
  <2>1. Shrinking
    BY <1>4, ScriptsShrink DEF Releases, ReleaseUnavailable
  <2>2. PICK result \in {"none", "clean", "body_error", "coordination", "cancelled"} :
          /\ slot' = [slot EXCEPT ![s] = Outside(result)]
          /\ Displaced(s) => result # "clean"
    <3>1. slot[s].failed # "none" => slot[s].failed \in {"body_error", "coordination"}
      BY <1>0 DEF SlotOK, Slot
    <3>2. CASE Releases(s)
      <4>1. slot[s].pc = "releasing"
        BY <3>2 DEF Releases
      <4>2. Displaced(s) => \/ slot[s].failed # "none"
                            \/ slot[s].token \notin DOMAIN provider \cap DOMAIN route[slot[s].route]
        BY <4>1 DEF Displaced, Unharmed
      <4> QED  BY <3>1, <3>2, <4>2 DEF Releases
    <3>3. CASE ReleaseUnavailable(s)
      BY <3>1, <3>3 DEF ReleaseUnavailable
    <3> QED  BY <1>4, <3>2, <3>3
  <2>3. Moves(s) /\ Remembers(s)
    BY <1>0, <2>2, OutsideOK DEF Moves, Remembers, AtWork
  <2> QED  BY <2>1, <2>3 DEF QuietMove
<1>5. CASE Crash(s)
  <2>1. Shrinking
    BY <1>5, ScriptsShrink DEF Crash
  <2>2. slot' = [slot EXCEPT ![s] = Outside("none")]
    BY <1>5 DEF Crash
  <2> QED  BY <1>0, <2>1, <2>2, OutsideOK DEF QuietMove, Moves, Remembers, AtWork
<1> QED  BY <1>1, <1>2, <1>3, <1>4, <1>5 DEF Leaving

----------------------------------------------------------------------------
(* The invariant.                                                          *)

\* Entries that are only taken away stay within the limits.
LEMMA ShrinkingKeepsEntries ==
  ASSUME EntriesOK, Shrinking
  PROVE  EntriesOK'
<1>1. Cardinality(DOMAIN provider') <= ProviderLimit
  <2>1. IsFiniteSet(DOMAIN provider)
    BY FS_Subset, GateAssumption DEF EntriesOK
  <2>2. Cardinality(DOMAIN provider') <= Cardinality(DOMAIN provider) /\ IsFiniteSet(DOMAIN provider')
    BY <2>1, FS_Subset DEF Shrinking
  <2>3. Cardinality(DOMAIN provider') \in Nat /\ Cardinality(DOMAIN provider) \in Nat
    BY <2>1, <2>2, FS_CardinalityType
  <2> QED  BY <2>2, <2>3, GateAssumption DEF EntriesOK
<1>2. ASSUME NEW r \in Routes PROVE Cardinality(DOMAIN route'[r]) <= RouteLimit
  <2>1. IsFiniteSet(DOMAIN route[r])
    BY FS_Subset, GateAssumption DEF EntriesOK
  <2>2. Cardinality(DOMAIN route'[r]) <= Cardinality(DOMAIN route[r]) /\ IsFiniteSet(DOMAIN route'[r])
    BY <2>1, FS_Subset DEF Shrinking
  <2>3. Cardinality(DOMAIN route'[r]) \in Nat /\ Cardinality(DOMAIN route[r]) \in Nat
    BY <2>1, <2>2, FS_CardinalityType
  <2> QED  BY <2>2, <2>3, GateAssumption DEF EntriesOK
<1> QED  BY <1>1, <1>2 DEF EntriesOK, Shrinking

\* A purge that leaves room, and an entry more.
LEMMA AcquiringKeepsLimit ==
  ASSUME NEW entries, NEW t \in Tokens, NEW limit \in Nat, DOMAIN entries \subseteq Tokens,
         Cardinality(Counted(entries)) < limit
  PROVE  /\ DOMAIN WithLease(Purged(entries), t) \subseteq DOMAIN entries \cup {t}
         /\ Cardinality(DOMAIN WithLease(Purged(entries), t)) <= limit
<1>1. DOMAIN Purged(entries) \subseteq DOMAIN entries
  BY DEF Purged, Live, Restrict
<1>2. DOMAIN WithLease(Purged(entries), t) = DOMAIN Purged(entries) \cup {t}
  BY DEF WithLease
<1>3. IsFiniteSet(DOMAIN Purged(entries))
  BY <1>1, FS_Subset, GateAssumption
<1>4. Cardinality(DOMAIN Purged(entries)) \in Nat
  BY <1>3, FS_CardinalityType
<1>5. Cardinality(DOMAIN Purged(entries) \cup {t}) <= Cardinality(DOMAIN Purged(entries)) + 1
  <2> DEFINE D == DOMAIN Purged(entries)
  <2>1. Cardinality(D \cup {t}) = IF t \in D THEN Cardinality(D) ELSE Cardinality(D) + 1
    BY <1>3, FS_AddElement
  <2>2. Cardinality(D) \in Nat
    BY <1>4
  <2> HIDE DEF D
  <2>3. Cardinality(D \cup {t}) <= Cardinality(D) + 1
    BY <2>1, <2>2
  <2> QED  BY <2>3 DEF D
<1>6. Cardinality(DOMAIN Purged(entries) \cup {t}) \in Nat
  BY <1>3, FS_AddElement, FS_CardinalityType
<1> QED  BY <1>1, <1>2, <1>4, <1>5, <1>6 DEF Counted

\* A step of a slot that is inside: only an acquisition adds entries, under its own token.
SlotStep(s) ==
  /\ EntriesOK' /\ Moves(s) /\ Remembers(s)
  /\ \A t \in DOMAIN provider' \ DOMAIN provider : slot[s].pc = "waiting" /\ t = slot[s].token
  /\ \A r \in Routes : \A t \in DOMAIN route'[r] \ DOMAIN route[r] :
       slot[s].pc = "waiting" /\ t = slot[s].token

LEMMA SlotSteps ==
  ASSUME IInv, NEW s \in Slots, Acquiring(s) \/ Beating(s) \/ Leaving(s) \/ Crash(s)
  PROVE  SlotStep(s)
<1>1. CASE QuietMove(s)
  <2>1. EntriesOK'
    BY <1>1, ShrinkingKeepsEntries DEF QuietMove, IInv
  <2> QED  BY <1>1, <2>1 DEF QuietMove, SlotStep, Shrinking
<1>2. CASE Acquires(s)
  <2> DEFINE r == slot[s].route
             t == slot[s].token
  <2>0. /\ SlotOK(slot[s]) /\ slot \in [Slots -> Slot] /\ slot[s].pc = "waiting"
        /\ r \in Routes /\ t \in Tokens
    BY <1>2 DEF IInv, SlotsOK, Acquires, SlotOK, Slot
  <2>1. /\ Cardinality(Counted(provider)) < ProviderLimit
        /\ Cardinality(Counted(route[r])) < RouteLimit
        /\ provider' = WithLease(Purged(provider), t)
        /\ route' = [route EXCEPT ![r] = WithLease(Purged(route[r]), t)]
    BY <1>2 DEF Acquires, HasRoom
  <2>2. /\ DOMAIN provider' \subseteq DOMAIN provider \cup {t}
        /\ Cardinality(DOMAIN provider') <= ProviderLimit
    BY <2>0, <2>1, AcquiringKeepsLimit, GateAssumption DEF IInv, EntriesOK
  <2>3. /\ DOMAIN WithLease(Purged(route[r]), t) \subseteq DOMAIN route[r] \cup {t}
        /\ Cardinality(DOMAIN WithLease(Purged(route[r]), t)) <= RouteLimit
    BY <2>0, <2>1, AcquiringKeepsLimit, GateAssumption DEF IInv, EntriesOK
  <2>4. /\ route' = [q \in Routes |-> route'[q]]
        /\ \A q \in Routes : route'[q] = IF q = r THEN WithLease(Purged(route[r]), t) ELSE route[q]
    BY <2>0, <2>1 DEF IInv, EntriesOK
  <2>5. EntriesOK'
    BY <2>0, <2>2, <2>3, <2>4 DEF IInv, EntriesOK
  <2>6. \/ slot' = [slot EXCEPT ![s] = [slot[s] EXCEPT !.pc = "body"]]
        \/ slot' = [slot EXCEPT ![s] = Outside("coordination")]
    BY <1>2, <2>0 DEF Acquires
  <2>7. Moves(s)
    <3>1. CASE slot' = [slot EXCEPT ![s] = Outside("coordination")]
      BY <2>0, <3>1, OutsideOK DEF Moves
    <3>2. CASE slot' = [slot EXCEPT ![s] = [slot[s] EXCEPT !.pc = "body"]]
      BY <2>0, <3>2 DEF Moves, SlotOK, Slot
    <3> QED  BY <2>6, <3>1, <3>2
  <2>8. Remembers(s)
    BY <2>0 DEF Remembers, Displaced, AtWork
  <2> QED  BY <2>0, <2>2, <2>3, <2>4, <2>5, <2>7, <2>8 DEF SlotStep
<1> QED  BY <1>1, <1>2, WaitingIsQuiet, BeatingIsQuiet, LeavingIsQuiet DEF Acquiring, Polls

\* An entry of the slot that enters is not there yet.
LEMMA EnterStep ==
  ASSUME IInv, NEW s \in Slots, NEW r \in Routes, Enter(s, r)
  PROVE  /\ IInv' /\ UNCHANGED <<provider, route>>
         /\ slot[s].pc = "out" /\ slot' = [slot EXCEPT ![s] = slot'[s]]
         /\ slot'[s].pc = "waiting"
<1>1. PICK t \in FreshTokens :
        slot' = [slot EXCEPT ![s] = [slot[s] EXCEPT !.pc = "waiting", !.token = t, !.route = r,
                                                    !.wait = AcquireTimeout, !.result = "none"]]
  BY DEF Enter, IInv, SlotsOK
<1>2. /\ slot[s].pc = "out" /\ UNCHANGED <<provider, route>>
      /\ SlotOK(slot[s]) /\ slot \in [Slots -> Slot]
  BY DEF Enter, IInv, SlotsOK
<1>3. t \in Tokens /\ \A q \in Slots : slot[q].token # t
  BY DEF FreshTokens
<1>4. SlotOK(slot'[s]) /\ slot' \in [Slots -> Slot]
  BY <1>1, <1>2, <1>3, GateAssumption DEF SlotOK, Slot
<1>5. SlotsOK' /\ TokensDiffer'
  BY <1>1, <1>2, <1>3, <1>4 DEF IInv, SlotsOK, TokensDiffer
<1>6. EntriesOK'
  BY <1>2 DEF IInv, EntriesOK
<1> QED  BY <1>1, <1>2, <1>5, <1>6 DEF IInv

\* Time and the expiry of keys.
LEMMA TimeStep ==
  ASSUME IInv, Tick \/ KeyExpires
  PROVE  /\ IInv' /\ Shrinking
         /\ \A s \in Slots : slot'[s] = [slot[s] EXCEPT !.wait = slot'[s].wait]
<1>1. CASE Tick
  <2>1. Shrinking
    BY <1>1 DEF Tick, Aged, Shrinking, IInv, EntriesOK
  <2>2. slot \in [Slots -> Slot]
    BY DEF IInv, SlotsOK
  <2>3. ASSUME NEW s \in Slots
        PROVE  slot'[s] = [slot[s] EXCEPT !.wait = slot'[s].wait] /\ slot'[s].wait \in Nat
    BY <1>1, <2>2 DEF Tick, Slot
  <2>4. slot' \in [Slots -> Slot]
    <3>1. slot' = [s \in Slots |-> slot'[s]]
      BY <1>1 DEF Tick
    <3>2. ASSUME NEW s \in Slots PROVE slot'[s] \in Slot
      <4>1. slot[s] \in Slot
        BY <2>2
      <4> QED  BY <2>3, <4>1 DEF Slot
    <3> QED  BY <3>1, <3>2
  <2>5. SlotsOK' /\ TokensDiffer'
    BY <2>2, <2>3, <2>4 DEF IInv, SlotsOK, SlotOK, TokensDiffer, Slot
  <2> QED  BY <2>1, <2>3, <2>5, ShrinkingKeepsEntries DEF IInv
<1>2. CASE KeyExpires
  <2>1. UNCHANGED slot /\ slot \in [Slots -> Slot]
    BY <1>2 DEF KeyExpires, IInv, SlotsOK
  <2>2. DOMAIN NoEntries = {}
    BY DEF NoEntries
  <2>3. Shrinking
    <3>1. CASE provider' = NoEntries /\ UNCHANGED route
      BY <2>2, <3>1 DEF Shrinking, IInv, EntriesOK
    <3>2. CASE UNCHANGED provider /\ \E r \in Routes : route' = [route EXCEPT ![r] = NoEntries]
      BY <2>2, <3>2 DEF Shrinking, IInv, EntriesOK
    <3> QED  BY <1>2, <3>1, <3>2 DEF KeyExpires
  <2>4. SlotsOK' /\ TokensDiffer'
    BY <2>1 DEF IInv, SlotsOK, TokensDiffer
  <2> QED  BY <2>1, <2>3, <2>4, ShrinkingKeepsEntries DEF IInv, Slot
<1> QED  BY <1>1, <1>2

LEMMA Inductive ==
  ASSUME IInv, [Next]_vars
  PROVE  IInv'
<1>1. ASSUME NEW s \in Slots, SlotStep(s) PROVE IInv'
  <2>1. /\ SlotOK(slot'[s]) /\ slot' = [slot EXCEPT ![s] = slot'[s]]
        /\ slot'[s].pc # "out" => slot[s].pc # "out" /\ slot'[s].token = slot[s].token
    BY <1>1 DEF SlotStep, Moves
  <2>2. slot'[s] \in Slot
    BY <2>1 DEF SlotOK
  <2> HIDE DEF Slot
  <2>3. SlotsOK' /\ TokensDiffer'
    BY <2>1, <2>2 DEF IInv, SlotsOK, TokensDiffer
  <2> QED  BY <1>1, <2>3 DEF SlotStep, IInv
<1>2. CASE UNCHANGED vars
  BY <1>2 DEF vars, IInv, SlotsOK, EntriesOK, TokensDiffer
<1> QED  BY <1>1, <1>2, SlotSteps, EnterStep, TimeStep DEF Next

THEOREM Invariance == Spec => []IInv
<1>1. Init => IInv
  <2> SUFFICES ASSUME Init PROVE IInv
    OBVIOUS
  <2>1. DOMAIN NoEntries = {}
    BY DEF NoEntries
  <2>2. SlotsOK /\ TokensDiffer
    BY OutsideOK DEF Init, SlotsOK, SlotOK, TokensDiffer
  <2>3. EntriesOK
    BY <2>1, FS_EmptySet, GateAssumption DEF Init, EntriesOK
  <2> QED  BY <2>2, <2>3 DEF IInv
<1> QED  BY <1>1, Inductive, PTL DEF Spec

----------------------------------------------------------------------------
(* The theorems.                                                           *)

\* However late heartbeats, lost replies and crashes fall, the sessions that can still
\* end cleanly are within the limits: each has an entry of its own in both sets.
THEOREM LimitsHold == Spec => []UnharmedWithinLimits
<1>1. ASSUME IInv, NEW S \in SUBSET Unharmed, NEW entries, NEW limit \in Nat,
             DOMAIN entries \subseteq Tokens, Cardinality(DOMAIN entries) <= limit,
             \A s \in S : slot[s].token \in DOMAIN entries
      PROVE  Cardinality(S) <= limit
  <2> DEFINE f == [s \in S |-> slot[s].token]
  <2>1. \A s, q \in S : f[s] = f[q] => s = q
    BY <1>1 DEF Unharmed, IInv, TokensDiffer
  <2>2. f \in Injection(S, DOMAIN entries)
    BY <1>1, <2>1 DEF Injection, IsInjective
  <2>3. IsFiniteSet(DOMAIN entries)
    BY <1>1, FS_Subset, GateAssumption
  <2>4. IsFiniteSet(S) /\ Cardinality(S) <= Cardinality(DOMAIN entries)
    BY <2>2, <2>3, FS_Injection
  <2>5. Cardinality(S) \in Nat /\ Cardinality(DOMAIN entries) \in Nat
    BY <2>3, <2>4, FS_CardinalityType
  <2> QED  BY <1>1, <2>4, <2>5
<1>2. IInv => UnharmedWithinLimits
  <2> SUFFICES ASSUME IInv PROVE UnharmedWithinLimits
    OBVIOUS
  <2>1. Cardinality(Unharmed) <= ProviderLimit
    BY <1>1, GateAssumption DEF IInv, EntriesOK, Unharmed
  <2>2. ASSUME NEW r \in Routes
        PROVE  Cardinality({s \in Unharmed : slot[s].route = r}) <= RouteLimit
    BY <1>1, GateAssumption DEF IInv, EntriesOK, Unharmed
  <2> QED  BY <2>1, <2>2 DEF UnharmedWithinLimits
<1> QED  BY <1>2, Invariance, PTL

\* A session whose entry was purged for another one stays displaced and cannot end
\* cleanly: no late renewal brings its entry back.
THEOREM DisplacedSessionsFail == Spec => DisplacedFails
<1>1. ASSUME IInv, [Next]_vars, NEW s \in Slots, Displaced(s)
      PROVE  s \notin Unharmed' /\ slot'[s].result # "clean"
  <2> DEFINE x == slot[s]
  <2>0. /\ x.pc \in {"body", "leaving", "releasing"} /\ SlotOK(x) /\ slot \in [Slots -> Slot]
        /\ x.result = "none" /\ x.route \in Routes
        /\ \/ x.failed = "coordination"
           \/ x.token \notin DOMAIN provider
           \/ x.token \notin DOMAIN route[x.route]
    BY <1>1 DEF Displaced, AtWork, Unharmed, IInv, SlotsOK, SlotOK, Slot
  <2>1. ASSUME NEW q \in Slots, SlotStep(q) PROVE s \notin Unharmed' /\ slot'[s].result # "clean"
    <3>1. CASE q = s
      <4>1. /\ x.token \in DOMAIN provider' => x.token \in DOMAIN provider
            /\ x.token \in DOMAIN route'[x.route] => x.token \in DOMAIN route[x.route]
        BY <2>0, <2>1, <3>1 DEF SlotStep
      <4>2. /\ slot'[s].result # "clean"
            /\ x.failed = "coordination" => ~AtWork(s)' \/ slot'[s].failed = "coordination"
            /\ slot'[s].pc # "out" => slot'[s].token = x.token /\ slot'[s].route = x.route
        BY <1>1, <2>1, <3>1 DEF SlotStep, Remembers, Moves
      <4> QED  BY <2>0, <4>1, <4>2 DEF Unharmed, AtWork
    <3>2. CASE q # s
      <4>1. slot'[s] = x
        BY <2>0, <2>1, <3>2 DEF SlotStep, Moves
      <4>2. slot[q].pc = "waiting" => slot[q].token # x.token
        BY <1>1, <2>0, <3>2 DEF IInv, TokensDiffer
      <4>3. /\ x.token \in DOMAIN provider' => x.token \in DOMAIN provider
            /\ x.token \in DOMAIN route'[x.route] => x.token \in DOMAIN route[x.route]
        BY <2>0, <2>1, <4>2 DEF SlotStep
      <4> QED  BY <2>0, <4>1, <4>3 DEF Unharmed
    <3> QED  BY <3>1, <3>2
  <2>2. ASSUME NEW q \in Slots, NEW r \in Routes, Enter(q, r)
        PROVE  s \notin Unharmed' /\ slot'[s].result # "clean"
    BY <1>1, <2>0, <2>2, EnterStep DEF Unharmed
  <2>3. CASE Tick \/ KeyExpires
    <3>1. /\ Shrinking /\ slot'[s] = [x EXCEPT !.wait = slot'[s].wait]
      BY <1>1, <2>3, TimeStep
    <3>2. /\ slot'[s].pc = x.pc /\ slot'[s].failed = x.failed /\ slot'[s].token = x.token
          /\ slot'[s].route = x.route /\ slot'[s].result = x.result
      BY <2>0, <3>1 DEF Slot
    <3> QED  BY <2>0, <3>1, <3>2 DEF Unharmed, Shrinking
  <2>4. CASE UNCHANGED vars
    BY <2>0, <2>4 DEF vars, Unharmed
  <2> QED  BY <1>1, <2>1, <2>2, <2>3, <2>4, SlotSteps DEF Next
<1>2. IInv /\ [Next]_vars =>
        [\A s \in Slots :
           /\ slot[s].pc \in {"body", "leaving", "releasing"}
           /\ s \notin Unharmed
           => s \notin Unharmed' /\ slot'[s].result # "clean"]_vars
  BY <1>1 DEF Displaced, AtWork
<1> QED  BY <1>2, Invariance, PTL DEF Spec, DisplacedFails
=============================================================================
