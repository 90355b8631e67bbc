------------------------- MODULE NotificationsProofs -------------------------
(***************************************************************************)
(* Proofs about Notifications, for every number of runs, rules, channels   *)
(* and processes.                                                          *)
(*                                                                         *)
(* Deliveries change in many ways that mean nothing to the alerts: none of *)
(* them makes or removes a row (DeliveryStep).  The invariant about alerts *)
(* then only has to be looked at under the steps of evaluations and rules. *)
(*                                                                         *)
(* For the messages it is the other way round: what counts is who holds    *)
(* what.  Each claim that takes nothing over was left an acceptance and an *)
(* attempt by the failure before it (Budget).                              *)
(*                                                                         *)
(* DeliverySchedule is a calculation: what counts is when a channel opens. *)
(***************************************************************************)
EXTENDS Notifications, DeliverySchedule, FiniteSetTheorems, TLAPS

Delivery == [status : {"none", "pending", "sending", "succeeded", "failed"},
             next : {"now", "later", "never"}, stale : BOOLEAN,
             attempt : Nat, taken : Nat, accepted : Nat, lost : Nat]

Evaluator == [pc : {"idle", "choosing", "deciding"}, todo : SUBSET Runs,
              run : Runs \cup {Nobody}, fires : SUBSET Rules]

Types ==
  /\ run \in [Runs -> [status : {"active", "succeeded", "failed"}, evaluated : BOOLEAN]]
  /\ event \in [Rules -> [Runs -> {"none", "recent", "old"}]]
  /\ rivals \in [Runs -> SUBSET Runs]
  /\ evaluator \in [Evaluators -> Evaluator]
  /\ delivery \in [Key -> Delivery]

IsDeciding(e) == evaluator[e].pc = "deciding"

\* A run is marked together with its events, and its deliveries come with those.
Marked ==
  /\ \A u \in Rules, r \in Runs : event[u][r] # "none" => run[r].evaluated
  /\ \A u \in Rules, r \in Runs, c \in Channels :
       delivery[<<u, r, c>>].status # "none" => event[u][r] # "none"

\* Whoever decides has the lock of a run that nobody has evaluated.
Exclusive ==
  /\ \A e \in Evaluators :
       IsDeciding(e) => evaluator[e].run \in Runs /\ ~run[evaluator[e].run].evaluated
  /\ \A e, f \in Evaluators :
       e # f /\ IsDeciding(e) /\ IsDeciding(f) =>
         evaluator[e].run # evaluator[f].run /\ evaluator[e].run \in rivals[evaluator[f].run]

\* A rule that is about to fire was not cooling when its evaluation began, so the
\* events it has by now are of rivals.
FiresBesideRivals ==
  \A e \in Evaluators : IsDeciding(e) =>
    \A u \in evaluator[e].fires, q \in Runs :
      event[u][q] = "recent" =>
        q \in rivals[evaluator[e].run] /\ evaluator[e].run \in rivals[q]

IInv == Types /\ Marked /\ Exclusive /\ FiresBesideRivals /\ CooldownNeedsOverlap

----------------------------------------------------------------------------
(* Deliveries.                                                             *)

\* Deliveries change, but none comes or goes.
DeliveryStep ==
  /\ UNCHANGED alerts
  /\ delivery' \in [Key -> Delivery]
  /\ \A k \in Key : delivery'[k].status = "none" <=> delivery[k].status = "none"

LEMMA ClaimedOK ==
  ASSUME NEW d \in Delivery, d.status # "none"
  PROVE  /\ Deferred(d) \in Delivery /\ Deferred(d).status # "none"
         /\ Unusable(d) \in Delivery /\ Unusable(d).status # "none"
         /\ Sending(d) \in Delivery /\ Sending(d).status # "none"
<1>1. Deferred(d) \in Delivery /\ Deferred(d).status # "none"
  <2> DEFINE status == IF d.status = "sending" THEN "pending" ELSE d.status
  <2>1. status \in {"pending", "sending", "succeeded", "failed"}
    BY DEF Delivery
  <2>2. Deferred(d) = [d EXCEPT !.status = status, !.next = "later"]
    BY DEF Deferred
  <2> HIDE DEF status
  <2> QED  BY <2>1, <2>2 DEF Delivery
<1>2. Unusable(d) \in Delivery /\ Unusable(d).status # "none"
  BY DEF Delivery, Unusable
<1>3. Sending(d) \in Delivery /\ Sending(d).status # "none"
  <2> DEFINE attempt == d.attempt + 1
  <2>1. attempt \in Nat
    BY DEF Delivery
  <2>2. Sending(d) = [d EXCEPT !.status = "sending", !.attempt = attempt, !.next = "never"]
    BY DEF Sending
  <2> HIDE DEF attempt
  <2> QED  BY <2>1, <2>2 DEF Delivery
<1> QED  BY <1>1, <1>2, <1>3

\* A claim first notes that it takes over what was being sent.
LEMMA FreshOK ==
  ASSUME NEW d \in Delivery
  PROVE  LET f == [d EXCEPT !.stale = FALSE,
                            !.taken = IF d.status = "sending" THEN d.taken + 1 ELSE d.taken]
         IN  f \in Delivery /\ f.status = d.status
<1> DEFINE taken == IF d.status = "sending" THEN d.taken + 1 ELSE d.taken
<1>1. taken \in Nat
  BY DEF Delivery
<1> HIDE DEF taken
<1>2. LET f == [d EXCEPT !.stale = FALSE, !.taken = taken]
      IN  f \in Delivery /\ f.status = d.status
  BY <1>1 DEF Delivery
<1> QED  BY <1>2 DEF taken

LEMMA OutcomeOK ==
  ASSUME NEW d \in Delivery, NEW result
  PROVE  Outcome(d, result) \in Delivery /\ (Outcome(d, result).status = "none" <=> d.status = "none")
<1>1. CASE d.status = "none"
  BY <1>1 DEF Outcome
<1>2. CASE d.status # "none" /\ result = "sent"
  BY <1>2 DEF Outcome, Delivery
<1>3. CASE d.status # "none" /\ result # "sent"
  <2> DEFINE later == IF result = "retry" /\ Retries(d) THEN "later" ELSE "never"
  <2>1. Outcome(d, result) = [d EXCEPT !.status = "failed", !.stale = FALSE, !.next = later]
    BY <1>3 DEF Outcome
  <2> QED  BY <2>1, <1>3 DEF Delivery
<1> QED  BY <1>1, <1>2, <1>3

LEMMA DeliverySteps ==
  ASSUME IInv,
         \/ \E s \in Senders : Delivering(s) \/ SenderFails(s)
         \/ \E k \in Key : BecomesDue(k) \/ BecomesStale(k)
         \/ \E c \in Channels : UpdateChannel(c)
  PROVE  DeliveryStep
<1>0. delivery \in [Key -> Delivery]
  BY DEF IInv, Types
<1>1. ASSUME NEW s \in Senders, NEW closed, NEW broken, Claims(s, closed, broken)
      PROVE  DeliveryStep
  <2> DEFINE Fresh(d) == [d EXCEPT !.stale = FALSE,
                                   !.taken = IF d.status = "sending" THEN d.taken + 1 ELSE d.taken]
  <2>1. ASSUME NEW d \in Delivery PROVE Fresh(d) \in Delivery /\ Fresh(d).status = d.status
    BY FreshOK
  <2>2. \A k \in Key : Due(delivery[k]) => delivery[k].status # "none"
    BY DEF Due
  <2>3. /\ UNCHANGED alerts
        /\ delivery' = [k \in Key |->
             IF ~(Due(delivery[k]) /\ channel[k[3]]) THEN delivery[k]
             ELSE IF k[3] \in broken THEN Unusable(Fresh(delivery[k]))
             ELSE IF k[3] \in closed THEN Deferred(Fresh(delivery[k]))
             ELSE Sending(Fresh(delivery[k]))]
    BY <1>1 DEF Claims
  <2> HIDE DEF Fresh
  <2>4. ASSUME NEW k \in Key
        PROVE  delivery'[k] \in Delivery /\ (delivery'[k].status = "none" <=> delivery[k].status = "none")
    <3>1. CASE ~(Due(delivery[k]) /\ channel[k[3]])
      BY <1>0, <2>3, <3>1
    <3>2. CASE Due(delivery[k]) /\ channel[k[3]]
      <4>1. Fresh(delivery[k]) \in Delivery /\ Fresh(delivery[k]).status # "none"
        BY <1>0, <2>1, <2>2, <3>2
      <4> QED  BY <2>2, <2>3, <3>2, <4>1, ClaimedOK
    <3> QED  BY <3>1, <3>2
  <2> QED  BY <2>3, <2>4 DEF DeliveryStep
<1>2. ASSUME NEW s \in Senders, NEW w, NEW result, NEW accepted, Sends(s, w, result, accepted)
      PROVE  DeliveryStep
  <2> DEFINE lost == accepted /\ result # "sent"
             Answered(d) == [d EXCEPT !.accepted = IF accepted THEN d.accepted + 1 ELSE d.accepted,
                                      !.lost = IF lost THEN d.lost + 1 ELSE d.lost]
  <2>1. ASSUME NEW d \in Delivery PROVE Answered(d) \in Delivery /\ Answered(d).status = d.status
    <3> DEFINE x == IF accepted THEN d.accepted + 1 ELSE d.accepted
               y == IF lost THEN d.lost + 1 ELSE d.lost
    <3>1. x \in Nat /\ y \in Nat
      BY DEF Delivery
    <3>2. Answered(d) = [d EXCEPT !.accepted = x, !.lost = y]
      OBVIOUS
    <3> HIDE DEF x, y, Answered
    <3> QED  BY <3>1, <3>2 DEF Delivery
  <2>2. /\ UNCHANGED alerts
        /\ delivery' = [delivery EXCEPT ![w[1]] =
                          IF delivery[w[1]].status = "none" THEN delivery[w[1]]
                          ELSE Answered(delivery[w[1]])]
    BY <1>2 DEF Sends
  <2> HIDE DEF Answered
  <2>3. ASSUME NEW k \in Key
        PROVE  delivery'[k] \in Delivery /\ (delivery'[k].status = "none" <=> delivery[k].status = "none")
    <3>1. delivery'[k] = delivery[k] \/ delivery'[k] = Answered(delivery[k])
      BY <1>0, <2>2
    <3> QED  BY <1>0, <2>1, <3>1
  <2>4. delivery' = [k \in Key |-> delivery'[k]]
    BY <1>0, <2>2
  <2> QED  BY <2>2, <2>3, <2>4 DEF DeliveryStep
<1>3. ASSUME NEW s \in Senders, Finishes(s)
      PROVE  DeliveryStep
  <2> DEFINE k == sender[s].result[1][1]
             result == sender[s].result[2]
  <2>1. UNCHANGED alerts /\ delivery' = [delivery EXCEPT ![k] = Outcome(delivery[k], result)]
    BY <1>3 DEF Finishes
  <2>2. ASSUME NEW q \in Key
        PROVE  delivery'[q] = delivery[q] \/ delivery'[q] = Outcome(delivery[q], result)
    BY <1>0, <2>1
  <2>3. delivery' = [q \in Key |-> delivery'[q]]
    BY <1>0, <2>1
  <2>4. ASSUME NEW q \in Key
        PROVE  delivery'[q] \in Delivery /\ (delivery'[q].status = "none" <=> delivery[q].status = "none")
    BY <1>0, <2>2, OutcomeOK
  <2> QED  BY <2>1, <2>3, <2>4 DEF DeliveryStep
<1>4. ASSUME NEW k \in Key, BecomesDue(k) \/ BecomesStale(k)
      PROVE  DeliveryStep
  <2> DEFINE due == [delivery[k] EXCEPT !.next = "now"]
             stale == [delivery[k] EXCEPT !.stale = TRUE]
  <2>1. UNCHANGED alerts /\ (delivery' = [delivery EXCEPT ![k] = due]
                              \/ delivery' = [delivery EXCEPT ![k] = stale])
    BY <1>4 DEF BecomesDue, BecomesStale
  <2>2. /\ due \in Delivery /\ due.status = delivery[k].status
        /\ stale \in Delivery /\ stale.status = delivery[k].status
    BY <1>0 DEF Delivery
  <2> HIDE DEF due, stale
  <2> QED  BY <1>0, <2>1, <2>2 DEF DeliveryStep
<1>5. ASSUME UNCHANGED <<alerts, delivery>>
      PROVE  DeliveryStep
  BY <1>0, <1>5 DEF DeliveryStep
<1> QED  BY <1>1, <1>2, <1>3, <1>4, <1>5 DEF Delivering, SenderFails, UpdateChannel

\* Nothing about the alerts refers to a delivery but whether it is there.
LEMMA DeliveryStepKeeps ==
  ASSUME IInv, DeliveryStep
  PROVE  IInv' /\ UNCHANGED <<run, event>>
<1>1. \A u \in Rules, r \in Runs, c \in Channels :
        delivery'[<<u, r, c>>].status = "none" <=> delivery[<<u, r, c>>].status = "none"
  BY DEF DeliveryStep, Key
<1>2. UNCHANGED <<run, rule, event, rivals, evaluator>>
  BY DEF DeliveryStep, alerts
<1>3. Types'
  BY <1>2 DEF IInv, Types, DeliveryStep
<1>4. Marked'
  BY <1>1, <1>2 DEF IInv, Marked
<1>5. Exclusive' /\ FiresBesideRivals' /\ CooldownNeedsOverlap'
  BY <1>2 DEF IInv, Exclusive, FiresBesideRivals, CooldownNeedsOverlap, IsDeciding
<1> QED  BY <1>2, <1>3, <1>4, <1>5 DEF IInv

----------------------------------------------------------------------------
(* Runs and rules.                                                         *)

LEMMA RunSteps ==
  ASSUME IInv, NEW r \in Runs, Succeeds(r) \/ FailsLate(r)
  PROVE  IInv' /\ UNCHANGED event
<1>1. /\ UNCHANGED <<event, rivals, delivery, evaluator>>
      /\ run' \in [Runs -> [status : {"active", "succeeded", "failed"}, evaluated : BOOLEAN]]
      /\ \A q \in Runs : run'[q].evaluated = run[q].evaluated
  <2>1. PICK status \in {"succeeded", "failed"} : run' = [run EXCEPT ![r].status = status]
    BY DEF Succeeds, FailsLate
  <2> QED  BY <2>1 DEF Succeeds, FailsLate, IInv, Types
<1>2. Types'
  BY <1>1 DEF IInv, Types
<1>3. Marked'
  BY <1>1 DEF IInv, Marked
<1>4. Exclusive'
  BY <1>1 DEF IInv, Exclusive, IsDeciding
<1>5. FiresBesideRivals' /\ CooldownNeedsOverlap'
  BY <1>1 DEF IInv, FiresBesideRivals, CooldownNeedsOverlap, IsDeciding
<1> QED  BY <1>1, <1>2, <1>3, <1>4, <1>5 DEF IInv

LEMMA RuleSteps ==
  ASSUME IInv, NEW u \in Rules,
         CreateRule(u) \/ (\E state \in {"on", "off"} : UpdateRule(u, state)) \/ DeleteRule(u)
  PROVE  IInv' /\ \A v \in Rules, r \in Runs : event'[v][r] \in {event[v][r], "none"}
<1>1. CASE ~DeleteRule(u)
  <2>1. UNCHANGED <<run, event, rivals, delivery, evaluator>>
    BY <1>1 DEF CreateRule, UpdateRule
  <2>2. Types' /\ Marked'
    BY <2>1 DEF IInv, Types, Marked
  <2>3. Exclusive' /\ FiresBesideRivals' /\ CooldownNeedsOverlap'
    BY <2>1 DEF IInv, Exclusive, FiresBesideRivals, CooldownNeedsOverlap, IsDeciding
  <2> QED  BY <2>1, <2>2, <2>3 DEF IInv
<1>2. CASE DeleteRule(u)
  <2>1. /\ UNCHANGED <<run, rivals, evaluator>>
        /\ event' = [event EXCEPT ![u] = [r \in Runs |-> "none"]]
        /\ delivery' = [k \in Key |-> IF k[1] = u THEN NoDelivery ELSE delivery[k]]
    BY <1>2 DEF DeleteRule
  <2>2. \A v \in Rules, r \in Runs : event'[v][r] = IF v = u THEN "none" ELSE event[v][r]
    BY <2>1 DEF IInv, Types
  <2>3. \A v \in Rules, r \in Runs, c \in Channels :
          delivery'[<<v, r, c>>] = IF v = u THEN NoDelivery ELSE delivery[<<v, r, c>>]
    BY <2>1 DEF Key
  <2>4. NoDelivery \in Delivery /\ NoDelivery.status = "none"
    BY DEF NoDelivery, Delivery
  <2>5. Types'
    BY <2>1, <2>4 DEF IInv, Types
  <2>6. Marked'
    BY <2>1, <2>2, <2>3, <2>4 DEF IInv, Marked
  <2>7. Exclusive'
    BY <2>1 DEF IInv, Exclusive, IsDeciding
  <2>8. FiresBesideRivals'
    <3> SUFFICES ASSUME NEW e \in Evaluators, IsDeciding(e)', NEW v \in evaluator'[e].fires,
                        NEW q \in Runs, event'[v][q] = "recent"
                 PROVE  q \in rivals'[evaluator'[e].run] /\ evaluator'[e].run \in rivals'[q]
      BY DEF FiresBesideRivals
    <3>1. v \in Rules
      BY <2>1 DEF IInv, Types, Evaluator
    <3> QED  BY <2>1, <2>2, <3>1 DEF IInv, FiresBesideRivals, IsDeciding
  <2>9. CooldownNeedsOverlap'
    BY <2>1, <2>2 DEF IInv, CooldownNeedsOverlap
  <2> QED  BY <2>2, <2>5, <2>6, <2>7, <2>8, <2>9 DEF IInv
<1> QED  BY <1>1, <1>2

\* The cooldown of an event is over.
LEMMA CooldownStep ==
  ASSUME IInv, NEW v \in Rules, NEW q \in Runs, CooldownEnds(v, q)
  PROVE  /\ IInv'
         /\ \A u \in Rules, r \in Runs : event'[u][r] # "none" => event[u][r] # "none"
<1>1. /\ UNCHANGED <<run, rivals, delivery, evaluator>>
      /\ event[v][q] = "recent"
      /\ event' = [event EXCEPT ![v][q] = "old"]
  BY DEF CooldownEnds
<1>2. \A u \in Rules, r \in Runs :
        event'[u][r] = event[u][r] \/ (event'[u][r] = "old" /\ event[u][r] = "recent")
  BY <1>1 DEF IInv, Types
<1>3. Types'
  BY <1>1 DEF IInv, Types
<1>4. Marked'
  BY <1>1, <1>2 DEF IInv, Marked
<1>5. Exclusive'
  BY <1>1 DEF IInv, Exclusive, IsDeciding
<1>6. FiresBesideRivals'
  <2> SUFFICES ASSUME NEW e \in Evaluators, IsDeciding(e)', NEW u \in evaluator'[e].fires,
                      NEW r \in Runs, event'[u][r] = "recent"
               PROVE  r \in rivals'[evaluator'[e].run] /\ evaluator'[e].run \in rivals'[r]
    BY DEF FiresBesideRivals
  <2>1. u \in Rules
    BY <1>1 DEF IInv, Types, Evaluator
  <2>2. event[u][r] = "recent"
    BY <1>2, <2>1
  <2> QED  BY <1>1, <2>2 DEF IInv, FiresBesideRivals, IsDeciding
<1>7. CooldownNeedsOverlap'
  BY <1>1, <1>2 DEF IInv, CooldownNeedsOverlap
<1> QED  BY <1>2, <1>3, <1>4, <1>5, <1>6, <1>7 DEF IInv

----------------------------------------------------------------------------
(* Evaluations.                                                            *)

\* An evaluator that is not about to decide leaves the alerts as they are.
LEMMA ChoosingSteps ==
  ASSUME IInv, NEW e \in Evaluators,
         \/ SelectsRuns(e) \/ InsertFails(e) \/ EvaluationFails(e)
         \/ \E r \in Runs : SkipsRun(e, r)
  PROVE  IInv' /\ UNCHANGED event
<1>1. evaluator \in [Evaluators -> Evaluator]
  BY DEF IInv, Types
<1>2. IdleEvaluator \in Evaluator /\ IdleEvaluator.pc = "idle"
  BY DEF IdleEvaluator, Evaluator
<1>3. \A r \in Runs : Rest(e, r) \in Evaluator /\ Rest(e, r).pc # "deciding"
  <2> TAKE r \in Runs
  <2>1. evaluator[e].todo \ {r} \in SUBSET Runs
    BY <1>1 DEF Evaluator
  <2> QED  BY <1>2, <2>1 DEF Rest, IdleEvaluator, Evaluator
<1>4. /\ UNCHANGED <<run, event, rivals, delivery>>
      /\ \E x \in Evaluator : x.pc # "deciding" /\ evaluator' = [evaluator EXCEPT ![e] = x]
  <2>1. CASE SelectsRuns(e)
    <3> DEFINE pending == {r \in Runs : run[r].status = "succeeded" /\ ~run[r].evaluated}
               x == [evaluator[e] EXCEPT !.pc = "choosing", !.todo = pending]
    <3>1. evaluator' = [evaluator EXCEPT ![e] = x]
      BY <1>1, <2>1 DEF SelectsRuns
    <3>2. x \in Evaluator /\ x.pc = "choosing"
      BY <1>1 DEF Evaluator
    <3> QED  BY <2>1, <3>1, <3>2 DEF SelectsRuns
  <2>2. CASE \E r \in Runs : SkipsRun(e, r)
    BY <1>3, <2>2 DEF SkipsRun
  <2>3. CASE InsertFails(e) \/ EvaluationFails(e)
    BY <1>2, <2>3 DEF InsertFails, EvaluationFails
  <2> QED  BY <2>1, <2>2, <2>3
<1>5. Types'
  BY <1>1, <1>4 DEF IInv, Types
<1>6. Marked' /\ CooldownNeedsOverlap'
  BY <1>4 DEF IInv, Marked, CooldownNeedsOverlap
<1>7. \A f \in Evaluators : IsDeciding(f)' => IsDeciding(f) /\ evaluator'[f] = evaluator[f]
  BY <1>1, <1>4 DEF IsDeciding
<1>8. Exclusive' /\ FiresBesideRivals'
  BY <1>4, <1>7 DEF IInv, Exclusive, FiresBesideRivals
<1> QED  BY <1>4, <1>5, <1>6, <1>8 DEF IInv

\* An evaluation that begins: those under way become its rivals, and it theirs.
LEMMA EvaluatesStep ==
  ASSUME IInv, NEW e \in Evaluators, NEW r \in Runs,
         NEW triggered \in SUBSET {u \in Rules : rule[u] = "on"}, Evaluates(e, r, triggered)
  PROVE  IInv' /\ UNCHANGED event
<1> DEFINE others == {evaluator[f].run : f \in {g \in Evaluators : evaluator[g].pc = "deciding"}}
           fires == {u \in triggered : ~Cooling(u)}
           x == [evaluator[e] EXCEPT !.pc = "deciding", !.run = r, !.fires = fires]
<1>1. /\ UNCHANGED <<run, event, delivery>>
      /\ evaluator[e].pc = "choosing" /\ Deciding(r) = {} /\ ~run[r].evaluated
      /\ rivals' = [q \in Runs |-> IF q = r THEN rivals[q] \cup others
                                   ELSE IF q \in others THEN rivals[q] \cup {r} ELSE rivals[q]]
  BY DEF Evaluates, Evaluable
<1>2. evaluator \in [Evaluators -> Evaluator] /\ evaluator' = [evaluator EXCEPT ![e] = x]
  BY DEF Evaluates, IInv, Types
<1>3. others \in SUBSET Runs
  BY DEF IInv, Exclusive, IsDeciding
<1>4. x \in Evaluator /\ x.pc = "deciding" /\ x.run = r /\ x.fires = fires
  <2>1. fires \in SUBSET Rules
    OBVIOUS
  <2> HIDE DEF fires
  <2> QED  BY <1>2, <2>1 DEF Evaluator
<1>5. /\ evaluator'[e] = x
      /\ \A f \in Evaluators \ {e} : evaluator'[f] = evaluator[f]
  BY <1>2
<1>6. \A f \in Evaluators :
        IsDeciding(f) => f # e /\ evaluator[f].run # r /\ evaluator[f].run \in others
  BY <1>1 DEF IsDeciding, Deciding
<1>7. /\ others \subseteq rivals'[r]
      /\ \A q \in others \ {r} : r \in rivals'[q]
      /\ \A q \in Runs : rivals[q] \subseteq rivals'[q]
  BY <1>1, <1>3
<1>8. rivals' \in [Runs -> SUBSET Runs]
  BY <1>1, <1>3 DEF IInv, Types
<1> HIDE DEF x, others
<1>9. Types'
  BY <1>1, <1>2, <1>4, <1>8 DEF IInv, Types
<1>10. Marked'
  BY <1>1 DEF IInv, Marked
<1>11. \A f \in Evaluators : IsDeciding(f)' => f = e \/ IsDeciding(f)
  BY <1>5 DEF IsDeciding
<1>12. Exclusive'
  <2>1. ASSUME NEW f \in Evaluators, IsDeciding(f)'
        PROVE  evaluator'[f].run \in Runs /\ ~run'[evaluator'[f].run].evaluated
    BY <1>1, <1>4, <1>5, <1>11, <2>1 DEF IInv, Exclusive
  <2>2. ASSUME NEW f \in Evaluators, NEW g \in Evaluators, f # g, IsDeciding(f)', IsDeciding(g)'
        PROVE  evaluator'[f].run # evaluator'[g].run /\ evaluator'[f].run \in rivals'[evaluator'[g].run]
    <3>1. CASE f = e
      BY <1>4, <1>5, <1>6, <1>7, <1>11, <2>2, <3>1
    <3>2. CASE g = e
      BY <1>4, <1>5, <1>6, <1>7, <1>11, <2>2, <3>2
    <3>3. CASE f # e /\ g # e
      BY <1>5, <1>7, <1>11, <2>2, <3>3 DEF IInv, Exclusive
    <3> QED  BY <3>1, <3>2, <3>3
  <2> QED  BY <2>1, <2>2 DEF Exclusive
<1>13. FiresBesideRivals'
  <2> SUFFICES ASSUME NEW f \in Evaluators, IsDeciding(f)', NEW u \in evaluator'[f].fires,
                      NEW q \in Runs, event'[u][q] = "recent"
               PROVE  q \in rivals'[evaluator'[f].run] /\ evaluator'[f].run \in rivals'[q]
    BY DEF FiresBesideRivals
  <2>1. CASE f = e
    BY <1>1, <1>4, <1>5, <2>1 DEF Cooling
  <2>2. CASE f # e
    <3>1. IsDeciding(f) /\ evaluator'[f] = evaluator[f] /\ event[u][q] = "recent"
      BY <1>1, <1>5, <1>11, <2>2
    <3>2. /\ q \in rivals[evaluator[f].run] /\ evaluator[f].run \in rivals[q]
          /\ evaluator[f].run \in Runs
      BY <3>1 DEF IInv, FiresBesideRivals, Exclusive
    <3> QED  BY <1>7, <3>1, <3>2
  <2> QED  BY <2>1, <2>2
<1>14. CooldownNeedsOverlap'
  BY <1>1, <1>7 DEF IInv, CooldownNeedsOverlap
<1> QED  BY <1>1, <1>9, <1>10, <1>12, <1>13, <1>14 DEF IInv

\* The commit: it writes the events of the run it decides about, which had none.
LEMMA CommitStep ==
  ASSUME IInv, NEW e \in Evaluators, CommitsEvents(e)
  PROVE  /\ IInv'
         /\ \A u \in Rules, q \in Runs :
              event[u][q] = "none" /\ event'[u][q] # "none"
              => ~run[q].evaluated /\ run'[q].evaluated
<1> DEFINE r == evaluator[e].run
           fires == evaluator[e].fires
           new == {u \in fires : event[u][r] = "none"}
<1>1. /\ r \in Runs /\ ~run[r].evaluated /\ IsDeciding(e) /\ fires \subseteq Rules
      /\ \A u \in Rules : event[u][r] = "none"
  BY DEF CommitsEvents, IInv, Types, Exclusive, Marked, IsDeciding, Evaluator
<1>2. /\ UNCHANGED rivals
      /\ event' = [u \in Rules |-> IF u \in new THEN [event[u] EXCEPT ![r] = "recent"] ELSE event[u]]
      /\ run' = [run EXCEPT ![r].evaluated = TRUE]
      /\ evaluator' = [evaluator EXCEPT ![e] = Rest(e, r)]
  BY DEF CommitsEvents
<1>3. \A u \in Rules, q \in Runs :
        event'[u][q] = IF u \in fires /\ q = r THEN "recent" ELSE event[u][q]
  BY <1>1, <1>2 DEF IInv, Types
<1>4. \A q \in Runs : run'[q].evaluated = (q = r \/ run[q].evaluated)
  BY <1>1, <1>2 DEF IInv, Types
<1>5. \A f \in Evaluators :
        IsDeciding(f)' => f # e /\ IsDeciding(f) /\ evaluator'[f] = evaluator[f]
  <2>1. Rest(e, r).pc # "deciding"
    BY DEF Rest, IdleEvaluator
  <2> QED  BY <1>2, <2>1 DEF IInv, Types, IsDeciding
<1>6. \A k \in Key :
        /\ delivery'[k] \in Delivery
        /\ delivery'[k].status # "none" => delivery[k].status # "none" \/ (k[1] \in fires /\ k[2] = r)
  <2> DEFINE fresh == [NoDelivery EXCEPT !.status = "pending", !.next = "now"]
  <2>1. fresh \in Delivery
    BY DEF NoDelivery, Delivery
  <2>2. delivery' = [k \in Key |->
          IF k[1] \in new /\ k[2] = r /\ k[3] \in ChannelsFor(k[1]) THEN fresh ELSE delivery[k]]
    BY DEF CommitsEvents
  <2> HIDE DEF fresh
  <2> QED  BY <2>1, <2>2 DEF IInv, Types
<1>7. Types'
  <2>1. Rest(e, r) \in Evaluator
    <3>1. evaluator[e].todo \ {r} \in SUBSET Runs
      BY DEF IInv, Types, Evaluator
    <3> QED  BY <3>1 DEF Rest, IdleEvaluator, Evaluator
  <2>2. delivery' \in [Key -> Delivery]
    <3>1. delivery' = [k \in Key |-> delivery'[k]]
      BY DEF CommitsEvents
    <3> QED  BY <1>6, <3>1
  <2>3. event' \in [Rules -> [Runs -> {"none", "recent", "old"}]]
    BY <1>1, <1>2 DEF IInv, Types
  <2>4. run' \in [Runs -> [status : {"active", "succeeded", "failed"}, evaluated : BOOLEAN]]
    BY <1>1, <1>2 DEF IInv, Types
  <2> QED  BY <1>2, <2>1, <2>2, <2>3, <2>4 DEF IInv, Types
<1> HIDE DEF fires, r
<1>8. Marked'
  <2>1. ASSUME NEW u \in Rules, NEW q \in Runs, event'[u][q] # "none"
        PROVE  run'[q].evaluated
    <3>1. CASE q = r
      BY <1>4, <3>1
    <3>2. CASE q # r
      <4>1. event[u][q] # "none"
        BY <1>3, <2>1, <3>2
      <4> QED  BY <1>4, <4>1 DEF IInv, Marked
    <3> QED  BY <3>1, <3>2
  <2>2. ASSUME NEW u \in Rules, NEW q \in Runs, NEW c \in Channels,
               delivery'[<<u, q, c>>].status # "none"
        PROVE  event'[u][q] # "none"
    <3>1. delivery[<<u, q, c>>].status # "none" \/ (u \in fires /\ q = r)
      BY <1>6, <2>2 DEF Key
    <3> QED  BY <1>3, <3>1 DEF IInv, Marked
  <2> QED  BY <2>1, <2>2 DEF Marked
<1>9. Exclusive'
  <2>1. \A f \in Evaluators : IsDeciding(f)' => evaluator[f].run # r
    BY <1>1, <1>5 DEF IInv, Exclusive, r
  <2> QED  BY <1>2, <1>4, <1>5, <2>1 DEF IInv, Exclusive
<1>10. FiresBesideRivals'
  <2> SUFFICES ASSUME NEW f \in Evaluators, IsDeciding(f)', NEW u \in evaluator'[f].fires,
                      NEW q \in Runs, event'[u][q] = "recent"
               PROVE  q \in rivals'[evaluator'[f].run] /\ evaluator'[f].run \in rivals'[q]
    BY DEF FiresBesideRivals
  <2>1. f # e /\ IsDeciding(f) /\ evaluator'[f] = evaluator[f] /\ u \in evaluator[f].fires
    BY <1>5
  <2>2. u \in Rules
    BY <2>1 DEF IInv, Types, Evaluator
  <2>3. CASE q = r
    BY <1>1, <1>2, <2>1, <2>3 DEF IInv, Exclusive, r
  <2>4. CASE event[u][q] = "recent"
    BY <1>2, <2>1, <2>4 DEF IInv, FiresBesideRivals
  <2> QED  BY <1>3, <2>2, <2>3, <2>4
<1>11. CooldownNeedsOverlap'
  <2> SUFFICES ASSUME NEW u \in Rules, NEW a \in Runs, NEW b \in Runs, a # b,
                      event'[u][a] = "recent", event'[u][b] = "recent"
               PROVE  b \in rivals[a]
    BY <1>2 DEF CooldownNeedsOverlap
  <2>1. \A q \in Runs : u \in fires /\ event[u][q] = "recent" => q \in rivals[r] /\ r \in rivals[q]
    BY <1>1 DEF IInv, FiresBesideRivals, fires, r
  <2> QED  BY <1>3, <2>1 DEF IInv, CooldownNeedsOverlap
<1> QED  BY <1>1, <1>3, <1>4, <1>7, <1>8, <1>9, <1>10, <1>11 DEF IInv

----------------------------------------------------------------------------
(* The theorems.                                                           *)

LEMMA InitOK == Init => IInv
<1> SUFFICES ASSUME Init PROVE IInv
  OBVIOUS
<1>1. IdleEvaluator \in Evaluator /\ NoDelivery \in Delivery
  BY DEF IdleEvaluator, Evaluator, NoDelivery, Delivery
<1>2. Types
  BY <1>1 DEF Init, Types
<1>3. Marked
  BY DEF Init, Marked, NoDelivery, Key
<1>4. Exclusive /\ FiresBesideRivals /\ CooldownNeedsOverlap
  BY DEF Init, Exclusive, FiresBesideRivals, CooldownNeedsOverlap, IsDeciding, IdleEvaluator
<1> QED  BY <1>2, <1>3, <1>4 DEF IInv

\* An event appears only with the mark of its run.
Step ==
  /\ IInv'
  /\ \A u \in Rules, r \in Runs :
       event[u][r] = "none" /\ event'[u][r] # "none" => ~run[r].evaluated /\ run'[r].evaluated

LEMMA Inductive ==
  ASSUME IInv, [Next]_vars
  PROVE  Step
<1>1. CASE \/ \E s \in Senders : Delivering(s) \/ SenderFails(s)
          \/ \E k \in Key : BecomesDue(k) \/ BecomesStale(k)
  BY <1>1, DeliverySteps, DeliveryStepKeeps DEF Step
<1>2. CASE \E c \in Channels : UpdateChannel(c)
  BY <1>2, DeliverySteps, DeliveryStepKeeps DEF Step
<1>3. CASE \E r \in Runs : Succeeds(r) \/ FailsLate(r)
  BY <1>3, RunSteps DEF Step
<1>4. ASSUME NEW u \in Rules,
             CreateRule(u) \/ (\E state \in {"on", "off"} : UpdateRule(u, state)) \/ DeleteRule(u)
      PROVE  Step
  BY <1>4, RuleSteps DEF Step
<1>5. CASE \E u \in Rules, r \in Runs : CooldownEnds(u, r)
  BY <1>5, CooldownStep DEF Step
<1>6. ASSUME NEW e \in Evaluators, Evaluating(e) \/ EvaluationFails(e)
      PROVE  Step
  BY <1>6, ChoosingSteps, EvaluatesStep, CommitStep DEF Step, Evaluating
<1>7. CASE UNCHANGED vars
  <2>1. DeliveryStep
    BY <1>7 DEF vars, DeliveryStep, IInv, Types
  <2> QED  BY <2>1, DeliveryStepKeeps DEF Step
<1>8. CASE Next
  <2>1. CASE \E u \in Rules : CreateRule(u)
    BY <1>4, <2>1
  <2>2. CASE \E u \in Rules, state \in {"on", "off"} : UpdateRule(u, state)
    <3>1. PICK u \in Rules, state \in {"on", "off"} : UpdateRule(u, state)
      BY <2>2
    <3>2. \E x \in {"on", "off"} : UpdateRule(u, x)
      BY <3>1
    <3> QED  BY <1>4, <3>2
  <2>3. CASE \E u \in Rules : DeleteRule(u)
    BY <1>4, <2>3
  <2>4. CASE \E e \in Evaluators : Evaluating(e) \/ EvaluationFails(e)
    BY <1>6, <2>4
  <2>5. CASE \E s \in Senders : Delivering(s) \/ SenderFails(s)
    BY <1>1, <2>5
  <2>6. CASE \E k \in Key : BecomesDue(k) \/ BecomesStale(k)
    BY <1>1, <2>6
  <2>7. CASE \E c \in Channels : UpdateChannel(c)
    BY <1>2, <2>7
  <2> QED  BY <1>3, <1>5, <1>8, <2>1, <2>2, <2>3, <2>4, <2>5, <2>6, <2>7 DEF Next
<1> QED  BY <1>7, <1>8

\* Rows exist only together: deliveries with their event, events with the mark of
\* their run; and the runs under evaluation know each other.
THEOREM Invariance == Spec => []IInv
<1>1. IInv /\ [Next]_vars => IInv'
  BY Inductive DEF Step
<1> QED  BY InitOK, <1>1, PTL DEF Spec

\* However many evaluators there are, a rule fires twice within its cooldown only on
\* runs evaluated at the same time.
THEOREM CooldownHolds == Spec => []CooldownNeedsOverlap
<1>1. IInv => CooldownNeedsOverlap
  BY DEF IInv
<1> QED  BY Invariance, <1>1, PTL

\* Overlapping, failing or repeated ticks evaluate every run once: events and their
\* deliveries appear only in the step that marks the run.
THEOREM RunsAreEvaluatedOnce == Spec => EvaluatedOnce
<1> DEFINE OnceStep ==
      \A u \in Rules, r \in Runs :
        event[u][r] = "none" /\ event'[u][r] # "none"
        => /\ ~run[r].evaluated /\ run'[r].evaluated
           /\ \A c \in Channels : delivery[<<u, r, c>>].status = "none"
<1>1. IInv /\ [Next]_vars => [OnceStep]_vars
  <2> SUFFICES ASSUME IInv, [Next]_vars PROVE OnceStep
    OBVIOUS
  <2>1. \A u \in Rules, r \in Runs, c \in Channels :
          event[u][r] = "none" => delivery[<<u, r, c>>].status = "none"
    BY DEF IInv, Marked
  <2> QED  BY <2>1, Inductive DEF Step
<1> QED  BY Invariance, <1>1, PTL DEF Spec, EvaluatedOnce
----------------------------------------------------------------------------
(* Messages.                                                               *)
(*                                                                         *)
(* A sender owes a message while it holds a delivery whose message has not *)
(* been reported as sent.  Each one may still become an acceptance, so the *)
(* senders that owe it are counted with the acceptances there have been.   *)

Works == Key \X Nat

SenderState == [works : SUBSET Works, result : (Works \X Results) \cup {Nobody}]

Owes(x, k) ==
  /\ \E w \in x.works : w[1] = k
  /\ ~(x.result # Nobody /\ x.result[1][1] = k /\ x.result[2] = "sent")

Outstanding(k) == {s \in Senders : Owes(sender[s], k)}

\* A sender holds a delivery once, and a result is of what it holds.
Consistent(x) ==
  /\ \A v, w \in x.works : v[1] = w[1] => v = w
  /\ x.result # Nobody => x.result[1] \in x.works

\* A delivery that may be claimed again has an acceptance and an attempt to spare.
Budget(d, n) ==
  /\ d.accepted + n <= d.lost + d.taken + (IF d.next = "never" THEN 1 ELSE 0)
  /\ d.attempt <= MaxAttempts + d.taken
  /\ d.next # "never" => d.attempt < MaxAttempts + d.taken

RulesOK == rule \in [Rules -> {"absent", "on", "off", "deleted"}]

SendersOK == sender \in [Senders -> SenderState] /\ \A s \in Senders : Consistent(sender[s])

\* Nobody holds a delivery before it is there; one that was deleted is not made again.
DeliveryOK(k) ==
  /\ IsFiniteSet(Outstanding(k))
  /\ delivery[k].status = "none" =>
       delivery[k] = NoDelivery /\ (rule[k[1]] # "deleted" => Outstanding(k) = {})
  /\ delivery[k].status # "none" => Budget(delivery[k], Cardinality(Outstanding(k)))

DeliveriesOK == \A k \in Key : DeliveryOK(k)

MessagesInv == RulesOK /\ SendersOK /\ DeliveriesOK

LEMMA Limits == MaxAttempts \in Nat \ {0} /\ Nobody \notin Works \X Results
BY NotificationsAssumption DEF Works

LEMMA InitMessages == Init => MessagesInv
<1> SUFFICES ASSUME Init PROVE MessagesInv
  OBVIOUS
<1>1. RulesOK
  BY DEF Init, RulesOK
<1>2. IdleSender \in SenderState /\ IdleSender.works = {} /\ IdleSender.result = Nobody
  BY DEF IdleSender, SenderState
<1>3. SendersOK
  BY <1>2 DEF Init, SendersOK, Consistent
<1>4. ASSUME NEW k \in Key PROVE DeliveryOK(k)
  <2>1. \A s \in Senders : sender[s].works = {}
    BY <1>2 DEF Init
  <2>2. Outstanding(k) = {} /\ delivery[k] = NoDelivery
    BY <2>1 DEF Outstanding, Owes, Init
  <2> QED  BY <2>2, FS_EmptySet DEF DeliveryOK, NoDelivery
<1> QED  BY <1>1, <1>3, <1>4 DEF MessagesInv, DeliveriesOK

LEMMA Counted ==
  ASSUME NEW k, IsFiniteSet(Outstanding(k)) PROVE Cardinality(Outstanding(k)) \in Nat
BY FS_CardinalityType

LEMMA BudgetLeft ==
  ASSUME NEW d \in Delivery, NEW n \in Nat, NEW m \in Nat, m <= n, Budget(d, n)
  PROVE  Budget(d, m)
<1>1. d.accepted \in Nat /\ d.lost \in Nat /\ d.taken \in Nat
  BY DEF Delivery
<1> DEFINE spare == IF d.next = "never" THEN 1 ELSE 0
<1>2. spare \in Nat /\ d.accepted + n <= d.lost + d.taken + spare
  BY DEF Budget
<1> HIDE DEF spare
<1>3. d.accepted + m <= d.lost + d.taken + spare
  BY <1>1, <1>2
<1> QED  BY <1>3 DEF Budget, spare

\* A claim takes one of what is to spare, unless it takes the delivery over.
LEMMA ClaimedBudget ==
  ASSUME NEW d \in Delivery, NEW n \in Nat, Due(d), Budget(d, n), NEW f,
         f = [d EXCEPT !.stale = FALSE,
                       !.taken = IF d.status = "sending" THEN d.taken + 1 ELSE d.taken]
  PROVE  /\ Budget(Sending(f), n + 1) /\ Budget(Deferred(f), n) /\ Budget(Unusable(f), n)
<1>1. /\ d.accepted \in Nat /\ d.lost \in Nat /\ d.taken \in Nat /\ d.attempt \in Nat
      /\ f.accepted = d.accepted /\ f.lost = d.lost /\ f.attempt = d.attempt
      /\ f.taken = IF d.status = "sending" THEN d.taken + 1 ELSE d.taken
      /\ DOMAIN f = DOMAIN d
  BY DEF Delivery
<1>2. /\ f.taken \in Nat /\ f.taken >= d.taken
      /\ d.accepted + n <= f.taken + d.lost
      /\ d.attempt < MaxAttempts + f.taken
  <2>1. CASE d.status = "sending"
    <3>1. f.taken = d.taken + 1 /\ d.accepted + n <= d.lost + d.taken + 1
          /\ d.attempt <= MaxAttempts + d.taken
      BY <1>1, <2>1 DEF Budget
    <3> QED  BY <1>1, <3>1, Limits
  <2>2. CASE d.status # "sending"
    <3>1. d.next = "now" /\ f.taken = d.taken
      BY <1>1, <2>2 DEF Due
    <3>2. d.accepted + n <= d.lost + d.taken + 0 /\ d.attempt < MaxAttempts + d.taken
      BY <3>1 DEF Budget
    <3> QED  BY <1>1, <3>1, <3>2
  <2> QED  BY <2>1, <2>2
<1>3. Budget(Sending(f), n + 1)
  <2>1. /\ Sending(f).accepted = d.accepted /\ Sending(f).lost = d.lost
        /\ Sending(f).taken = f.taken /\ Sending(f).attempt = d.attempt + 1
        /\ Sending(f).next = "never"
    BY <1>1 DEF Sending, Delivery
  <2> QED  BY <1>1, <1>2, <2>1, Limits DEF Budget
<1>4. Budget(Deferred(f), n)
  <2>1. /\ Deferred(f).accepted = d.accepted /\ Deferred(f).lost = d.lost
        /\ Deferred(f).taken = f.taken /\ Deferred(f).attempt = d.attempt
        /\ Deferred(f).next = "later"
    BY <1>1 DEF Deferred, Delivery
  <2> QED  BY <1>1, <1>2, <2>1, Limits DEF Budget
<1>5. Budget(Unusable(f), n)
  <2>1. /\ Unusable(f).accepted = d.accepted /\ Unusable(f).lost = d.lost
        /\ Unusable(f).taken = f.taken /\ Unusable(f).attempt = d.attempt
        /\ Unusable(f).next = "never"
    BY <1>1 DEF Unusable, Delivery
  <2> QED  BY <1>1, <1>2, <2>1, Limits DEF Budget
<1> QED  BY <1>3, <1>4, <1>5

\* An attempt that failed gives back the acceptance it might have become.
LEMMA OutcomeBudget ==
  ASSUME NEW d \in Delivery, d.status # "none", NEW n \in Nat, NEW result
  PROVE  /\ Budget(d, n) => Budget(Outcome(d, "sent"), n)
         /\ result # "sent" /\ Budget(d, n + 1) => Budget(Outcome(d, result), n)
<1>1. /\ d.accepted \in Nat /\ d.lost \in Nat /\ d.taken \in Nat /\ d.attempt \in Nat
  BY DEF Delivery
<1>2. ASSUME Budget(d, n) PROVE Budget(Outcome(d, "sent"), n)
  <2> DEFINE o == Outcome(d, "sent")
  <2>1. /\ o.accepted = d.accepted /\ o.lost = d.lost /\ o.taken = d.taken
        /\ o.attempt = d.attempt /\ o.next = "never"
    BY DEF Outcome, Delivery
  <2>2. d.accepted + n <= d.lost + d.taken + 1 /\ d.attempt <= MaxAttempts + d.taken
    BY <1>1, <1>2 DEF Budget
  <2> QED  BY <2>1, <2>2 DEF Budget
<1>3. ASSUME result # "sent", Budget(d, n + 1) PROVE Budget(Outcome(d, result), n)
  <2> DEFINE o == Outcome(d, result)
             later == IF result = "retry" /\ Retries(d) THEN "later" ELSE "never"
  <2>1. o = [d EXCEPT !.status = "failed", !.stale = FALSE, !.next = later]
    BY <1>3 DEF Outcome
  <2>2. /\ o.accepted = d.accepted /\ o.lost = d.lost /\ o.taken = d.taken
        /\ o.attempt = d.attempt /\ o.next = later
    BY <2>1 DEF Delivery
  <2>3. d.accepted + (n + 1) <= d.lost + d.taken + 1 /\ d.attempt <= MaxAttempts + d.taken
    BY <1>1, <1>3 DEF Budget
  <2>4. later # "never" => d.attempt < MaxAttempts
    BY DEF Retries
  <2>5. d.accepted + n <= d.lost + d.taken
    BY <1>1, <2>3
  <2> HIDE DEF o, later
  <2>6. o.accepted + n <= o.lost + o.taken + (IF o.next = "never" THEN 1 ELSE 0)
    BY <1>1, <2>2, <2>5
  <2>7. o.next # "never" => o.attempt < MaxAttempts + o.taken
    BY <1>1, <2>2, <2>4, Limits
  <2> QED  BY <2>2, <2>3, <2>6, <2>7 DEF Budget, o
<1> QED  BY <1>2, <1>3

\* One sender changes: who owes a message afterwards.
LEMMA Recounted ==
  ASSUME SendersOK, NEW s \in Senders, NEW x \in SenderState, Consistent(x),
         sender' = [sender EXCEPT ![s] = x], NEW k, IsFiniteSet(Outstanding(k))
  PROVE  /\ SendersOK' /\ IsFiniteSet(Outstanding(k)')
         /\ Outstanding(k)' \subseteq Outstanding(k) \cup {s}
         /\ ~Owes(x, k) => Outstanding(k)' \subseteq Outstanding(k)
         /\ Cardinality(Outstanding(k)) \in Nat /\ Cardinality(Outstanding(k)') \in Nat
         /\ Cardinality(Outstanding(k)') <= Cardinality(Outstanding(k)) + 1
         /\ (Owes(x, k) <=> Owes(sender[s], k)) => Outstanding(k)' = Outstanding(k)
         /\ ~Owes(x, k) => Cardinality(Outstanding(k)') <= Cardinality(Outstanding(k))
         /\ ~Owes(x, k) /\ Owes(sender[s], k) =>
              Cardinality(Outstanding(k)) = Cardinality(Outstanding(k)') + 1
<1>1. /\ sender' \in [Senders -> SenderState] /\ sender'[s] = x
      /\ \A t \in Senders : t # s => sender'[t] = sender[t]
  BY DEF SendersOK
<1>2. SendersOK'
  BY <1>1 DEF SendersOK
<1>3. Outstanding(k)' = IF Owes(x, k) THEN Outstanding(k) \cup {s} ELSE Outstanding(k) \ {s}
  <2>1. Outstanding(k)' = {t \in Senders : Owes(sender'[t], k)}
    BY DEF Outstanding, Owes
  <2> QED  BY <1>1, <2>1 DEF Outstanding
<1>4. s \in Outstanding(k) <=> Owes(sender[s], k)
  BY DEF Outstanding
<1>5. Cardinality(Outstanding(k)) \in Nat
  BY Counted
<1>6. CASE Owes(x, k)
  <2>1. Outstanding(k)' = Outstanding(k) \cup {s}
    BY <1>3, <1>6
  <2>2. /\ IsFiniteSet(Outstanding(k) \cup {s})
        /\ Cardinality(Outstanding(k) \cup {s}) =
             IF s \in Outstanding(k) THEN Cardinality(Outstanding(k))
             ELSE Cardinality(Outstanding(k)) + 1
    BY FS_AddElement
  <2>3. (Owes(x, k) <=> Owes(sender[s], k)) => Outstanding(k)' = Outstanding(k)
    BY <1>4, <1>6, <2>1
  <2>4. /\ Cardinality(Outstanding(k)') \in Nat
        /\ Cardinality(Outstanding(k)') <= Cardinality(Outstanding(k)) + 1
    BY <1>5, <2>1, <2>2
  <2> QED  BY <1>2, <1>5, <1>6, <2>1, <2>2, <2>3, <2>4
<1>7. CASE ~Owes(x, k)
  <2>1. Outstanding(k)' = Outstanding(k) \ {s}
    BY <1>3, <1>7
  <2>2. /\ IsFiniteSet(Outstanding(k) \ {s})
        /\ Cardinality(Outstanding(k) \ {s}) =
             IF s \in Outstanding(k) THEN Cardinality(Outstanding(k)) - 1
             ELSE Cardinality(Outstanding(k))
    BY FS_RemoveElement
  <2>3. Cardinality(Outstanding(k) \ {s}) \in Nat
    BY <2>2, FS_CardinalityType
  <2> QED  BY <1>2, <1>4, <1>5, <1>7, <2>1, <2>2, <2>3
<1> QED  BY <1>6, <1>7

LEMMA FewerOwe ==
  ASSUME NEW k \in Key, DeliveryOK(k), delivery[k] \in Delivery, delivery'[k] = delivery[k],
         rule[k[1]] = "deleted" => rule'[k[1]] = "deleted",
         Outstanding(k)' \subseteq Outstanding(k)
  PROVE  DeliveryOK(k)'
<1>1. /\ IsFiniteSet(Outstanding(k)) /\ IsFiniteSet(Outstanding(k)')
      /\ Cardinality(Outstanding(k)') <= Cardinality(Outstanding(k))
  BY FS_Subset DEF DeliveryOK
<1>2. Cardinality(Outstanding(k)) \in Nat /\ Cardinality(Outstanding(k)') \in Nat
  BY <1>1, FS_CardinalityType
<1>3. ASSUME delivery[k].status # "none"
      PROVE  Budget(delivery[k], Cardinality(Outstanding(k)'))
  BY <1>1, <1>2, <1>3, BudgetLeft DEF DeliveryOK
<1>4. ASSUME delivery[k].status # "none"
      PROVE  Budget(delivery[k], Cardinality(Outstanding(k)))'
  BY <1>3, <1>4 DEF Budget
<1> QED  BY <1>1, <1>4 DEF DeliveryOK

RulesStayDeleted == \A u \in Rules : rule[u] = "deleted" => rule'[u] = "deleted"

LEMMA RulesEvolve ==
  ASSUME RulesOK, [Next]_vars PROVE RulesOK' /\ RulesStayDeleted
<1>1. \/ UNCHANGED rule
      \/ \E u \in Rules, x \in {"on", "off", "deleted"} :
           rule[u] # "deleted" /\ rule' = [rule EXCEPT ![u] = x]
  <2>1. CASE \E u \in Rules : CreateRule(u) \/ DeleteRule(u)
    BY <2>1 DEF CreateRule, DeleteRule
  <2>2. CASE \E u \in Rules, state \in {"on", "off"} : UpdateRule(u, state)
    BY <2>2 DEF UpdateRule
  <2>3. CASE \E e \in Evaluators : Evaluating(e) \/ EvaluationFails(e)
    <3>1. PICK e \in Evaluators : Evaluating(e) \/ EvaluationFails(e)
      BY <2>3
    <3> QED  BY <3>1 DEF Evaluating, EvaluationFails, SelectsRuns, CommitsEvents, InsertFails, SkipsRun, Evaluates
  <2>4. CASE \E s \in Senders : Delivering(s) \/ SenderFails(s)
    <3>1. PICK s \in Senders : Delivering(s) \/ SenderFails(s)
      BY <2>4
    <3>2. UNCHANGED alerts
      BY ZenonT(30), <3>1 DEF Delivering, SenderFails, Claims, Sends, Finishes
    <3> QED  BY <3>2 DEF alerts
  <2>5. CASE \/ \E r \in Runs : Succeeds(r) \/ FailsLate(r)
             \/ \E u \in Rules, r \in Runs : CooldownEnds(u, r)
    BY <2>5 DEF Succeeds, FailsLate, CooldownEnds
  <2>6. CASE \/ \E c \in Channels : UpdateChannel(c)
             \/ \E k \in Key : BecomesDue(k) \/ BecomesStale(k)
             \/ UNCHANGED vars
    BY <2>6 DEF UpdateChannel, BecomesDue, BecomesStale, alerts, vars
  <2> QED  BY <2>1, <2>2, <2>3, <2>4, <2>5, <2>6 DEF Next
<1> QED  BY <1>1 DEF RulesOK, RulesStayDeleted

LEMMA SameBudget ==
  ASSUME NEW d \in Delivery, NEW f \in Delivery, NEW n \in Nat, Budget(d, n),
         f.attempt = d.attempt, f.accepted = d.accepted, f.lost = d.lost, f.taken = d.taken,
         f.next = "never" <=> d.next = "never"
  PROVE  Budget(f, n)
<1>1. CASE d.next = "never"
  BY <1>1 DEF Budget
<1>2. CASE d.next # "never"
  BY <1>2 DEF Budget
<1> QED  BY <1>1, <1>2

\* Neither a delivery nor a sender changes.
LEMMA QuietMessages ==
  ASSUME IInv, MessagesInv, RulesStayDeleted, UNCHANGED <<delivery, sender>>
  PROVE  SendersOK' /\ DeliveriesOK'
<1>1. SendersOK'
  BY DEF MessagesInv, SendersOK, Consistent
<1>2. ASSUME NEW k \in Key PROVE DeliveryOK(k)'
  <2>1. Outstanding(k)' = Outstanding(k)
    BY DEF Outstanding, Owes
  <2>2. k[1] \in Rules
    BY DEF Key
  <2> QED  BY <2>1, <2>2, FewerOwe DEF IInv, Types, MessagesInv, DeliveriesOK, RulesStayDeleted
<1> QED  BY <1>1, <1>2 DEF DeliveriesOK

LEMMA DeletedMessages ==
  ASSUME IInv, MessagesInv, RulesStayDeleted, NEW u \in Rules, DeleteRule(u)
  PROVE  SendersOK' /\ DeliveriesOK'
<1>1. /\ UNCHANGED sender
      /\ \A k \in Key : delivery'[k] = IF k[1] = u THEN NoDelivery ELSE delivery[k]
  BY DEF DeleteRule
<1>2. SendersOK'
  BY <1>1 DEF MessagesInv, SendersOK, Consistent
<1>3. ASSUME NEW k \in Key PROVE DeliveryOK(k)'
  <2>1. Outstanding(k)' = Outstanding(k) /\ k[1] \in Rules
    BY <1>1 DEF Outstanding, Owes, Key
  <2>2. CASE k[1] # u
    BY <1>1, <2>1, <2>2, FewerOwe DEF IInv, Types, MessagesInv, DeliveriesOK, RulesStayDeleted
  <2>3. CASE k[1] = u
    <3>1. rule'[u] = "deleted"
      BY DEF DeleteRule, MessagesInv, RulesOK
    <3>2. delivery'[k] = NoDelivery /\ NoDelivery.status = "none"
      BY <1>1, <2>3 DEF NoDelivery
    <3> QED  BY <2>1, <2>3, <3>1, <3>2 DEF MessagesInv, DeliveriesOK, DeliveryOK
  <2> QED  BY <2>2, <2>3
<1> QED  BY <1>2, <1>3 DEF DeliveriesOK

\* What is made was not there, so nobody holds it.
LEMMA CommittedMessages ==
  ASSUME IInv, MessagesInv, RulesStayDeleted, NEW e \in Evaluators, CommitsEvents(e)
  PROVE  SendersOK' /\ DeliveriesOK'
<1> DEFINE r == evaluator[e].run
           new == {u \in evaluator[e].fires : event[u][r] = "none"}
           fresh == [NoDelivery EXCEPT !.status = "pending", !.next = "now"]
<1>1. /\ UNCHANGED <<sender, rule>> /\ IsDeciding(e) /\ ~RuleVanished(e)
      /\ \A k \in Key : delivery'[k] =
           IF k[1] \in new /\ k[2] = r /\ k[3] \in ChannelsFor(k[1]) THEN fresh ELSE delivery[k]
  BY DEF CommitsEvents, IsDeciding
<1>2. SendersOK'
  BY <1>1 DEF MessagesInv, SendersOK, Consistent
<1>3. ASSUME NEW k \in Key PROVE DeliveryOK(k)'
  <2>1. /\ Outstanding(k)' = Outstanding(k) /\ k[1] \in Rules /\ k[2] \in Runs /\ k[3] \in Channels
        /\ k = <<k[1], k[2], k[3]>>
    BY <1>1 DEF Outstanding, Owes, Key
  <2>2. CASE delivery'[k] = delivery[k]
    BY <2>1, <2>2, FewerOwe DEF IInv, Types, MessagesInv, DeliveriesOK, RulesStayDeleted
  <2>3. CASE delivery'[k] # delivery[k]
    <3>1. delivery'[k] = fresh /\ k[1] \in new /\ k[2] = r
      BY <1>1, <2>3
    <3>2. event[k[1]][k[2]] = "none" /\ rule[k[1]] # "deleted"
      BY <1>1, <3>1 DEF RuleVanished
    <3>3. delivery[k].status = "none"
      BY <2>1, <3>2 DEF IInv, Marked
    <3>4. Outstanding(k)' = {}
      BY <2>1, <3>2, <3>3 DEF MessagesInv, DeliveriesOK, DeliveryOK
    <3>5. /\ fresh.status = "pending" /\ fresh.next = "now" /\ fresh.accepted = 0
          /\ fresh.lost = 0 /\ fresh.taken = 0 /\ fresh.attempt = 0
      BY DEF NoDelivery
    <3> HIDE DEF fresh
    <3>6. IsFiniteSet(Outstanding(k)') /\ Cardinality(Outstanding(k)') = 0
      BY <3>4, FS_EmptySet
    <3>7. Budget(delivery[k], Cardinality(Outstanding(k)))'
      BY <3>1, <3>5, <3>6, Limits DEF Budget
    <3> QED  BY <3>1, <3>5, <3>6, <3>7 DEF DeliveryOK
  <2> QED  BY <2>2, <2>3
<1> QED  BY <1>2, <1>3 DEF DeliveriesOK

LEMMA TimedMessages ==
  ASSUME IInv, MessagesInv, NEW k \in Key, BecomesDue(k) \/ BecomesStale(k)
  PROVE  SendersOK' /\ DeliveriesOK'
<1>1. /\ UNCHANGED <<sender, rule>>
      /\ \/ delivery' = [delivery EXCEPT ![k].next = "now"] /\ delivery[k].next = "later"
         \/ delivery' = [delivery EXCEPT ![k].stale = TRUE] /\ delivery[k].status = "sending"
  BY DEF BecomesDue, BecomesStale, alerts
<1>2. SendersOK'
  BY <1>1 DEF MessagesInv, SendersOK, Consistent
<1>3. delivery \in [Key -> Delivery] /\ delivery[k] \in Delivery
  BY DEF IInv, Types
<1>4. ASSUME NEW q \in Key PROVE DeliveryOK(q)'
  <2>1. Outstanding(q)' = Outstanding(q)
    BY <1>1 DEF Outstanding, Owes
  <2>2. CASE q # k
    <3>1. delivery'[q] = delivery[q]
      BY <1>1, <1>3, <2>2
    <3> QED  BY <1>1, <1>3, <2>1, <3>1, FewerOwe DEF MessagesInv, DeliveriesOK
  <2>3. CASE q = k
    <3>1. delivery[k].status # "none"
      <4>1. delivery[k].status = "none" => delivery[k].next = "never"
        BY DEF MessagesInv, DeliveriesOK, DeliveryOK, NoDelivery
      <4> QED  BY <1>1, <4>1
    <3>2. Budget(delivery[k], Cardinality(Outstanding(k))) /\ IsFiniteSet(Outstanding(k))
      BY <3>1 DEF MessagesInv, DeliveriesOK, DeliveryOK
    <3>3. /\ delivery'[k].status = delivery[k].status /\ delivery'[k].attempt = delivery[k].attempt
          /\ delivery'[k].accepted = delivery[k].accepted /\ delivery'[k].lost = delivery[k].lost
          /\ delivery'[k].taken = delivery[k].taken
          /\ delivery'[k].next = "never" <=> delivery[k].next = "never"
      BY <1>1, <1>3 DEF Delivery
    <3>4. Cardinality(Outstanding(k)) \in Nat
      BY <3>2, Counted
    <3>5. delivery'[k] \in Delivery
      <4>1. DeliveryStep
        BY DeliverySteps
      <4> QED  BY <4>1 DEF DeliveryStep
    <3>6. Budget(delivery'[k], Cardinality(Outstanding(k)))
      BY <1>3, <3>2, <3>3, <3>4, <3>5, SameBudget
    <3>7. Budget(delivery'[k], Cardinality(Outstanding(k)'))
      BY <2>1, <2>3, <3>6
    <3> QED  BY <2>1, <2>3, <3>1, <3>2, <3>3, <3>7 DEF DeliveryOK, Budget
  <2> QED  BY <2>2, <2>3
<1> QED  BY <1>2, <1>4 DEF DeliveriesOK

----------------------------------------------------------------------------
(* What senders do.                                                        *)

\* Deliveries that the sender does not touch.
LEMMA Untouched ==
  ASSUME IInv, MessagesInv, UNCHANGED rule, NEW k \in Key, delivery'[k] = delivery[k],
         Outstanding(k)' \subseteq Outstanding(k)
  PROVE  DeliveryOK(k)'
BY FewerOwe DEF IInv, Types, MessagesInv, DeliveriesOK

LEMMA FailedMessages ==
  ASSUME IInv, MessagesInv, NEW s \in Senders, SenderFails(s)
  PROVE  SendersOK' /\ DeliveriesOK'
<1>1. /\ UNCHANGED <<delivery, rule>> /\ sender' = [sender EXCEPT ![s] = IdleSender]
  BY DEF SenderFails, alerts
<1>2. IdleSender \in SenderState /\ Consistent(IdleSender) /\ \A k \in Key : ~Owes(IdleSender, k)
  BY DEF IdleSender, SenderState, Consistent, Owes
<1>3. SendersOK /\ \A k \in Key : IsFiniteSet(Outstanding(k))
  BY DEF MessagesInv, DeliveriesOK, DeliveryOK
<1>4. SendersOK'
  BY <1>1, <1>2 DEF MessagesInv, SendersOK
<1>5. ASSUME NEW k \in Key PROVE DeliveryOK(k)'
  <2>1. Outstanding(k)' \subseteq Outstanding(k)
    BY <1>1, <1>2, <1>3, Recounted
  <2> QED  BY <1>1, <2>1, Untouched
<1> QED  BY <1>4, <1>5 DEF DeliveriesOK

\* Every claim counts as an acceptance to come.
LEMMA ClaimedMessages ==
  ASSUME IInv, MessagesInv, NEW s \in Senders, NEW closed, NEW broken, Claims(s, closed, broken)
  PROVE  SendersOK' /\ DeliveriesOK'
<1> DEFINE due == {k \in Key : Due(delivery[k]) /\ channel[k[3]]}
           mine == {k \in due : k[3] \notin closed \cup broken}
           works == {<<k, delivery[k].attempt + 1>> : k \in mine}
           x == [IdleSender EXCEPT !.works = works]
           Fresh(d) == [d EXCEPT !.stale = FALSE,
                                 !.taken = IF d.status = "sending" THEN d.taken + 1 ELSE d.taken]
<1>1. /\ UNCHANGED rule /\ sender[s] = IdleSender
      /\ sender' = [sender EXCEPT ![s].works = works]
      /\ \A k \in Key : delivery'[k] =
           IF k \notin due THEN delivery[k]
           ELSE IF k[3] \in broken THEN Unusable(Fresh(delivery[k]))
           ELSE IF k[3] \in closed THEN Deferred(Fresh(delivery[k]))
           ELSE Sending(Fresh(delivery[k]))
  BY DEF Claims, alerts
<1>2. sender' = [sender EXCEPT ![s] = x]
  BY <1>1 DEF MessagesInv, SendersOK
<1>3. delivery \in [Key -> Delivery]
  BY DEF IInv, Types
<1>4. works \in SUBSET Works
  <2>1. \A k \in mine : k \in Key /\ delivery[k].attempt + 1 \in Nat
    BY <1>3 DEF Delivery
  <2> QED  BY <2>1 DEF Works
<1>5. ASSUME NEW w \in works PROVE w[1] \in mine /\ w = <<w[1], delivery[w[1]].attempt + 1>>
  <2>1. PICK k \in mine : w = <<k, delivery[k].attempt + 1>>
    OBVIOUS
  <2> QED  BY <2>1
<1>6. ASSUME NEW k \in mine PROVE \E w \in works : w[1] = k
  <2>1. <<k, delivery[k].attempt + 1>> \in works
    OBVIOUS
  <2>2. <<k, delivery[k].attempt + 1>>[1] = k
    OBVIOUS
  <2> HIDE DEF works
  <2> QED  BY <2>1, <2>2
<1> HIDE DEF works
<1>7. /\ x \in SenderState /\ x.works = works /\ x.result = Nobody
  BY <1>4 DEF IdleSender, SenderState
<1> HIDE DEF x
<1>8. Consistent(x) /\ \A k \in Key : Owes(x, k) <=> k \in mine
  BY <1>5, <1>6, <1>7 DEF Consistent, Owes
<1>9. SendersOK /\ \A k \in Key : IsFiniteSet(Outstanding(k))
  BY DEF MessagesInv, DeliveriesOK, DeliveryOK
<1>10. SendersOK'
  BY <1>2, <1>7, <1>8 DEF MessagesInv, SendersOK
<1>11. ASSUME NEW k \in Key PROVE DeliveryOK(k)'
  <2>1. /\ IsFiniteSet(Outstanding(k)')
        /\ Cardinality(Outstanding(k)) \in Nat /\ Cardinality(Outstanding(k)') \in Nat
        /\ Cardinality(Outstanding(k)') <= Cardinality(Outstanding(k)) + 1
        /\ k \notin mine => /\ Outstanding(k)' \subseteq Outstanding(k)
                            /\ Cardinality(Outstanding(k)') <= Cardinality(Outstanding(k))
    BY <1>2, <1>7, <1>8, <1>9, Recounted
  <2>2. CASE k \notin due
    BY <1>1, <2>1, <2>2, Untouched
  <2>3. CASE k \in due
    <3> DEFINE d == delivery[k]
               f == Fresh(d)
               n == Cardinality(Outstanding(k))
               m == Cardinality(Outstanding(k)')
    <3>1. d \in Delivery /\ Due(d) /\ d.status # "none"
      BY <1>3, <2>3 DEF Due
    <3>2. Budget(d, n)
      BY <3>1 DEF MessagesInv, DeliveriesOK, DeliveryOK
    <3>3. f \in Delivery /\ f.status # "none"
      BY <3>1, FreshOK
    <3>4. f = [d EXCEPT !.stale = FALSE,
                        !.taken = IF d.status = "sending" THEN d.taken + 1 ELSE d.taken]
      OBVIOUS
    <3>5. delivery'[k] = IF k[3] \in broken THEN Unusable(f)
                         ELSE IF k[3] \in closed THEN Deferred(f) ELSE Sending(f)
      BY <1>1, <2>3
    <3>6. n \in Nat /\ m \in Nat /\ m <= n + 1 /\ (k \notin mine => m <= n)
      BY <2>1
    <3>7. k \notin mine <=> k[3] \in closed \cup broken
      BY <2>3
    <3> HIDE DEF d, f, n, m, due, mine
    <3>8. Budget(Sending(f), n + 1) /\ Budget(Deferred(f), n) /\ Budget(Unusable(f), n)
      BY <3>1, <3>2, <3>4, <3>6, ClaimedBudget
    <3>9. /\ Deferred(f) \in Delivery /\ Deferred(f).status # "none"
          /\ Unusable(f) \in Delivery /\ Unusable(f).status # "none"
          /\ Sending(f) \in Delivery /\ Sending(f).status # "none"
      BY <3>3, ClaimedOK
    <3>10. Budget(Sending(f), m)
      <4>1. n + 1 \in Nat
        BY <3>6
      <4> QED  BY <3>6, <3>8, <3>9, <4>1, BudgetLeft
    <3>11. k \notin mine => Budget(Deferred(f), m) /\ Budget(Unusable(f), m)
      BY <3>6, <3>8, <3>9, BudgetLeft
    <3>12. Budget(delivery'[k], m) /\ delivery'[k].status # "none"
      BY <3>5, <3>7, <3>9, <3>10, <3>11
    <3>13. Budget(delivery[k], Cardinality(Outstanding(k)))'
      BY <3>12 DEF m, Budget
    <3> QED  BY <2>1, <3>12, <3>13 DEF DeliveryOK
  <2> QED  BY <2>2, <2>3
<1> QED  BY <1>10, <1>11 DEF DeliveriesOK

\* Sending turns an acceptance to come into one that happened, or into a lost one.
LEMMA SentMessages ==
  ASSUME IInv, MessagesInv, NEW s \in Senders, NEW w \in sender[s].works,
         NEW result \in Results, NEW accepted \in BOOLEAN, Sends(s, w, result, accepted)
  PROVE  SendersOK' /\ DeliveriesOK'
<1> DEFINE k == w[1]
           x == [sender[s] EXCEPT !.result = <<w, result>>]
           lost == accepted /\ result # "sent"
           a == [delivery[k] EXCEPT
                   !.accepted = IF accepted THEN delivery[k].accepted + 1 ELSE delivery[k].accepted,
                   !.lost = IF lost THEN delivery[k].lost + 1 ELSE delivery[k].lost]
<1>1. /\ UNCHANGED rule /\ sender[s].result = Nobody /\ (result = "sent" => accepted)
      /\ sender' = [sender EXCEPT ![s].result = <<w, result>>]
      /\ delivery' = [delivery EXCEPT ![k] = IF delivery[k].status = "none" THEN delivery[k] ELSE a]
  BY DEF Sends, alerts
<1>2. SendersOK /\ sender[s] \in SenderState /\ Consistent(sender[s])
  BY DEF MessagesInv, SendersOK
<1>3. delivery \in [Key -> Delivery] /\ w \in Works /\ k \in Key
  BY <1>2 DEF IInv, Types, SenderState, Works
<1>4. /\ sender' = [sender EXCEPT ![s] = x] /\ x \in SenderState
      /\ x.works = sender[s].works /\ x.result = <<w, result>> /\ x.result # Nobody
  BY <1>1, <1>2, <1>3, Limits DEF SendersOK, SenderState
<1> HIDE DEF x
<1>5. Consistent(x)
  BY <1>2, <1>4 DEF Consistent
<1>6. /\ Owes(sender[s], k) /\ (Owes(x, k) <=> result # "sent")
      /\ \A q \in Key : q # k => (Owes(x, q) <=> Owes(sender[s], q))
  BY <1>1, <1>4 DEF Owes
<1>7. \A q \in Key : IsFiniteSet(Outstanding(q))
  BY DEF MessagesInv, DeliveriesOK, DeliveryOK
<1>8. SendersOK'
  BY <1>2, <1>4, <1>5 DEF SendersOK
<1>9. ASSUME NEW q \in Key, q # k PROVE DeliveryOK(q)'
  <2>1. Outstanding(q)' = Outstanding(q)
    BY <1>2, <1>4, <1>5, <1>6, <1>7, <1>9, Recounted
  <2>2. delivery'[q] = delivery[q]
    BY <1>1, <1>3, <1>9
  <2> QED  BY <1>1, <2>1, <2>2, Untouched
<1>10. DeliveryOK(k)'
  <2> DEFINE n == Cardinality(Outstanding(k))
             m == Cardinality(Outstanding(k)')
  <2>1. /\ IsFiniteSet(Outstanding(k)') /\ n \in Nat /\ m \in Nat
        /\ result = "sent" => Outstanding(k)' \subseteq Outstanding(k) /\ n = m + 1
        /\ result # "sent" => Outstanding(k)' = Outstanding(k) /\ n = m
    <3>1. /\ IsFiniteSet(Outstanding(k)') /\ n \in Nat /\ m \in Nat
          /\ (Owes(x, k) <=> Owes(sender[s], k)) => Outstanding(k)' = Outstanding(k)
          /\ ~Owes(x, k) => Outstanding(k)' \subseteq Outstanding(k)
          /\ ~Owes(x, k) /\ Owes(sender[s], k) => n = m + 1
      BY <1>2, <1>3, <1>4, <1>5, <1>7, Recounted
    <3> QED  BY <1>6, <3>1
  <2>2. CASE delivery[k].status = "none"
    <3>1. delivery'[k] = delivery[k] /\ Outstanding(k)' \subseteq Outstanding(k)
      BY <1>1, <1>3, <2>1, <2>2
    <3> QED  BY <1>1, <1>3, <3>1, Untouched
  <2>3. CASE delivery[k].status # "none"
    <3> DEFINE d == delivery[k]
    <3>1. d \in Delivery /\ Budget(d, n) /\ delivery'[k] = a
      BY <1>1, <1>3, <2>3 DEF MessagesInv, DeliveriesOK, DeliveryOK
    <3>2. /\ d.accepted \in Nat /\ d.lost \in Nat /\ d.taken \in Nat
          /\ a.status = d.status /\ a.next = d.next /\ a.attempt = d.attempt /\ a.taken = d.taken
          /\ a.accepted = (IF accepted THEN d.accepted + 1 ELSE d.accepted)
          /\ a.lost = (IF lost THEN d.lost + 1 ELSE d.lost)
      BY <3>1 DEF Delivery
    <3>3. a.accepted \in Nat /\ a.lost \in Nat /\ a.accepted + m + d.lost <= d.accepted + n + a.lost
      <4>1. CASE result = "sent"
        BY <1>1, <2>1, <3>2, <4>1
      <4>2. CASE result # "sent"
        BY <2>1, <3>2, <4>2
      <4> QED  BY <4>1, <4>2
    <3> HIDE DEF a, d, n, m
    <3> DEFINE spare == IF d.next = "never" THEN 1 ELSE 0
    <3>4. spare \in Nat /\ d.accepted + n <= d.lost + d.taken + spare
      BY <3>1 DEF Budget
    <3> HIDE DEF spare
    <3>5. a.accepted + m <= a.lost + a.taken + spare
      BY <2>1, <3>2, <3>3, <3>4
    <3>6. Budget(a, m)
      BY <3>1, <3>2, <3>5 DEF Budget, spare
    <3>7. Budget(delivery[k], Cardinality(Outstanding(k)))'
      BY <3>1, <3>6 DEF m, Budget
    <3> QED  BY <2>1, <2>3, <3>1, <3>2, <3>7 DEF DeliveryOK, d
  <2> QED  BY <2>2, <2>3
<1> QED  BY <1>8, <1>9, <1>10 DEF DeliveriesOK

\* Finishing gives an acceptance that did not come back to the delivery.
LEMMA FinishedMessages ==
  ASSUME IInv, MessagesInv, NEW s \in Senders, Finishes(s),
         NEW w, w = sender[s].result[1], NEW result, result = sender[s].result[2]
  PROVE  SendersOK' /\ DeliveriesOK'
<1> DEFINE k == w[1]
           x == [works |-> sender[s].works \ {w}, result |-> Nobody]
<1>1. /\ UNCHANGED rule /\ sender[s].result # Nobody
      /\ sender' = [sender EXCEPT ![s] = x]
      /\ delivery' = [delivery EXCEPT ![k] = Outcome(delivery[k], result)]
  BY DEF Finishes, alerts
<1>2. SendersOK /\ sender[s] \in SenderState /\ Consistent(sender[s])
  BY DEF MessagesInv, SendersOK
<1>3. delivery \in [Key -> Delivery] /\ w \in sender[s].works /\ k \in Key
  BY <1>1, <1>2 DEF IInv, Types, SenderState, Works, Consistent
<1>4. x \in SenderState /\ x.works = sender[s].works \ {w} /\ x.result = Nobody
  BY <1>2 DEF SenderState
<1>5. Consistent(x)
  BY <1>2, <1>4 DEF Consistent
<1>6. /\ ~Owes(x, k) /\ (Owes(sender[s], k) <=> result # "sent")
      /\ \A q \in Key : q # k => (Owes(x, q) <=> Owes(sender[s], q))
  <2>1. \A v \in sender[s].works : v[1] = k => v = w
    BY <1>2, <1>3 DEF Consistent
  <2>2. ~Owes(x, k)
    BY <1>4, <2>1 DEF Owes
  <2>3. Owes(sender[s], k) <=> result # "sent"
    BY <1>1, <1>3 DEF Owes
  <2>4. ASSUME NEW q \in Key, q # k PROVE Owes(x, q) <=> Owes(sender[s], q)
    BY <1>4, <2>4 DEF Owes
  <2> QED  BY <2>2, <2>3, <2>4
<1> HIDE DEF x
<1>7. \A q \in Key : IsFiniteSet(Outstanding(q))
  BY DEF MessagesInv, DeliveriesOK, DeliveryOK
<1>8. SendersOK'
  BY <1>1, <1>2, <1>4, <1>5 DEF SendersOK
<1>9. ASSUME NEW q \in Key, q # k PROVE DeliveryOK(q)'
  <2>1. Outstanding(q)' = Outstanding(q)
    BY <1>1, <1>2, <1>4, <1>5, <1>6, <1>7, <1>9, Recounted
  <2>2. delivery'[q] = delivery[q]
    BY <1>1, <1>3, <1>9
  <2> QED  BY <1>1, <2>1, <2>2, Untouched
<1>10. DeliveryOK(k)'
  <2> DEFINE n == Cardinality(Outstanding(k))
             m == Cardinality(Outstanding(k)')
             d == delivery[k]
  <2>1. /\ IsFiniteSet(Outstanding(k)') /\ n \in Nat /\ m \in Nat
        /\ Outstanding(k)' \subseteq Outstanding(k) /\ m <= n
        /\ result # "sent" => n = m + 1
    BY <1>1, <1>2, <1>3, <1>4, <1>5, <1>6, <1>7, Recounted
  <2>2. d \in Delivery /\ delivery'[k] = Outcome(d, result)
    BY <1>1, <1>3
  <2>3. CASE d.status = "none"
    <3>1. delivery'[k] = delivery[k]
      BY <2>2, <2>3 DEF Outcome
    <3> QED  BY <1>1, <1>3, <2>1, <3>1, Untouched
  <2>4. CASE d.status # "none"
    <3>1. Budget(d, n)
      BY <1>3, <2>4 DEF MessagesInv, DeliveriesOK, DeliveryOK
    <3> HIDE DEF d, n, m
    <3>2. Budget(Outcome(d, result), m)
      <4>1. CASE result = "sent"
        <5>1. Budget(d, m)
          BY <2>1, <2>2, <3>1, BudgetLeft
        <5> QED  BY <2>1, <2>2, <2>4, <4>1, <5>1, OutcomeBudget
      <4>2. CASE result # "sent"
        BY <2>1, <2>2, <2>4, <3>1, <4>2, OutcomeBudget
      <4> QED  BY <4>1, <4>2
    <3>3. Outcome(d, result).status # "none"
      BY <2>2, <2>4, OutcomeOK
    <3>4. Budget(delivery[k], Cardinality(Outstanding(k)))'
      BY <2>2, <3>2 DEF m, Budget
    <3> QED  BY <2>1, <2>2, <3>3, <3>4 DEF DeliveryOK
  <2> QED  BY <2>3, <2>4
<1> QED  BY <1>8, <1>9, <1>10 DEF DeliveriesOK

LEMMA NextMessages == ASSUME IInv, MessagesInv, [Next]_vars PROVE MessagesInv'
<1>1. RulesOK' /\ RulesStayDeleted
  BY RulesEvolve DEF MessagesInv
<1>2. SendersOK' /\ DeliveriesOK'
  <2>1. CASE \E u \in Rules : DeleteRule(u)
    BY <1>1, <2>1, DeletedMessages
  <2>2. CASE \E e \in Evaluators : CommitsEvents(e)
    BY <1>1, <2>2, CommittedMessages
  <2>3. CASE \E k \in Key : BecomesDue(k) \/ BecomesStale(k)
    BY <2>3, TimedMessages
  <2>4. CASE \E s \in Senders : Delivering(s) \/ SenderFails(s)
    BY <2>4, ClaimedMessages, SentMessages, FinishedMessages, FailedMessages DEF Delivering
  <2>5. CASE \/ \E r \in Runs : Succeeds(r) \/ FailsLate(r)
             \/ \E u \in Rules : CreateRule(u)
             \/ \E u \in Rules, state \in {"on", "off"} : UpdateRule(u, state)
             \/ \E c \in Channels : UpdateChannel(c)
             \/ \E e \in Evaluators : (Evaluating(e) /\ ~CommitsEvents(e)) \/ EvaluationFails(e)
             \/ \E u \in Rules, r \in Runs : CooldownEnds(u, r)
             \/ UNCHANGED vars
    <3>1. UNCHANGED <<delivery, sender>>
      BY <2>5
      DEF Succeeds, FailsLate, CreateRule, UpdateRule, UpdateChannel, Evaluating, EvaluationFails,
          SelectsRuns, InsertFails, SkipsRun, Evaluates, CooldownEnds, vars
    <3> QED  BY <1>1, <3>1, QuietMessages
  <2> QED  BY <2>1, <2>2, <2>3, <2>4, <2>5 DEF Next
<1> QED  BY <1>1, <1>2 DEF MessagesInv

\* Each sender that may still bring an acceptance about is covered by the budget of
\* its delivery, in attempts and in acceptances, for every number of senders.
THEOREM MessagesAreCounted == Spec => []MessagesInv
<1>1. IInv /\ MessagesInv /\ [Next]_vars => MessagesInv'
  BY NextMessages
<1> QED  BY InitMessages, <1>1, Invariance, PTL DEF Spec

\* A message is accepted twice only if an answer was lost or a claim took the
\* delivery over; and only take-overs exceed the attempts.
THEOREM RepeatsHaveReasons == Spec => []RepeatsNeedTrouble
<1>1. IInv /\ MessagesInv => RepeatsNeedTrouble
  <2> SUFFICES ASSUME IInv, MessagesInv, NEW k \in Key
               PROVE  /\ delivery[k].accepted <= 1 + delivery[k].lost + delivery[k].taken
                      /\ delivery[k].attempt <= MaxAttempts + delivery[k].taken
    BY DEF RepeatsNeedTrouble
  <2>1. delivery[k] \in Delivery /\ DeliveryOK(k)
    BY DEF IInv, Types, MessagesInv, DeliveriesOK
  <2>2. CASE delivery[k].status = "none"
    BY <2>1, <2>2, Limits DEF DeliveryOK, NoDelivery
  <2>3. CASE delivery[k].status # "none"
    <3>1. Cardinality(Outstanding(k)) \in Nat
      BY <2>1, Counted DEF DeliveryOK
    <3>2. Budget(delivery[k], Cardinality(Outstanding(k)))
      BY <2>1, <2>3 DEF DeliveryOK
    <3>3. Budget(delivery[k], 0)
      BY <2>1, <3>1, <3>2, BudgetLeft
    <3> QED  BY <2>1, <3>3 DEF Budget, Delivery
  <2> QED  BY <2>2, <2>3
<1> QED  BY Invariance, MessagesAreCounted, <1>1, PTL

----------------------------------------------------------------------------
(***************************************************************************)
(* The schedule.  A channel opens at a boundary of its calendar (midnight, *)
(* or the end of its quiet hours), at the end of a gap that swallowed one, *)
(* or when the clock is set back, and then into time that it repeats.      *)
(* Each of the others is a candidate of next_delivery_at if it lies in the *)
(* fifteen days that are searched; if it lies beyond, there is an earlier  *)
(* one, because every weekday comes twice in them and only one of the two  *)
(* can fall into a gap.                                                    *)
(***************************************************************************)
(* The calendar.                                                           *)
LEMMA Lengths ==
  /\ DayLength \in Nat \ {0} /\ Week \in Nat \ {0} /\ Week <= 7
  /\ \A weekdays \in WeekdaySets : weekdays # {} /\ weekdays \subseteq 0..(Week - 1)
<1>1. DayLength \in Nat \ {0} /\ Week \in Nat \ {0} /\ Week <= 7
  BY DeliveryScheduleAssumption
<1>2. \A weekdays \in WeekdaySets : weekdays # {} /\ weekdays \subseteq 0..(Week - 1)
  BY DeliveryScheduleAssumption
<1> QED  BY <1>1, <1>2

LEMMA Divides ==
  ASSUME NEW a \in Int, NEW l \in Nat \ {0}
  PROVE  \E q \in Int, r \in 0..(l - 1) : q = a \div l /\ r = a % l /\ a = q * l + r
<1>1. a \div l \in Int /\ a % l \in 0..(l - 1)
  OBVIOUS
<1>2. a % l = a - (a \div l) * l
  OBVIOUS
<1>3. PICK q \in Int, r \in 0..(l - 1) : q = a \div l /\ r = a % l
  BY <1>1
<1>4. PICK m \in Int : m = q * l
  OBVIOUS
<1>5. r = a - m
  BY <1>2, <1>3, <1>4
<1>6. a = m + r
  BY <1>5
<1> QED  BY <1>3, <1>4, <1>6

LEMMA DividesOnce ==
  ASSUME NEW l \in Nat \ {0}, NEW p \in Int, NEW q \in Int, NEW r \in 0..(l - 1), NEW s \in 0..(l - 1),
         p * l + r = q * l + s
  PROVE  p = q /\ r = s
<1>1. ASSUME NEW x \in Int, NEW y \in Int, NEW a \in 0..(l - 1), NEW b \in 0..(l - 1),
             x * l + a = y * l + b, x < y
      PROVE  FALSE
  <2>1. (x + 1) * l <= y * l /\ (x + 1) * l = x * l + l
    BY <1>1
  <2> QED  BY <1>1, <2>1
<1>2. ~(p < q) /\ ~(q < p)
  BY <1>1
<1>3. p = q
  BY <1>2
<1> QED  BY <1>3

LEMMA DayIs ==
  ASSUME NEW d \in Int, NEW b \in 0..(DayLength - 1)
  PROVE  /\ d * DayLength + b \in Int
         /\ Day(d * DayLength + b) = d /\ TimeOfDay(d * DayLength + b) = b
<1> PICK w : w = d * DayLength + b
  OBVIOUS
<1>1. w \in Int
  BY Lengths
<1>2. PICK q \in Int, r \in 0..(DayLength - 1) :
        q = w \div DayLength /\ r = w % DayLength /\ w = q * DayLength + r
  BY <1>1, Divides, Lengths
<1>3. q = d /\ r = b
  BY <1>2, DividesOnce, Lengths
<1> QED  BY <1>1, <1>2, <1>3 DEF Day, TimeOfDay

LEMMA Calendar ==
  ASSUME NEW w \in Int
  PROVE  /\ Day(w) \in Int /\ TimeOfDay(w) \in 0..(DayLength - 1)
         /\ w = Day(w) * DayLength + TimeOfDay(w)
<1>1. PICK q \in Int, r \in 0..(DayLength - 1) :
        q = w \div DayLength /\ r = w % DayLength /\ w = q * DayLength + r
  BY Divides, Lengths
<1>2. Day(w) = q /\ TimeOfDay(w) = r
  BY <1>1 DEF Day, TimeOfDay
<1> QED  BY <1>1, <1>2

LEMMA DaysInOrder ==
  ASSUME NEW v \in Int, NEW w \in Int
  PROVE  /\ v <= w => Day(v) <= Day(w)
         /\ Day(v) < Day(w) => v < w
<1>1. ASSUME NEW x \in Int, NEW y \in Int, Day(x) < Day(y) PROVE x < y
  <2>1. PICK p \in Int, q \in Int : p = Day(x) /\ q = Day(y)
    BY Calendar
  <2>2. (p + 1) * DayLength <= q * DayLength /\ (p + 1) * DayLength = p * DayLength + DayLength
    BY <1>1, <2>1, Lengths
  <2>3. p * DayLength \in Int /\ q * DayLength \in Int
    BY Lengths
  <2>4. PICK a \in 0..(DayLength - 1), b \in 0..(DayLength - 1) :
          x = p * DayLength + a /\ y = q * DayLength + b
    BY <2>1, Calendar
  <2> QED  BY <2>2, <2>3, <2>4, Lengths
<1> QED  BY <1>1, Calendar

\* A moment later it is the same day, or midnight.
LEMMA NextMoment ==
  ASSUME NEW w \in Int
  PROVE  \/ TimeOfDay(w + 1) = 0
         \/ Day(w + 1) = Day(w) /\ TimeOfDay(w + 1) = TimeOfDay(w) + 1
<1>1. PICK d \in Int, b \in 0..(DayLength - 1) : d = Day(w) /\ b = TimeOfDay(w) /\ w = d * DayLength + b
  BY Calendar
<1>2. CASE b = DayLength - 1
  <2>1. w + 1 = (d + 1) * DayLength + 0
    BY <1>1, <1>2, Lengths
  <2>2. d + 1 \in Int /\ 0 \in 0..(DayLength - 1)
    BY Lengths
  <2>3. TimeOfDay((d + 1) * DayLength + 0) = 0
    BY <2>2, DayIs
  <2> QED  BY <2>1, <2>3
<1>3. CASE b # DayLength - 1
  <2>1. w + 1 = d * DayLength + (b + 1) /\ b + 1 \in 0..(DayLength - 1)
    BY <1>1, <1>3, Lengths
  <2> QED  BY <1>1, <2>1, DayIs
<1> QED  BY <1>2, <1>3

\* Every weekday comes within a week, and again a week later.
LEMMA WeekdayComes ==
  ASSUME NEW d \in Int, NEW weekday \in 0..(Week - 1)
  PROVE  \E offset \in 1..Week : (d + offset) % Week = weekday /\ (d + offset + Week) % Week = weekday
<1>1. PICK q \in Int, r \in 0..(Week - 1) : weekday - d - 1 = q * Week + r
  <2>1. weekday - d - 1 \in Int /\ weekday \in Int
    BY Lengths
  <2> QED  BY <2>1, Divides, Lengths
<1>2. ASSUME NEW k \in Int, NEW x \in Int, x = k * Week + weekday PROVE x % Week = weekday
  <2>1. PICK p \in Int, s \in 0..(Week - 1) : s = x % Week /\ x = p * Week + s
    BY Divides, Lengths
  <2> QED  BY <1>2, <2>1, DividesOnce, Lengths
<1>3. d + (r + 1) = (-q) * Week + weekday /\ d + (r + 1) + Week = (1 - q) * Week + weekday
  <2>1. q * Week \in Int /\ (-q) * Week = -(q * Week) /\ (1 - q) * Week = Week - q * Week
    BY Lengths
  <2> QED  BY <1>1, <2>1, Lengths
<1>4. (d + (r + 1)) % Week = weekday /\ (d + (r + 1) + Week) % Week = weekday
  BY <1>2, <1>3, Lengths
<1>5. r + 1 \in 1..Week
  BY Lengths
<1> QED  BY <1>4, <1>5

(* Quiet hours and weekdays.                                               *)
LEMMA QuietTimes ==
  ASSUME NEW quiet \in QuietHours
  PROVE  quiet # NoQuiet =>
           /\ quiet.from \in 0..(DayLength - 1) /\ quiet.to \in 0..(DayLength - 1)
           /\ quiet.from # quiet.to
BY DeliveryScheduleAssumption

LEMMA BoundaryTimes ==
  ASSUME NEW quiet \in QuietHours PROVE Boundaries(quiet) \subseteq 0..(DayLength - 1)
BY QuietTimes, Lengths DEF Boundaries

\* The channel opens at a boundary.
LEMMA OpensAtBoundary ==
  ASSUME NEW quiet \in QuietHours, NEW weekdays, NEW w \in Int,
         ~AllowedLocal(w, quiet, weekdays), AllowedLocal(w + 1, quiet, weekdays)
  PROVE  TimeOfDay(w + 1) \in Boundaries(quiet)
<1>1. CASE TimeOfDay(w + 1) = 0
  BY <1>1 DEF Boundaries
<1>2. CASE Day(w + 1) = Day(w) /\ TimeOfDay(w + 1) = TimeOfDay(w) + 1
  <2>1. InQuietHours(TimeOfDay(w), quiet) /\ ~InQuietHours(TimeOfDay(w) + 1, quiet)
    BY <1>2 DEF AllowedLocal, Weekday
  <2>2. quiet # NoQuiet
    BY <2>1 DEF InQuietHours
  <2>3. PICK b \in 0..(DayLength - 1) : b = TimeOfDay(w)
    BY Calendar
  <2>4. b + 1 = quiet.to \/ b + 1 = DayLength
    BY <2>1, <2>2, <2>3, QuietTimes DEF InQuietHours
  <2>5. TimeOfDay(w + 1) \in 0..(DayLength - 1)
    BY Calendar
  <2>6. b + 1 = quiet.to
    BY <1>2, <2>3, <2>4, <2>5, Lengths
  <2> QED  BY <1>2, <2>2, <2>3, <2>6 DEF Boundaries
<1> QED  BY <1>1, <1>2, NextMoment

\* Every day has a boundary that is not quiet.
LEMMA OpenBoundary ==
  ASSUME NEW quiet \in QuietHours PROVE \E b \in Boundaries(quiet) : ~InQuietHours(b, quiet)
<1>1. CASE quiet = NoQuiet
  BY <1>1 DEF Boundaries, InQuietHours
<1>2. CASE quiet # NoQuiet
  <2>1. ~InQuietHours(quiet.to, quiet)
    BY <1>2, QuietTimes DEF InQuietHours
  <2> QED  BY <1>2, <2>1 DEF Boundaries
<1> QED  BY <1>1, <1>2

(* The clock of a zone.                                                    *)
LEMMA ZoneOK ==
  ASSUME NEW zone \in Zones
  PROVE  /\ zone.at \in Int /\ zone.before \in Int /\ zone.after \in Int
         /\ zone.after - zone.before <= DayLength /\ zone.before - zone.after <= DayLength
<1>1. zone.at \in Int /\ zone.before \in Int /\ zone.after \in Int
  BY DeliveryScheduleAssumption
<1>2. zone.after - zone.before \in (-DayLength)..DayLength
  BY DeliveryScheduleAssumption
<1> QED  BY <1>1, <1>2, Lengths

LEMMA Clock ==
  ASSUME NEW zone \in Zones, NEW t \in Int
  PROVE  /\ Wall(t, zone) \in Int
         /\ t < zone.at => Wall(t, zone) = t + zone.before
         /\ t >= zone.at => Wall(t, zone) = t + zone.after
BY ZoneOK DEF Wall

LEMMA Shown ==
  ASSUME NEW zone \in Zones, NEW w \in Int
  PROVE  /\ Instants(w, zone) \subseteq Int
         /\ \A t \in Instants(w, zone) : Wall(t, zone) = w
         /\ \A t \in Int : Wall(t, zone) = w => t \in Instants(w, zone)
         /\ Instants(w, zone) = {} <=> w >= zone.at + zone.before /\ w < zone.at + zone.after
<1>1. \A t : t \in Instants(w, zone) <=> t \in {w - zone.before, w - zone.after} /\ Wall(t, zone) = w
  BY DEF Instants
<1>2. w - zone.before \in Int /\ w - zone.after \in Int
  BY ZoneOK
<1>3. Instants(w, zone) \subseteq Int /\ \A t \in Instants(w, zone) : Wall(t, zone) = w
  BY <1>1, <1>2
<1>4. \A t \in Int : Wall(t, zone) = w => t \in Instants(w, zone)
  BY <1>1, Clock, ZoneOK
<1>5. w < zone.at + zone.before \/ w >= zone.at + zone.after => Instants(w, zone) # {}
  <2>1. w < zone.at + zone.before => w - zone.before \in Instants(w, zone)
    BY <1>1, <1>2, Clock, ZoneOK
  <2>2. w >= zone.at + zone.after => w - zone.after \in Instants(w, zone)
    BY <1>1, <1>2, Clock, ZoneOK
  <2> QED  BY <2>1, <2>2
<1>6. \A t \in Instants(w, zone) : w < zone.at + zone.before \/ w >= zone.at + zone.after
  BY <1>3, Clock, ZoneOK
<1> QED  BY <1>3, <1>4, <1>5, <1>6, ZoneOK

LEMMA Resolved ==
  ASSUME NEW zone \in Zones, NEW w \in Int, NEW x \in Int, w <= x, x <= w + 3 * DayLength,
         Instants(x, zone) # {}, \A v \in w..(x - 1) : Instants(v, zone) = {}
  PROVE  ResolvedAtOrAfter(w, zone) = Instants(x, zone)
<1> PICK W : W = {v \in w..(w + 3 * DayLength) : Instants(v, zone) # {}}
  OBVIOUS
<1>1. x \in W /\ W \subseteq Int /\ \A v \in W : x <= v
  BY Lengths
<1>2. Min(W) = x
  BY <1>1 DEF Min
<1> QED  BY <1>2 DEF ResolvedAtOrAfter

(* The moments that next_delivery_at looks at.                             *)
Ahead(w, t, zone) == Day(w) - Day(Wall(t, zone))

LEMMA IsCandidate ==
  ASSUME NEW zone \in Zones, NEW quiet \in QuietHours, NEW weekdays, NEW t \in Int,
         NEW w \in Int, Ahead(w, t, zone) \in 0..14, TimeOfDay(w) \in Boundaries(quiet),
         NEW c \in ResolvedAtOrAfter(w, zone), c >= t, Allowed(c, zone, quiet, weekdays)
  PROVE  c \in Candidates(t, zone, quiet, weekdays)
<1>1. PICK today \in Int, offset \in 0..14, b \in Boundaries(quiet) :
        /\ today = Day(Wall(t, zone)) /\ offset = Ahead(w, t, zone) /\ b = TimeOfDay(w)
        /\ Day(w) = today + offset
  <2>1. Day(w) \in Int /\ Day(Wall(t, zone)) \in Int
    BY Clock, Calendar
  <2> QED  BY <2>1 DEF Ahead
<1>2. w = (today + offset) * DayLength + b
  BY <1>1, Calendar
<1> QED  BY <1>1, <1>2 DEF Candidates

LEMMA CandidatesOK ==
  ASSUME NEW zone \in Zones, NEW quiet \in QuietHours, NEW weekdays, NEW t \in Int,
         NEW c \in Candidates(t, zone, quiet, weekdays)
  PROVE  c \in Int /\ c >= t /\ Allowed(c, zone, quiet, weekdays)
<1>1. PICK offset \in 0..14, b \in Boundaries(quiet) :
        c \in ResolvedAtOrAfter((Day(Wall(t, zone)) + offset) * DayLength + b, zone)
  BY DEF Candidates
<1>2. PICK w \in Int : w = (Day(Wall(t, zone)) + offset) * DayLength + b
  <2>1. Day(Wall(t, zone)) + offset \in Int /\ b \in 0..(DayLength - 1)
    BY Clock, Calendar, BoundaryTimes
  <2> QED  BY <2>1, DayIs
<1>3. CASE Instants(w, zone) # {}
  <2>1. w <= w + 3 * DayLength /\ w..(w - 1) = {}
    BY Lengths
  <2> QED  BY <1>1, <1>2, <1>3, <2>1, Resolved, Shown DEF Candidates
<1>4. CASE Instants(w, zone) = {}
  <2> PICK x \in Int : x = zone.at + zone.after
    BY ZoneOK
  <2>1. w <= x /\ x <= w + 3 * DayLength /\ Instants(x, zone) # {}
    BY <1>4, Shown, ZoneOK, Lengths
  <2>2. ASSUME NEW v \in w..(x - 1) PROVE Instants(v, zone) = {}
    <3>1. w >= zone.at + zone.before
      BY <1>4, Shown, ZoneOK
    <3>2. v \in Int /\ v >= zone.at + zone.before /\ v < zone.at + zone.after
      BY <3>1, ZoneOK
    <3> QED  BY <3>2, Shown
  <2> QED  BY <1>1, <1>2, <2>1, <2>2, Resolved, Shown DEF Candidates
<1> QED  BY <1>3, <1>4

\* Within fifteen days there is a boundary that is open and that the clock shows.
LEMMA OpenWall ==
  ASSUME NEW zone \in Zones, NEW quiet \in QuietHours, NEW weekdays \in WeekdaySets, NEW t \in Int
  PROVE  \E w \in Int :
           /\ Ahead(w, t, zone) \in 1..14 /\ TimeOfDay(w) \in Boundaries(quiet)
           /\ AllowedLocal(w, quiet, weekdays) /\ Instants(w, zone) # {}
<1>1. PICK today \in Int : today = Day(Wall(t, zone))
  BY Clock, Calendar
<1>2. PICK b \in Boundaries(quiet) : b \in 0..(DayLength - 1) /\ ~InQuietHours(b, quiet)
  BY OpenBoundary, BoundaryTimes
<1>3. PICK weekday \in weekdays : weekday \in 0..(Week - 1)
  BY Lengths
<1>4. PICK offset \in 1..Week :
        (today + offset) % Week \in weekdays /\ (today + offset + Week) % Week \in weekdays
  BY <1>3, WeekdayComes
<1>5. ASSUME NEW d \in Int, d % Week \in weekdays
      PROVE  /\ d * DayLength + b \in Int /\ Day(d * DayLength + b) = d
             /\ TimeOfDay(d * DayLength + b) \in Boundaries(quiet)
             /\ AllowedLocal(d * DayLength + b, quiet, weekdays)
  BY <1>2, <1>5, DayIs DEF AllowedLocal, Weekday
<1>6. offset \in 1..14 /\ offset + Week \in 1..14
  BY Lengths
<1> PICK v, w : v = (today + offset) * DayLength + b /\ w = (today + offset + Week) * DayLength + b
  OBVIOUS
<1>7. /\ v \in Int /\ Ahead(v, t, zone) \in 1..14 /\ TimeOfDay(v) \in Boundaries(quiet)
      /\ AllowedLocal(v, quiet, weekdays)
  <2>1. today + offset \in Int
    OBVIOUS
  <2> QED  BY <1>1, <1>4, <1>5, <1>6, <2>1 DEF Ahead
<1>8. /\ w \in Int /\ Ahead(w, t, zone) \in 1..14 /\ TimeOfDay(w) \in Boundaries(quiet)
      /\ AllowedLocal(w, quiet, weekdays)
  <2>1. today + offset + Week \in Int
    BY Lengths
  <2> QED  BY <1>1, <1>4, <1>5, <1>6, <2>1, Lengths DEF Ahead
<1>9. w >= v + DayLength
  <2>1. PICK d \in Int : d = today + offset
    OBVIOUS
  <2>2. (d + Week) * DayLength >= (d + 1) * DayLength /\ (d + 1) * DayLength = d * DayLength + DayLength
    BY Lengths
  <2>3. d * DayLength \in Int /\ (d + Week) * DayLength \in Int
    BY Lengths
  <2> QED  BY <1>2, <2>1, <2>2, <2>3, Lengths
<1>10. Instants(v, zone) # {} \/ Instants(w, zone) # {}
  BY <1>7, <1>8, <1>9, Shown, ZoneOK, Lengths
<1> QED  BY <1>7, <1>8, <1>10

LEMMA Smallest ==
  ASSUME NEW T \in SUBSET Nat, T # {} PROVE \E m \in T : \A n \in T : m <= n
<1> DEFINE less == {ss \in Nat \X Nat : ss[1] < ss[2]}
<1>1. IsWellFoundedOn(less, Nat)
  BY NatLessThanWellFounded DEF OpToRel
<1>2. PICK m \in T : \A n \in T : <<n, m>> \notin less
  BY <1>1, WFMin
<1>3. ASSUME NEW n \in T PROVE m <= n
  <2>1. <<n, m>> \notin less /\ n \in Nat /\ m \in Nat
    BY <1>2
  <2>2. ~(n < m)
    BY <2>1
  <2> QED  BY <2>1, <2>2
<1> QED  BY <1>3


\* A wall-clock time that is shown is its own resolution.
LEMMA ShownIsResolved ==
  ASSUME NEW zone \in Zones, NEW w \in Int, NEW c \in Int, Wall(c, zone) = w
  PROVE  c \in ResolvedAtOrAfter(w, zone)
<1>1. c \in Instants(w, zone)
  BY Shown
<1>2. w <= w + 3 * DayLength /\ w..(w - 1) = {}
  BY Lengths
<1> QED  BY <1>1, <1>2, Resolved

\* There is a candidate, which lies before each boundary further ahead.
LEMMA CandidateInReach ==
  ASSUME NEW zone \in Zones, NEW quiet \in QuietHours, NEW weekdays \in WeekdaySets, NEW t \in Int
  PROVE  \E c \in Candidates(t, zone, quiet, weekdays) :
           \A u \in Int, w \in Int :
             t < u /\ w <= Wall(u, zone) /\ Ahead(w, t, zone) > 14 => c <= u
<1>1. PICK x \in Int :
        /\ Ahead(x, t, zone) \in 1..14 /\ TimeOfDay(x) \in Boundaries(quiet)
        /\ AllowedLocal(x, quiet, weekdays) /\ Instants(x, zone) # {}
  BY OpenWall
<1>2. PICK p \in Int : p = Wall(t, zone)
  BY Clock
<1>3. p < x
  <2>1. Day(p) \in Int /\ Day(x) \in Int /\ Day(x) - Day(p) \in 1..14
    BY <1>1, <1>2, Calendar DEF Ahead
  <2> QED  BY <2>1, DaysInOrder
<1>4. ASSUME NEW w \in Int, Ahead(w, t, zone) > 14 PROVE x < w
  <2>1. Day(p) \in Int /\ Day(x) \in Int /\ Day(w) \in Int /\ Day(x) - Day(p) \in 1..14 /\ Day(w) - Day(p) > 14
    BY <1>1, <1>2, <1>4, Calendar DEF Ahead
  <2> QED  BY <2>1, DaysInOrder
<1>5. x < zone.at + zone.before \/ x >= zone.at + zone.after
  BY <1>1, Shown, ZoneOK
<1>6. ASSUME NEW c \in Int, Wall(c, zone) = x, c >= t
      PROVE  c \in Candidates(t, zone, quiet, weekdays)
  <2>1. c \in ResolvedAtOrAfter(x, zone) /\ Allowed(c, zone, quiet, weekdays)
    BY <1>1, <1>6, ShownIsResolved DEF Allowed
  <2> QED  BY <1>1, <1>6, <2>1, IsCandidate
<1>7. CASE t < zone.at /\ x < zone.at + zone.before
  <2> PICK c \in Int : c = x - zone.before
    BY ZoneOK
  <2>1. t <= c /\ c < zone.at /\ Wall(c, zone) = x
    BY <1>2, <1>3, <1>7, Clock, ZoneOK
  <2>2. ASSUME NEW u \in Int, NEW w \in Int, t < u, w <= Wall(u, zone), Ahead(w, t, zone) > 14 PROVE c <= u
    <3>1. x < w /\ Wall(u, zone) \in Int
      BY <1>4, <2>2, Clock
    <3> QED  BY <2>1, <2>2, <3>1, Clock, ZoneOK
  <2> QED  BY <1>6, <2>1, <2>2
<1>8. CASE t >= zone.at \/ x >= zone.at + zone.before
  <2> PICK c \in Int : c = x - zone.after
    BY ZoneOK
  <2>1. t <= c /\ zone.at <= c /\ Wall(c, zone) = x
    BY <1>2, <1>3, <1>5, <1>8, Clock, ZoneOK
  <2>2. ASSUME NEW u \in Int, NEW w \in Int, t < u, w <= Wall(u, zone), Ahead(w, t, zone) > 14 PROVE c <= u
    <3>1. x < w /\ Wall(u, zone) \in Int
      BY <1>4, <2>2, Clock
    <3> QED  BY <2>1, <2>2, <3>1, <1>8, Clock, ZoneOK
  <2> QED  BY <1>6, <2>1, <2>2
<1> QED  BY <1>7, <1>8, ZoneOK

\* Between a closed and an open time there is one at which it opens.
LEMMA OpeningBetween ==
  ASSUME NEW O, NEW a \in Int, NEW b \in Int, a < b, a \notin O, b \in O
  PROVE  \E x \in (a + 1)..b : x \in O /\ x - 1 \notin O
<1> PICK T : T = {n \in Nat : a + n \in O}
  OBVIOUS
<1>1. T \in SUBSET Nat /\ b - a \in T
  OBVIOUS
<1>2. PICK m \in T : \A n \in T : m <= n
  BY <1>1, Smallest
<1>3. m \in Nat /\ m <= b - a /\ m - 1 \notin T /\ m # 0
  BY <1>1, <1>2
<1>4. a + m \in O /\ (a + m) - 1 \notin O
  BY <1>2, <1>3
<1> QED  BY <1>3, <1>4

\* And one from which on it is open until then.
LEMMA OpenSince ==
  ASSUME NEW O, NEW a \in Int, NEW b \in Int, a < b, a \notin O, b \in O
  PROVE  \E x \in (a + 1)..b : x - 1 \notin O /\ \A y \in x..b : y \in O
<1> PICK T : T = {n \in Nat : b - n \notin O}
  OBVIOUS
<1>1. T \in SUBSET Nat /\ b - a \in T
  OBVIOUS
<1>2. PICK m \in T : \A n \in T : m <= n
  BY <1>1, Smallest
<1>3. m \in Nat /\ m <= b - a /\ m # 0 /\ b - m \notin O
  BY <1>1, <1>2
<1>4. ASSUME NEW y \in (b - m + 1)..b PROVE y \in O
  <2>1. PICK n \in Nat : n = b - y /\ n < m /\ b - n = y
    BY <1>3
  <2>2. n \notin T
    BY <1>2, <1>3, <2>1
  <2> QED  BY <2>1, <2>2
<1> PICK x \in Int : x = b - m + 1
  BY <1>3
<1>5. x \in (a + 1)..b /\ x - 1 = b - m
  BY <1>3
<1> QED  BY <1>3, <1>4, <1>5

LEMMA NothingIsMissed ==
  ASSUME NEW zone \in Zones, NEW quiet \in QuietHours, NEW weekdays \in WeekdaySets,
         NEW t \in Int, NEW v \in Int, t < v,
         ~Allowed(t, zone, quiet, weekdays), Allowed(v, zone, quiet, weekdays), ~Repeated(v, zone)
  PROVE  \E c \in Candidates(t, zone, quiet, weekdays) : c <= v
<1> PICK open : open = {x \in Int : Allowed(x, zone, quiet, weekdays)}
  OBVIOUS
<1> PICK shown : shown = {w \in Int : AllowedLocal(w, quiet, weekdays)}
  OBVIOUS
<1>1. \A x \in Int : x \in open <=> Wall(x, zone) \in shown
  BY Clock DEF Allowed
<1>2. PICK u \in (t + 1)..v : u - 1 \notin open /\ \A x \in u..v : x \in open
  BY OpenSince
<1>3. v < zone.at \/ v >= zone.at + zone.before - zone.after
  BY ZoneOK DEF Repeated
<1>4. ASSUME NEW w \in Int, w - 1 \notin shown, w \in shown PROVE TimeOfDay(w) \in Boundaries(quiet)
  <2>1. w - 1 \in Int /\ (w - 1) + 1 = w
    OBVIOUS
  <2> QED  BY <1>4, <2>1, OpensAtBoundary
<1>5. \E w \in Int :
        /\ TimeOfDay(w) \in Boundaries(quiet) /\ u \in ResolvedAtOrAfter(w, zone)
        /\ w <= Wall(u, zone) /\ w >= Wall(t, zone)
  <2>1. CASE u # zone.at \/ zone.before = zone.after
    <3> PICK w \in Int : w = Wall(u, zone)
      BY Clock
    <3>1. Wall(u - 1, zone) = w - 1
      <4> PICK x \in Int : x = u - 1
        OBVIOUS
      <4>1. u \in Int /\ u = x + 1
        OBVIOUS
      <4>2. CASE u < zone.at
        <5>1. x < zone.at
          BY <4>1, <4>2, ZoneOK
        <5>2. Wall(x, zone) = x + zone.before /\ Wall(u, zone) = u + zone.before
          BY <4>1, <4>2, <5>1, Clock
        <5>3. Wall(x, zone) = w - 1
          BY <4>1, <5>2, ZoneOK
        <5> QED  BY <4>1, <5>3
      <4>3. CASE u > zone.at
        BY <4>1, <4>3, Clock, ZoneOK
      <4>4. CASE u = zone.at
        BY <2>1, <4>1, <4>4, Clock, ZoneOK
      <4> QED  BY <4>1, <4>2, <4>3, <4>4, ZoneOK
    <3>2. TimeOfDay(w) \in Boundaries(quiet)
      BY <1>1, <1>2, <1>4, <3>1
    <3>3. u \in ResolvedAtOrAfter(w, zone)
      BY ShownIsResolved
    <3>4. ASSUME w < Wall(t, zone) PROVE FALSE
      <4>1. t < zone.at /\ zone.at <= u /\ u + zone.after < t + zone.before
        BY <3>4, Clock, ZoneOK
      <4> PICK y \in Int : y = t + zone.before - zone.after
        BY ZoneOK
      <4>2. y \in u..v /\ Wall(y, zone) = Wall(t, zone)
        BY <1>2, <1>3, <4>1, Clock, ZoneOK
      <4> QED  BY <1>1, <1>2, <4>2 DEF Allowed
    <3> QED  BY <3>2, <3>3, <3>4, Clock
  <2>2. CASE u = zone.at /\ zone.before < zone.after
    <3> PICK a \in Int, b \in Int : a = zone.at + zone.before - 1 /\ b = zone.at + zone.after
      BY ZoneOK
    <3>1. a = Wall(u - 1, zone) /\ b = Wall(u, zone) /\ a < b
      BY <2>2, Clock, ZoneOK
    <3>2. PICK w \in (a + 1)..b : w \in shown /\ w - 1 \notin shown
      <4>1. a \notin shown /\ b \in shown
        BY <1>1, <1>2, <3>1
      <4> QED  BY <3>1, <4>1, OpeningBetween
    <3>3. /\ u \in Instants(b, zone) /\ w <= b /\ b <= w + 3 * DayLength
          /\ \A x \in w..(b - 1) : Instants(x, zone) = {}
      <4>1. u \in Instants(b, zone)
        BY <3>1, Shown
      <4>2. w <= b /\ b <= w + 3 * DayLength
        BY ZoneOK, Lengths
      <4>3. ASSUME NEW x \in w..(b - 1) PROVE Instants(x, zone) = {}
        BY ZoneOK, Shown
      <4> QED  BY <4>1, <4>2, <4>3
    <3>4. u \in ResolvedAtOrAfter(w, zone)
      BY <3>3, Resolved
    <3>5. w >= Wall(t, zone)
      BY <2>2, Clock, ZoneOK
    <3> QED  BY <1>4, <3>1, <3>2, <3>4, <3>5
  <2>3. CASE u = zone.at /\ zone.before > zone.after
    <3> PICK y \in Int : y = zone.at + zone.before - zone.after - 1
      BY ZoneOK
    <3>1. y \in u..v /\ Wall(y, zone) = Wall(u - 1, zone)
      BY <1>2, <1>3, <2>3, Clock, ZoneOK
    <3> QED  BY <1>1, <1>2, <3>1
  <2> QED  BY <2>1, <2>2, <2>3, ZoneOK
<1>6. PICK w \in Int :
        /\ TimeOfDay(w) \in Boundaries(quiet) /\ u \in ResolvedAtOrAfter(w, zone)
        /\ w <= Wall(u, zone) /\ w >= Wall(t, zone)
  BY <1>5
<1>7. Ahead(w, t, zone) \in Int /\ Ahead(w, t, zone) >= 0
  <2>1. Day(w) \in Int /\ Day(Wall(t, zone)) \in Int /\ Day(Wall(t, zone)) <= Day(w)
    BY <1>6, Clock, Calendar, DaysInOrder
  <2> QED  BY <2>1 DEF Ahead
<1>8. CASE Ahead(w, t, zone) <= 14
  <2>1. u >= t /\ Allowed(u, zone, quiet, weekdays) /\ u <= v
    BY <1>2
  <2> QED  BY <1>6, <1>7, <1>8, <2>1, IsCandidate
<1>9. CASE Ahead(w, t, zone) > 14
  <2>1. PICK c \in Candidates(t, zone, quiet, weekdays) :
          \A x \in Int, y \in Int :
            t < x /\ y <= Wall(x, zone) /\ Ahead(y, t, zone) > 14 => c <= x
    BY CandidateInReach
  <2>2. c <= u /\ u <= v /\ u \in Int
    BY <1>2, <1>6, <1>9, <2>1
  <2>3. c \in Int
    BY CandidatesOK
  <2> QED  BY <2>2, <2>3
<1> QED  BY <1>7, <1>8, <1>9

LEMMA Answered ==
  ASSUME NEW zone \in Zones, NEW quiet \in QuietHours, NEW weekdays \in WeekdaySets, NEW t \in Int
  PROVE  LET next == NextDeliveryAt(t, zone, quiet, weekdays) IN
         /\ next \in Int /\ next >= t /\ Allowed(next, zone, quiet, weekdays)
         /\ \A v \in t..(next - 1) : Allowed(v, zone, quiet, weekdays) => Repeated(v, zone)
<1>1. CASE Allowed(t, zone, quiet, weekdays)
  BY <1>1 DEF NextDeliveryAt
<1>2. CASE ~Allowed(t, zone, quiet, weekdays)
  <2> PICK later : later = Candidates(t, zone, quiet, weekdays)
    OBVIOUS
  <2>1. /\ later \subseteq Int /\ later # {}
        /\ \A c \in later : c >= t /\ Allowed(c, zone, quiet, weekdays)
    BY CandidatesOK, CandidateInReach
  <2>2. PICK next \in later : \A c \in later : next <= c
    <3> PICK T : T = {n \in Nat : t + n \in later}
      OBVIOUS
    <3>1. T \in SUBSET Nat /\ T # {}
      <4>1. PICK c \in later : c - t \in Nat /\ t + (c - t) = c
        BY <2>1
      <4> QED  BY <4>1
    <3>2. PICK m \in T : \A n \in T : m <= n
      BY <3>1, Smallest
    <3>3. ASSUME NEW c \in later PROVE t + m <= c
      BY <2>1, <3>2
    <3> QED  BY <3>2, <3>3
  <2>3. Min(later) = next
    BY <2>1, <2>2 DEF Min
  <2>4. NextDeliveryAt(t, zone, quiet, weekdays) = next
    BY <1>2, <2>1, <2>3 DEF NextDeliveryAt
  <2>5. ASSUME NEW v \in t..(next - 1), Allowed(v, zone, quiet, weekdays), ~Repeated(v, zone) PROVE FALSE
    <3>1. v \in Int /\ t < v /\ v < next
      BY <1>2, <2>1, <2>5
    <3> QED  BY <1>2, <2>1, <2>2, <2>5, <3>1, NothingIsMissed
  <2> QED  BY <2>1, <2>2, <2>4, <2>5
<1> QED  BY <1>1, <1>2

\* next_delivery_at finds the first open moment of every question: over midnight, closed
\* weekdays and a jump of the clock either way, except for time that a clock set back repeats.
THEOREM NeverWaitsTooLong == ScheduleSpec => []WaitsNoLongerThanNeeded
<1> DEFINE Inv == question \in Questions /\ WaitsNoLongerThanNeeded
<1>1. Asks => Inv
  BY DEF Asks, WaitsNoLongerThanNeeded
<1>2. Inv /\ [Answers]_<<question, answer>> => Inv'
  <2> SUFFICES ASSUME question \in Questions, WaitsNoLongerThanNeeded, [Answers]_<<question, answer>> PROVE Inv'
    OBVIOUS
  <2>1. CASE UNCHANGED <<question, answer>>
    BY <2>1 DEF WaitsNoLongerThanNeeded
  <2>2. CASE Answers
    <3>1. /\ question.at \in Int /\ question.zone \in Zones
          /\ question.quiet \in QuietHours /\ question.weekdays \in WeekdaySets
      BY DeliveryScheduleAssumption DEF Questions
    <3>2. UNCHANGED question
          /\ answer' = NextDeliveryAt(question.at, question.zone, question.quiet, question.weekdays)
      BY <2>2 DEF Answers
    <3> QED  BY <3>1, <3>2, Answered DEF WaitsNoLongerThanNeeded
  <2> QED  BY <2>1, <2>2
<1> QED  BY <1>1, <1>2, PTL DEF ScheduleSpec
=============================================================================
