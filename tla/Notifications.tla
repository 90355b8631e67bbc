--------------------------- MODULE Notifications ---------------------------
(***************************************************************************)
(* Alerts and their delivery: the periodic task that evaluates the owners' *)
(* rules on every successful run and writes events and deliveries, and the *)
(* periodic task that claims deliveries, sends them and records the        *)
(* outcome.  Ticks of both tasks overlap; users edit rules and channels.   *)
(*                                                                         *)
(* An evaluation is two actions: what it reads under the lock of its run,  *)
(* and its inserts and commit.  A claim and a finish are one transaction   *)
(* each; the network call lies between them.  Which rules fire on a run,   *)
(* and whether a channel's schedule is open, are choices.                  *)
(*                                                                         *)
(* rule     absent, on, off or deleted                                     *)
(* event    [rule, run]: none, recent (within the rule's cooldown) or old  *)
(* rivals   history: runs evaluated while this run was                     *)
(* delivery [rule, run, channel]: .status none, pending, sending,          *)
(*          succeeded or failed; .next (next_attempt_at) now, later or     *)
(*          never; .stale: updated_at <= stale_before; .taken, .accepted,  *)
(*          .lost are history: claims that took it over while it was being *)
(*          sent, acceptances by the provider, those whose answer was lost *)
(* sender   .works: what it claimed and has still to finish, each with the *)
(*          attempt it was claimed as; .result: of the one it has sent     *)
(***************************************************************************)
EXTENDS Naturals, FiniteSets

CONSTANTS Runs, Rules, Channels, Evaluators, Senders, Nobody,
          Links,         \* the channels each rule is linked to
          MaxAttempts,   \* notification_delivery_max_attempts
          MaxTrouble     \* bound: senders that fail or stall, and answers lost

Key == Rules \X Runs \X Channels

\* What a sender learns of a message.
Results == {"sent", "retry", "refused"}

ASSUME NotificationsAssumption ==
  /\ MaxAttempts \in Nat \ {0} /\ MaxTrouble \in Nat
  /\ Nobody \notin Runs /\ Nobody \notin (Key \X Nat) \X Results
  /\ Links \in [Rules -> SUBSET Channels]

VARIABLES run, rule, channel, event, rivals, delivery, evaluator, sender, trouble

alerts == <<run, rule, event, rivals, evaluator>>
vars == <<alerts, channel, delivery, sender, trouble>>

NoDelivery == [status |-> "none", next |-> "never", stale |-> FALSE, attempt |-> 0,
               taken |-> 0, accepted |-> 0, lost |-> 0]
IdleEvaluator == [pc |-> "idle", todo |-> {}, run |-> Nobody, fires |-> {}]
IdleSender == [works |-> {}, result |-> Nobody]

Init ==
  /\ run = [r \in Runs |-> [status |-> "active", evaluated |-> FALSE]]
  /\ rule = [u \in Rules |-> "absent"]
  /\ channel = [c \in Channels |-> TRUE]
  /\ event = [u \in Rules |-> [r \in Runs |-> "none"]]
  /\ rivals = [r \in Runs |-> {}]
  /\ delivery = [k \in Key |-> NoDelivery]
  /\ evaluator = [e \in Evaluators |-> IdleEvaluator]
  /\ sender = [s \in Senders |-> IdleSender]
  /\ trouble = 0

----------------------------------------------------------------------------
(* Runs, and what their owners do.                                         *)

Deciding(r) == {e \in Evaluators : evaluator[e].pc = "deciding" /\ evaluator[e].run = r}

Succeeds(r) ==
  /\ run[r].status = "active"
  /\ run' = [run EXCEPT ![r].status = "succeeded"]
  /\ UNCHANGED <<rule, channel, event, rivals, delivery, evaluator, sender, trouble>>

\* A claim error recorded on a settled run; the update waits for the evaluation's lock.
FailsLate(r) ==
  /\ run[r].status = "succeeded" /\ Deciding(r) = {}
  /\ run' = [run EXCEPT ![r].status = "failed"]
  /\ UNCHANGED <<rule, channel, event, rivals, delivery, evaluator, sender, trouble>>

CreateRule(u) ==
  /\ rule[u] = "absent"
  /\ rule' = [rule EXCEPT ![u] = "on"]
  /\ UNCHANGED <<run, channel, event, rivals, delivery, evaluator, sender, trouble>>

UpdateRule(u, state) ==
  /\ rule[u] \in {"on", "off"} \ {state}
  /\ rule' = [rule EXCEPT ![u] = state]
  /\ UNCHANGED <<run, channel, event, rivals, delivery, evaluator, sender, trouble>>

\* The rule's events go with it, and their deliveries.
DeleteRule(u) ==
  /\ rule[u] \in {"on", "off"}
  /\ rule' = [rule EXCEPT ![u] = "deleted"]
  /\ event' = [event EXCEPT ![u] = [r \in Runs |-> "none"]]
  /\ delivery' = [k \in Key |-> IF k[1] = u THEN NoDelivery ELSE delivery[k]]
  /\ UNCHANGED <<run, channel, rivals, evaluator, sender, trouble>>

UpdateChannel(c) ==
  /\ channel' = [channel EXCEPT ![c] = ~@]
  /\ UNCHANGED <<alerts, delivery, sender, trouble>>

----------------------------------------------------------------------------
(* Evaluation.                                                             *)

SelectsRuns(e) ==
  LET pending == {r \in Runs : run[r].status = "succeeded" /\ ~run[r].evaluated} IN
  /\ evaluator[e].pc = "idle" /\ pending # {}
  /\ evaluator' = [evaluator EXCEPT ![e].pc = "choosing", ![e].todo = pending]
  /\ UNCHANGED <<run, rule, channel, event, rivals, delivery, sender, trouble>>

Rest(e, r) ==
  LET left == evaluator[e].todo \ {r} IN
  IF left = {} THEN IdleEvaluator ELSE [IdleEvaluator EXCEPT !.pc = "choosing", !.todo = left]

\* Mistakes that the mutation runs put in place of the definitions they are named for.
EvaluableAgain(r) == run[r].status = "succeeded"

Evaluable(r) == run[r].status = "succeeded" /\ ~run[r].evaluated

\* The run was evaluated or failed since it was selected.
SkipsRun(e, r) ==
  /\ evaluator[e].pc = "choosing" /\ r \in evaluator[e].todo
  /\ Deciding(r) = {} /\ ~Evaluable(r)
  /\ evaluator' = [evaluator EXCEPT ![e] = Rest(e, r)]
  /\ UNCHANGED <<run, rule, channel, event, rivals, delivery, sender, trouble>>

CoolingIgnored(u) == FALSE

Cooling(u) == \E r \in Runs : event[u][r] = "recent"

Evaluates(e, r, triggered) ==
  LET others == {evaluator[f].run : f \in {g \in Evaluators : evaluator[g].pc = "deciding"}} IN
  /\ evaluator[e].pc = "choosing" /\ r \in evaluator[e].todo
  /\ Deciding(r) = {} /\ Evaluable(r)
  /\ evaluator' = [evaluator EXCEPT ![e].pc = "deciding", ![e].run = r,
                                    ![e].fires = {u \in triggered : ~Cooling(u)}]
  /\ rivals' = [x \in Runs |-> IF x = r THEN rivals[x] \cup others
                               ELSE IF x \in others THEN rivals[x] \cup {r} ELSE rivals[x]]
  /\ UNCHANGED <<run, rule, channel, event, delivery, sender, trouble>>

\* The linked channels that are enabled, or else all that are.
ChannelsFor(u) ==
  LET on == {c \in Channels : channel[c]} IN
  IF Links[u] \cap on # {} THEN Links[u] \cap on ELSE on

RuleVanished(e) == \E u \in evaluator[e].fires : rule[u] = "deleted"

CommitsEvents(e) ==
  LET r == evaluator[e].run
      new == {u \in evaluator[e].fires : event[u][r] = "none"} IN
  /\ evaluator[e].pc = "deciding" /\ ~RuleVanished(e)
  /\ event' = [u \in Rules |-> IF u \in new THEN [event[u] EXCEPT ![r] = "recent"] ELSE event[u]]
  /\ delivery' = [k \in Key |->
       IF k[1] \in new /\ k[2] = r /\ k[3] \in ChannelsFor(k[1])
       THEN [NoDelivery EXCEPT !.status = "pending", !.next = "now"] ELSE delivery[k]]
  /\ run' = [run EXCEPT ![r].evaluated = TRUE]
  /\ evaluator' = [evaluator EXCEPT ![e] = Rest(e, r)]
  /\ UNCHANGED <<rule, channel, rivals, sender, trouble>>

\* A failed transaction ends the task, and with it the rest of its list.  The
\* insert of an event fails when its rule has been deleted.
InsertFails(e) ==
  /\ evaluator[e].pc = "deciding" /\ RuleVanished(e)
  /\ evaluator' = [evaluator EXCEPT ![e] = IdleEvaluator]
  /\ UNCHANGED <<run, rule, channel, event, rivals, delivery, sender, trouble>>

\* (With nothing left to evaluate, failing is no different from ending.)
EvaluationFails(e) ==
  /\ \/ evaluator[e].pc = "choosing" /\ \E r \in evaluator[e].todo : Evaluable(r)
     \/ evaluator[e].pc = "deciding" /\ ~RuleVanished(e)
  /\ evaluator' = [evaluator EXCEPT ![e] = IdleEvaluator]
  /\ UNCHANGED <<run, rule, channel, event, rivals, delivery, sender, trouble>>

----------------------------------------------------------------------------
(* Delivery.                                                               *)

Due(d) ==
  \/ d.status \in {"pending", "failed"} /\ d.next = "now"
  \/ d.status = "sending" /\ d.stale

\* The schedule of the channel is closed at the moment.
Deferred(d) ==
  [d EXCEPT !.status = IF d.status = "sending" THEN "pending" ELSE d.status, !.next = "later"]
\* The schedule is invalid, or the destination cannot be decrypted.
Unusable(d) == [d EXCEPT !.status = "failed", !.next = "never"]
Sending(d) == [d EXCEPT !.status = "sending", !.attempt = d.attempt + 1, !.next = "never"]

\* A claim of everything that is due; closed and broken are channels.
Claims(s, closed, broken) ==
  LET due == {k \in Key : Due(delivery[k]) /\ channel[k[3]]}
      mine == {k \in due : k[3] \notin closed \cup broken}
      Fresh(d) == [d EXCEPT !.stale = FALSE,
                            !.taken = IF d.status = "sending" THEN d.taken + 1 ELSE d.taken]
  IN
  /\ sender[s] = IdleSender /\ due # {}
  /\ closed \cup broken \subseteq {k[3] : k \in due} /\ closed \cap broken = {}
  /\ delivery' = [k \in Key |->
       IF k \notin due THEN delivery[k]
       ELSE IF k[3] \in broken THEN Unusable(Fresh(delivery[k]))
       ELSE IF k[3] \in closed THEN Deferred(Fresh(delivery[k]))
       ELSE Sending(Fresh(delivery[k]))]
  /\ sender' = [sender EXCEPT ![s].works = {<<k, delivery[k].attempt + 1>> : k \in mine}]
  /\ UNCHANGED <<alerts, channel, trouble>>

\* The provider accepts, or does not answer, or refuses for good or for now.
Sends(s, w, result, accepted) ==
  LET k == w[1]
      lost == accepted /\ result # "sent"
      Answered(d) == [d EXCEPT !.accepted = IF accepted THEN d.accepted + 1 ELSE d.accepted,
                               !.lost = IF lost THEN d.lost + 1 ELSE d.lost]
  IN
  /\ sender[s].result = Nobody /\ w \in sender[s].works
  /\ result = "sent" => accepted
  /\ lost => trouble < MaxTrouble
  /\ trouble' = IF lost THEN trouble + 1 ELSE trouble
  /\ sender' = [sender EXCEPT ![s].result = <<w, result>>]
  /\ delivery' = [delivery EXCEPT ![k] = IF @.status = "none" THEN @ ELSE Answered(@)]
  /\ UNCHANGED <<alerts, channel>>

RetriesOnceMore(d) == d.attempt <= MaxAttempts

Retries(d) == d.attempt < MaxAttempts

\* The row is found by its id, whoever claims it now; a deleted row is left alone.
Outcome(d, result) ==
  CASE d.status = "none" -> d
    [] d.status # "none" /\ result = "sent" ->
         [d EXCEPT !.status = "succeeded", !.next = "never", !.stale = FALSE]
    [] OTHER ->
         [d EXCEPT !.status = "failed", !.stale = FALSE,
                   !.next = IF result = "retry" /\ Retries(d) THEN "later" ELSE "never"]

Finishes(s) ==
  /\ sender[s].result # Nobody
  /\ LET w == sender[s].result[1] IN
     /\ delivery' = [delivery EXCEPT ![w[1]] = Outcome(@, sender[s].result[2])]
     /\ sender' = [sender EXCEPT ![s] = [works |-> @.works \ {w}, result |-> Nobody]]
  /\ UNCHANGED <<alerts, channel, trouble>>

\* The process dies or a finishing transaction fails: what it claimed stays in sending.
SenderFails(s) ==
  /\ sender[s] # IdleSender /\ trouble < MaxTrouble
  /\ trouble' = trouble + 1
  /\ sender' = [sender EXCEPT ![s] = IdleSender]
  /\ UNCHANGED <<alerts, channel, delivery>>

----------------------------------------------------------------------------
(* Time.                                                                   *)

CooldownEnds(u, r) ==
  /\ event[u][r] = "recent"
  /\ event' = [event EXCEPT ![u][r] = "old"]
  /\ UNCHANGED <<run, rule, channel, rivals, delivery, evaluator, sender, trouble>>

BecomesDue(k) ==
  /\ delivery[k].next = "later"
  /\ delivery' = [delivery EXCEPT ![k].next = "now"]
  /\ UNCHANGED <<alerts, channel, sender, trouble>>

\* The batch of a sender, or its silence, outlasts notification_delivery_stale_seconds.
Held(k) == \E s \in Senders : <<k, delivery[k].attempt>> \in sender[s].works

BecomesStale(k) ==
  /\ delivery[k].status = "sending" /\ ~delivery[k].stale
  /\ Held(k) => trouble < MaxTrouble
  /\ trouble' = IF Held(k) THEN trouble + 1 ELSE trouble
  /\ delivery' = [delivery EXCEPT ![k].stale = TRUE]
  /\ UNCHANGED <<alerts, channel, sender>>

----------------------------------------------------------------------------
Evaluating(e) ==
  \/ SelectsRuns(e) \/ CommitsEvents(e) \/ InsertFails(e)
  \/ \E r \in Runs : SkipsRun(e, r)
  \/ \E r \in Runs, triggered \in SUBSET {u \in Rules : rule[u] = "on"} :
       Evaluates(e, r, triggered)

Delivering(s) ==
  \/ \E closed, broken \in SUBSET Channels : Claims(s, closed, broken)
  \/ \E w \in sender[s].works, result \in Results, accepted \in BOOLEAN :
       Sends(s, w, result, accepted)
  \/ Finishes(s)

Next ==
  \/ \E r \in Runs : Succeeds(r) \/ FailsLate(r)
  \/ \E u \in Rules : CreateRule(u)
  \/ \E u \in Rules, state \in {"on", "off"} : UpdateRule(u, state)
  \/ \E u \in Rules : DeleteRule(u)
  \/ \E c \in Channels : UpdateChannel(c)
  \/ \E e \in Evaluators : Evaluating(e) \/ EvaluationFails(e)
  \/ \E s \in Senders : Delivering(s) \/ SenderFails(s)
  \/ \E u \in Rules, r \in Runs : CooldownEnds(u, r)
  \/ \E k \in Key : BecomesDue(k) \/ BecomesStale(k)

Spec == Init /\ [][Next]_vars

----------------------------------------------------------------------------
\* A rule fires twice within its cooldown only on two runs that were evaluated at
\* the same time, each before the other's event was committed.
CooldownNeedsOverlap ==
  \A u \in Rules, r, q \in Runs :
    r # q /\ event[u][r] = "recent" /\ event[u][q] = "recent" => q \in rivals[r]

\* A recipient gets a message again only for a reason that was visible: an answer
\* that was lost, or a claim that took the delivery over from a silent sender; and
\* only those take-overs let a delivery exceed its attempts.
RepeatsNeedTrouble ==
  \A k \in Key :
    LET d == delivery[k] IN
    /\ d.accepted <= 1 + d.lost + d.taken
    /\ d.attempt <= MaxAttempts + d.taken

\* A run's rules are evaluated exactly once: events and deliveries of a run only
\* appear in the step that marks it, together.
EvaluatedOnce ==
  [][\A u \in Rules, r \in Runs :
       event[u][r] = "none" /\ event'[u][r] # "none"
       => /\ ~run[r].evaluated /\ run'[r].evaluated
          /\ \A c \in Channels : delivery[<<u, r, c>>].status = "none"]_vars
=============================================================================
