--------------------------- MODULE MCNotifications ---------------------------
(***************************************************************************)
(* TLC instances of Notifications and DeliverySchedule.  A behaviour is    *)
(* about messages or about one question to the schedule, whose answer the  *)
(* messages only know as later.                                            *)
(***************************************************************************)
EXTENDS Notifications, DeliverySchedule, TLC

CONSTANTS e1, e2, s1, s2, r1, r2, u1, c1

MCInit == Init /\ (question = None \/ Asks) /\ answer = None

MCNext ==
  \/ question = None /\ Next /\ UNCHANGED <<question, answer>>
  \/ Answers /\ UNCHANGED vars

MCSpec == MCInit /\ [][MCNext]_<<vars, question, answer>>

\* Every rule is linked to every channel.
AllChannels == [u \in Rules |-> Channels]

\* Evaluators, senders and runs are interchangeable.
Symmetric == Permutations({e1, e2}) \cup Permutations({s1, s2}) \cup Permutations({r1, r2})

\* The clock stays, jumps forward at night, or is set back at night.
TheMoments == 0..27
TheZones == {[at |-> 0, before |-> 1, after |-> 1], [at |-> 5, before |-> 0, after |-> 1],
             [at |-> 6, before |-> 1, after |-> 0]}
TheQuietHours ==
  {NoQuiet} \cup {[from |-> a, to |-> b] : <<a, b>> \in {x \in (0..3) \X (0..3) : x[1] # x[2]}}
TheWeekdaySets == {0..6, {0, 4}, {2}}
=============================================================================
