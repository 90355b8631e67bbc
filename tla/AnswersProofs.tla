--------------------------- MODULE AnswersProofs ---------------------------
(***************************************************************************)
(* Proofs about the provider's answers: how a worker captures them         *)
(* (Capture) and what is kept and shown of them (Intake and FareReads),    *)
(* for all rules, responses, answers, filters and lengths of days, pages   *)
(* and trends.                                                             *)
(*                                                                         *)
(* Capture.  Whatever a task of a response does, it either records its     *)
(* body or leaves everything kept alone (KindsOfSteps), and the runner     *)
(* never touches what is kept.  So what is kept only grows: a name that    *)
(* was captured stays captured, and a diagnostic stays.  An explanation    *)
(* that the runner had when it left its wait (Accounted) is therefore      *)
(* still one when it returns, whatever arrives during the drains.          *)
(*                                                                         *)
(* Fares.  A finite set of pairs has one sequence in order: the rank of a  *)
(* pair, how many precede it, grows along the order and takes every value  *)
(* (InOrderSorts).  The rows of an itinerary and the pages of a list are   *)
(* such sequences.  The cheapest of the flagged offers is the cheapest of  *)
(* all under a filter that needs no scan (FlaggedAreCheapest), so every    *)
(* query finds the same price (OnePrice).  Of the state it matters that    *)
(* runs are saved once (StoreOK) and that the calendar has the run that    *)
(* observed a date last (CalendarInv); a reader has read, in order, all    *)
(* that precedes its cursor (ReaderInv), and what appears meanwhile sorts  *)
(* where it may.  A trend's pieces split its time into days by the rule    *)
(* of the division (DayOf, Pieces), and sums are sizes of disjoint unions, *)
(* so that sums of sums are sums (SumOfParts, PointOfRows).                *)
(***************************************************************************)
EXTENDS Capture, FareReads, FiniteSetTheorems, SequenceTheorems, TLAPS

----------------------------------------------------------------------------
(* The capture.                                                            *)

ResponseState ==
  [name : Names \cup {Page}, ok : BOOLEAN, body : Body,
   main : {"none", "task", "read", "ended", "cancelled"},
   debug : {"none", "seen", "task", "read", "ended"}]

\* A response that was sent is one of a rule, and a failure has no payload.
ResponseOK(x) ==
  /\ x \in ResponseState
  /\ x.main # "none" \/ x.debug # "none" => x.name \in Names
  /\ ~x.ok => x.body = Shapeless

TypesOK ==
  /\ response \in [Responses -> ResponseState]
  /\ \A r \in Responses : ResponseOK(response[r])
  /\ captures \in [Names -> Body] /\ changed \in BOOLEAN

WasRead(x) == "read" \in {x.main, x.debug}

\* What has been delivered for a name, as in RichestIsKept.
Delivered(n) ==
  {response[r].body : r \in {s \in Responses : /\ response[s].name = n /\ response[s].ok
                                               /\ "read" \in {response[s].main, response[s].debug}}}
  \ {Shapeless}

For(x, n) == x.name = n /\ x.ok /\ WasRead(x)

RichestFor(n) ==
  IF Delivered(n) = {} THEN captures[n] = 0
  ELSE captures[n] \in Delivered(n) /\ \A b \in Delivered(n) : b <= captures[n]

\* The diagnostics explain what is missing, or once did.
About == found \cup raised
Accounted == Missing = {} \/ Page \in raised \/ About \cap Expected # {}

AfterTheWait == {"settling", "draining", "shooting", "closing", "detaching", "quitting", "ending"}

ExplainedOK ==
  /\ pc \in AfterTheWait /\ ~cancelled => Accounted
  /\ Returned => \/ Expected \subseteq result.captured \/ Page \in result.about
                 \/ result.about \cap Expected # {}

IInv == TypesOK /\ NoLostWakeup /\ RichestIsKept /\ ExplainedOK

----------------------------------------------------------------------------
LEMMA Bounds ==
  /\ MaxRichness \in Nat /\ Body \subseteq Nat /\ 0 \in Body /\ Unreadable \notin Body
  /\ Shapeless = 0 /\ Expected \subseteq Names /\ Page \notin Names
BY CaptureAssumption DEF Body, Shapeless

LEMMA RichestByName == RichestIsKept <=> \A n \in Names : RichestFor(n)
BY DEF RichestIsKept, RichestFor, Delivered

LEMMA InitIInv == Init => IInv
<1> SUFFICES ASSUME Init PROVE IInv
  OBVIOUS
<1>1. /\ response = [r \in Responses |-> Unsent] /\ captures = [n \in Names |-> 0]
      /\ changed = FALSE /\ pc = "start"
  BY DEF Init
<1>2. ResponseOK(Unsent)
  BY Bounds DEF ResponseOK, ResponseState, Unsent
<1>3. TypesOK
  BY <1>1, <1>2, Bounds DEF TypesOK, ResponseOK
<1>4. \A n \in Names : RichestFor(n)
  BY <1>1 DEF RichestFor, Delivered, Unsent
<1>5. NoLostWakeup /\ ExplainedOK
  BY <1>1 DEF NoLostWakeup, ExplainedOK, AfterTheWait, Returned
<1> QED  BY <1>3, <1>4, <1>5, RichestByName DEF IInv

----------------------------------------------------------------------------
(* What a step does to the responses and to what is kept.                  *)

\* One way delivers the body of a response as it was sent, or reports that it could not.
Delivers(r, x) ==
  /\ response' = [response EXCEPT ![r] = x] /\ ResponseOK(x)
  /\ x.name = response[r].name /\ x.ok = response[r].ok /\ x.body = response[r].body
  /\ response[r].name \in Names
  /\ \E b \in {response[r].body, Unreadable} :
       /\ Records(r, b)
       /\ b = response[r].body => WasRead(x)
       /\ b # response[r].body => (WasRead(x) <=> WasRead(response[r]))

\* Nothing is kept, and no way is newly read.
Quiet ==
  /\ UNCHANGED kept
  /\ TypesOK'
  /\ \A r \in Responses :
       \/ ~WasRead(response[r]) /\ ~WasRead(response'[r])
       \/ /\ response'[r].name = response[r].name /\ response'[r].ok = response[r].ok
          /\ response'[r].body = response[r].body /\ (WasRead(response'[r]) <=> WasRead(response[r]))

LEMMA HandlesDelivers ==
  ASSUME TypesOK, NEW r \in Responses, HandlesResponse(r)
  PROVE  \E x : Delivers(r, x)
<1>1. response[r] \in ResponseState /\ ResponseOK(response[r]) /\ response[r].main = "task"
  BY DEF TypesOK, HandlesResponse
<1>2. PICK b \in Readable(response[r]) :
        /\ Records(r, b)
        /\ response' = [response EXCEPT ![r].main = IF b = response[r].body THEN "read" ELSE "ended"]
  BY DEF HandlesResponse
<1> DEFINE x == [response[r] EXCEPT !.main = IF b = response[r].body THEN "read" ELSE "ended"]
<1>3. b \in {response[r].body, Unreadable}
  BY <1>2 DEF Readable
<1>4. response' = [response EXCEPT ![r] = x]
  BY <1>1, <1>2 DEF TypesOK
<1>5. /\ x.name = response[r].name /\ x.ok = response[r].ok /\ x.body = response[r].body
      /\ x.debug = response[r].debug /\ x.main = IF b = response[r].body THEN "read" ELSE "ended"
  BY <1>1 DEF ResponseState
<1>6. ResponseOK(x) /\ response[r].name \in Names
  BY <1>1, <1>5 DEF ResponseOK, ResponseState
<1>7. /\ b = response[r].body => WasRead(x)
      /\ b # response[r].body => (WasRead(x) <=> WasRead(response[r]))
  BY <1>1, <1>5 DEF WasRead
<1> HIDE DEF x
<1> QED  BY <1>2, <1>3, <1>4, <1>5, <1>6, <1>7 DEF Delivers

LEMMA SameResponses ==
  ASSUME TypesOK, UNCHANGED <<response, kept>> PROVE Quiet
BY DEF TypesOK, Quiet, kept

\* A response that is where it was, or has moved on without being read.
Moves(x, y) ==
  \/ y = x
  \/ /\ ResponseOK(y) /\ y.name = x.name /\ y.ok = x.ok /\ y.body = x.body
     /\ (WasRead(y) <=> WasRead(x))

LEMMA MovedResponses ==
  ASSUME TypesOK, UNCHANGED kept, response' = [r \in Responses |-> response'[r]],
         \A r \in Responses : Moves(response[r], response'[r])
  PROVE  Quiet
<1>1. \A r \in Responses : ResponseOK(response'[r])
  BY DEF TypesOK, Moves
<1>2. response' \in [Responses -> ResponseState]
  BY <1>1 DEF ResponseOK
<1>3. TypesOK'
  BY <1>1, <1>2 DEF TypesOK, kept, ResponseOK, ResponseState
<1> QED  BY <1>3 DEF Quiet, Moves

LEMMA FetchesDelivers ==
  ASSUME TypesOK, NEW r \in Responses, FetchesBody(r)
  PROVE  (\E x : Delivers(r, x)) \/ Quiet
<1>1. response[r] \in ResponseState /\ ResponseOK(response[r]) /\ response[r].debug = "task"
  BY DEF TypesOK, FetchesBody
<1>2. CASE /\ Records(r, response[r].body)
           /\ response' = [response EXCEPT ![r].debug = "read"]
  <2> DEFINE x == [response[r] EXCEPT !.debug = "read"]
  <2>1. response' = [response EXCEPT ![r] = x]
    BY <1>1, <1>2 DEF TypesOK
  <2>2. /\ x.name = response[r].name /\ x.ok = response[r].ok /\ x.body = response[r].body
        /\ x.main = response[r].main /\ x.debug = "read"
    BY <1>1 DEF ResponseState
  <2>3. ResponseOK(x) /\ response[r].name \in Names /\ WasRead(x)
    BY <1>1, <2>2 DEF ResponseOK, ResponseState, WasRead
  <2> HIDE DEF x
  <2> QED  BY <1>2, <2>1, <2>2, <2>3 DEF Delivers
<1>3. CASE UNCHANGED kept /\ response' = [response EXCEPT ![r].debug = "ended"]
  <2> DEFINE x == [response[r] EXCEPT !.debug = "ended"]
  <2>1. /\ x.name = response[r].name /\ x.ok = response[r].ok
        /\ x.body = response[r].body /\ x.main = response[r].main /\ x.debug = "ended"
    BY <1>1 DEF ResponseState
  <2>2. ResponseOK(x) /\ (WasRead(x) <=> WasRead(response[r]))
    BY <1>1, <2>1 DEF ResponseOK, ResponseState, WasRead
  <2>3. /\ response'[r] = x /\ \A q \in Responses : q # r => response'[q] = response[q]
        /\ response' = [q \in Responses |-> response'[q]]
    BY <1>3 DEF TypesOK
  <2> HIDE DEF x
  <2>4. \A q \in Responses : Moves(response[q], response'[q])
    BY <2>1, <2>2, <2>3 DEF Moves
  <2> QED  BY <1>3, <2>3, <2>4, MovedResponses
<1> QED  BY <1>2, <1>3 DEF FetchesBody

LEMMA RespondsQuietly ==
  ASSUME TypesOK, NEW r \in Responses, Responds(r)
  PROVE  Quiet
<1>1. PICK n \in Names, ok \in BOOLEAN, b \in Body :
        /\ ~ok => b = Shapeless
        /\ response' = [response EXCEPT ![r] =
             [name |-> n, ok |-> ok, body |-> b, main |-> "task",
              debug |-> IF debugging THEN "seen" ELSE "none"]]
  BY DEF Responds
<1> DEFINE x == [name |-> n, ok |-> ok, body |-> b, main |-> "task",
                 debug |-> IF debugging THEN "seen" ELSE "none"]
<1>2. ResponseOK(x) /\ ~WasRead(x)
  BY <1>1 DEF ResponseOK, ResponseState, WasRead
<1>3. ~WasRead(response[r])
  BY DEF Responds, Unsent, WasRead
<1>4. response'[r] = x /\ \A q \in Responses : q # r => response'[q] = response[q]
  BY <1>1 DEF TypesOK
<1>5. \A q \in Responses : ResponseOK(response'[q])
  BY <1>2, <1>4 DEF TypesOK
<1>6. UNCHANGED kept /\ response' \in [Responses -> ResponseState]
  BY <1>1, <1>2, <1>5 DEF Responds, TypesOK, ResponseOK
<1>7. TypesOK'
  BY <1>5, <1>6 DEF TypesOK, kept, ResponseOK, ResponseState
<1> HIDE DEF x
<1> QED  BY <1>2, <1>3, <1>4, <1>6, <1>7 DEF Quiet

\* Loads, TaskFails, the ends of the drains and the end of the run only move tasks on.
MovesTasks ==
  \/ \E r \in Responses : Loads(r) \/ TaskFails(r)
  \/ LeavesDrain \/ LeavesSecondDrain \/ Ends

LEMMA MovesTasksQuietly == ASSUME TypesOK, MovesTasks PROVE Quiet
<1>1. \A r \in Responses : response[r] \in ResponseState /\ ResponseOK(response[r])
  BY DEF TypesOK
<1>2. ASSUME NEW r \in Responses, NEW to \in {"task", "ended"},
             response[r].debug \in {"seen", "task"}
      PROVE  Moves(response[r], [response[r] EXCEPT !.debug = to])
  BY <1>1, <1>2 DEF Moves, ResponseOK, ResponseState, WasRead
<1>3. ASSUME NEW r \in Responses, NEW to \in {"ended", "cancelled"}, response[r].main = "task"
      PROVE  Moves(response[r], [response[r] EXCEPT !.main = to])
  BY <1>1, <1>3 DEF Moves, ResponseOK, ResponseState, WasRead
<1>4. ASSUME NEW r \in Responses, Loads(r) PROVE Quiet
  <2>1. PICK to \in {"task", "ended"} : response' = [response EXCEPT ![r].debug = to]
    BY <1>4 DEF Loads
  <2>2. /\ response' = [q \in Responses |-> response'[q]]
        /\ response'[r] = [response[r] EXCEPT !.debug = to]
        /\ \A q \in Responses : q # r => response'[q] = response[q]
    BY <2>1 DEF TypesOK
  <2>3. response[r].debug = "seen" /\ UNCHANGED kept
    BY <1>4 DEF Loads
  <2>4. Moves(response[r], response'[r])
    BY <1>2, <2>2, <2>3
  <2>5. \A q \in Responses : Moves(response[q], response'[q])
    BY <2>2, <2>4 DEF Moves
  <2> QED  BY <2>2, <2>3, <2>5, MovedResponses
<1>5. ASSUME NEW r \in Responses, TaskFails(r) PROVE Quiet
  <2>1. /\ response' = [q \in Responses |-> response'[q]]
        /\ response'[r] = [response[r] EXCEPT !.main = "ended"]
        /\ \A q \in Responses : q # r => response'[q] = response[q]
    BY <1>5 DEF TypesOK, TaskFails
  <2>2. Moves(response[r], response'[r]) /\ UNCHANGED kept
    BY <1>3, <1>5, <2>1 DEF TaskFails
  <2>3. \A q \in Responses : Moves(response[q], response'[q])
    BY <2>1, <2>2 DEF Moves
  <2> QED  BY <2>1, <2>2, <2>3, MovedResponses
<1>6. ASSUME NEW from, DrainEnds(from), UNCHANGED kept PROVE Quiet
  <2>1. \A r \in Drained : r \in Responses /\ response[r].debug = "task"
    BY DEF Drained, Tasks
  <2>2. /\ response' = [r \in Responses |-> response'[r]]
        /\ \A r \in Responses : response'[r] =
             IF r \in Drained THEN [response[r] EXCEPT !.debug = "ended"] ELSE response[r]
    BY <1>6 DEF DrainEnds
  <2>3. \A r \in Responses : Moves(response[r], response'[r])
    BY <1>2, <2>1, <2>2 DEF Moves
  <2> QED  BY <1>6, <2>2, <2>3, MovedResponses
<1>7. CASE Ends
  <2>1. /\ response' = [r \in Responses |-> response'[r]]
        /\ \A r \in Responses : response'[r] =
             IF response[r].main = "task"
             THEN [response[r] EXCEPT !.main = "cancelled"] ELSE response[r]
    BY <1>7 DEF Ends
  <2>2. \A r \in Responses : Moves(response[r], response'[r])
    BY <1>3, <2>1 DEF Moves
  <2> QED  BY <1>7, <2>1, <2>2, MovedResponses DEF Ends
<1> QED  BY <1>4, <1>5, <1>6, <1>7 DEF MovesTasks, LeavesDrain, LeavesSecondDrain

Arrives == \E r \in Responses : HandlesResponse(r) \/ FetchesBody(r)

\* The steps of the runner that leave the responses alone.
RunsOn ==
  \/ CannotStart \/ Opens \/ Navigates \/ FindsTerminal \/ Wakes \/ TimeIsUp
  \/ Settles \/ Shoots \/ Closes \/ Quits \/ IsCancelled

LEMMA KindsOfSteps ==
  ASSUME TypesOK, [Next]_vars
  PROVE  \/ Quiet
         \/ WaitsAgain
         \/ \E r \in Responses : (\E x : Delivers(r, x)) /\ UNCHANGED runner
<1>1. ASSUME NEW r \in Responses, HandlesResponse(r) \/ FetchesBody(r)
      PROVE  Quiet \/ ((\E x : Delivers(r, x)) /\ UNCHANGED runner)
  BY <1>1, HandlesDelivers, FetchesDelivers DEF HandlesResponse, FetchesBody
<1>2. CASE MovesTasks
  BY <1>2, MovesTasksQuietly
<1>3. ASSUME NEW r \in Responses, Responds(r) PROVE Quiet
  BY <1>3, RespondsQuietly
<1>4. CASE RunsOn
  BY <1>4, SameResponses DEF RunsOn, CannotStart, Opens, Navigates, FindsTerminal, Wakes,
     TimeIsUp, Settles, Shoots, Closes, Quits, IsCancelled
<1>5. CASE UNCHANGED vars
  BY <1>5, SameResponses DEF vars
<1> QED  BY <1>1, <1>2, <1>3, <1>4, <1>5 DEF Next, Running, InTime, OfTheBrowser, MovesTasks, RunsOn

LEMMA SameWhenWaiting == ASSUME TypesOK, WaitsAgain PROVE TypesOK' /\ UNCHANGED <<response, captures, found>>
BY DEF TypesOK, ResponseOK, ResponseState, WaitsAgain

----------------------------------------------------------------------------
(* What is kept.                                                           *)

LEMMA RicherIs ==
  ASSUME TypesOK, NEW n \in Names, NEW b \in Body, captures' = Richer(n, b)
  PROVE  /\ captures' \in [Names -> Body]
         /\ captures'[n] = IF b >= captures[n] THEN b ELSE captures[n]
         /\ \A m \in Names : m # n => captures'[m] = captures[m]
BY DEF TypesOK, Richer

LEMMA DeliversTypes == ASSUME TypesOK, NEW r \in Responses, NEW x, Delivers(r, x) PROVE TypesOK'
<1>1. PICK b \in {response[r].body, Unreadable} : Records(r, b)
  BY DEF Delivers
<1>2. \A q \in Responses : ResponseOK(response'[q]) /\ response'[q] \in ResponseState
  BY DEF TypesOK, Delivers, ResponseOK
<1>3. response' \in [Responses -> ResponseState]
  BY <1>2 DEF TypesOK, Delivers
<1>4. response[r].body \in Body /\ response[r].name \in Names
  BY DEF TypesOK, Delivers, ResponseState
<1>5. captures' \in [Names -> Body] /\ changed' \in BOOLEAN
  <2>1. CASE response[r].ok /\ b \notin {Unreadable, Shapeless}
    <3>1. b \in Body /\ captures' = Richer(response[r].name, b) /\ changed' = TRUE
      BY <1>1, <1>4, <2>1 DEF Records
    <3> QED  BY <1>4, <3>1, RicherIs
  <2>2. CASE ~(response[r].ok /\ b \notin {Unreadable, Shapeless})
    <3>1. UNCHANGED captures /\ changed' = TRUE
      BY <1>1, <2>2 DEF Records
    <3> QED  BY <3>1 DEF TypesOK
  <2> QED  BY <2>1, <2>2
<1> QED  BY <1>2, <1>3, <1>5 DEF TypesOK, ResponseOK, ResponseState

\* What is kept only grows.
Grows == Captured \subseteq Captured' /\ found \subseteq found'

LEMMA DeliversGrows ==
  ASSUME TypesOK, NEW r \in Responses, NEW x, Delivers(r, x) PROVE Grows /\ changed' = TRUE
<1>1. PICK b \in {response[r].body, Unreadable} : Records(r, b)
  BY DEF Delivers
<1>2. response[r].body \in Body /\ response[r].name \in Names
  BY DEF TypesOK, Delivers, ResponseState
<1>3. captures \in [Names -> Nat]
  BY Bounds DEF TypesOK
<1>4. CASE response[r].ok /\ b \notin {Unreadable, Shapeless}
  <2>1. b \in Body /\ captures' = Richer(response[r].name, b) /\ UNCHANGED found
    BY <1>1, <1>2, <1>4 DEF Records
  <2>2. \A n \in Names : captures'[n] >= captures[n]
    BY <1>2, <1>3, <2>1, RicherIs, Bounds
  <2>3. captures' \in [Names -> Nat]
    BY <1>2, <2>1, RicherIs, Bounds
  <2>4. Captured \subseteq Captured'
    BY <1>3, <2>2, <2>3 DEF Captured
  <2> QED  BY <1>1, <2>1, <2>4 DEF Grows, Records
<1>5. CASE ~(response[r].ok /\ b \notin {Unreadable, Shapeless})
  BY <1>1, <1>5 DEF Grows, Records, Captured
<1> QED  BY <1>4, <1>5

LEMMA QuietRichest == ASSUME TypesOK, Quiet, RichestIsKept PROVE RichestIsKept'
<1> SUFFICES ASSUME NEW n \in Names PROVE RichestFor(n)'
  BY RichestByName DEF RichestIsKept, RichestFor, Delivered
<1>1. RichestFor(n)
  BY RichestByName
<1>2. Delivered(n)' = Delivered(n)
  BY DEF Delivered, Quiet, WasRead
<1> QED  BY <1>1, <1>2 DEF RichestFor, Quiet, kept

LEMMA DeliversRichest ==
  ASSUME TypesOK, NEW r \in Responses, NEW x, Delivers(r, x), RichestIsKept
  PROVE  RichestIsKept'
<1>1. PICK b \in {response[r].body, Unreadable} :
        /\ Records(r, b)
        /\ b = response[r].body => WasRead(x)
        /\ b # response[r].body => (WasRead(x) <=> WasRead(response[r]))
  BY DEF Delivers
<1>2. /\ response[r].body \in Body /\ response[r].name \in Names /\ response[r] \in ResponseState
      /\ captures \in [Names -> Nat] /\ Body \subseteq Nat /\ Shapeless = 0 /\ Unreadable \notin Body
  BY Bounds DEF TypesOK, Delivers, ResponseState
<1>3. /\ response'[r] = x /\ \A q \in Responses : q # r => response'[q] = response[q]
      /\ x.name = response[r].name /\ x.ok = response[r].ok /\ x.body = response[r].body
  BY DEF Delivers, TypesOK
<1> DEFINE n == response[r].name
           adds == response[r].ok /\ b \notin {Unreadable, Shapeless}
<1> SUFFICES ASSUME NEW m \in Names PROVE RichestFor(m)'
  BY DEF RichestIsKept, RichestFor, Delivered
<1>4. RichestFor(m) /\ Delivered(m) \subseteq Nat
  BY RichestByName, Bounds DEF Delivered, TypesOK, ResponseState
<1>5. CASE m = n /\ adds
  <2>1. b = response[r].body /\ WasRead(x) /\ b \in Nat \ {0} /\ captures' = Richer(n, b)
    BY <1>1, <1>2, <1>5 DEF Records
  <2>2. Delivered(m)' = Delivered(m) \cup {b}
    <3>1. \A c : c \in Delivered(m) <=> c # 0 /\ \E q \in Responses : c = response[q].body /\ For(response[q], m)
      BY <1>2 DEF Delivered, For, WasRead
    <3>2. \A c : c \in Delivered(m)' <=> c # 0 /\ \E q \in Responses : c = response'[q].body /\ For(response'[q], m)
      BY <1>2 DEF Delivered, For, WasRead
    <3>3. For(response'[r], m) /\ response'[r].body = b /\ b # 0
      BY <1>3, <1>5, <2>1 DEF For
    <3>4. \A q \in Responses : q # r => response'[q] = response[q]
      BY <1>3
    <3> QED  BY <2>1, <3>1, <3>2, <3>3, <3>4
  <2>3. captures'[m] = IF b >= captures[m] THEN b ELSE captures[m]
    BY <1>2, <1>5, <2>1, RicherIs
  <2> QED  BY <1>2, <1>4, <2>1, <2>2, <2>3 DEF RichestFor
<1>6. CASE ~(m = n /\ adds)
  <2>1. captures'[m] = captures[m]
    <3>1. CASE adds
      <4>1. b \in Body /\ n \in Names /\ captures' = Richer(n, b) /\ m # n
        BY <1>1, <1>2, <1>6, <3>1 DEF Records
      <4> QED  BY <4>1, RicherIs
    <3>2. CASE ~adds
      BY <1>1, <3>2 DEF Records
    <3> QED  BY <3>1, <3>2
  <2>2. Delivered(m)' = Delivered(m)
    <3>1. CASE m # n
      BY <1>3, <3>1 DEF Delivered
    <3>2. CASE ~response[r].ok
      BY <1>3, <3>2 DEF Delivered
    <3>3. CASE b = Unreadable
      BY <1>1, <1>2, <1>3, <3>3 DEF Delivered, WasRead
    <3>4. CASE b = Shapeless
      BY <1>1, <1>2, <1>3, <3>4 DEF Delivered, WasRead
    <3> QED  BY <1>6, <3>1, <3>2, <3>3, <3>4
  <2> QED  BY <1>4, <2>1, <2>2 DEF RichestFor
<1> QED  BY <1>5, <1>6

----------------------------------------------------------------------------
(* What explains a gap.                                                    *)

LEMMA StaysExplained ==
  ASSUME Accounted, Grows, raised \subseteq raised' PROVE Accounted'
BY DEF Accounted, About, Grows, Missing

LEMMA QuietGrows == ASSUME Quiet PROVE Grows
BY DEF Quiet, Grows, kept, Captured

LEMMA NextExplained == ASSUME IInv, [Next]_vars PROVE ExplainedOK'
<1> USE DEF IInv
<1>1. Grows
  <2>1. WaitsAgain => Grows
    BY DEF WaitsAgain, Grows, Captured
  <2> QED  BY <2>1, KindsOfSteps, QuietGrows, DeliversGrows
\* Before its end no run has returned, and after it nothing changes.
<1>2. ASSUME UNCHANGED <<pc, cancelled, result>>, raised \subseteq raised' PROVE ExplainedOK'
  BY <1>1, <1>2, StaysExplained DEF ExplainedOK, Returned
<1>3. ASSUME Accounted', pc' # "done" PROVE ExplainedOK'
  BY <1>3 DEF ExplainedOK, Returned
<1>4. ASSUME pc' \notin AfterTheWait \cup {"done"} PROVE ExplainedOK'
  BY <1>4 DEF ExplainedOK, Returned
<1>5. ASSUME cancelled' PROVE ExplainedOK'
  BY <1>5 DEF ExplainedOK, Returned
<1>6. ASSUME pc \in AfterTheWait, pc' # "done", cancelled' = cancelled, raised \subseteq raised'
      PROVE  ExplainedOK'
  BY <1>1, <1>3, <1>5, <1>6, StaysExplained DEF ExplainedOK
<1>7. CASE \E r \in Responses :
             Responds(r) \/ Loads(r) \/ HandlesResponse(r) \/ TaskFails(r) \/ FetchesBody(r)
  BY <1>2, <1>7 DEF Responds, Loads, HandlesResponse, TaskFails, FetchesBody, runner
<1>8. CASE CannotStart
  BY <1>3, <1>8 DEF CannotStart, Raises, Goes, Accounted
<1>9. CASE Opens \/ WaitsAgain \/ Wakes
  BY <1>4, <1>9 DEF Opens, WaitsAgain, Wakes, Goes, AfterTheWait
<1>10. CASE Navigates
  <2>1. CASE pc' = "check"
    BY <1>4, <2>1 DEF AfterTheWait
  <2>2. CASE Page \in raised' /\ pc' = "draining"
    BY <1>3, <2>2 DEF Accounted
  <2> QED  BY <1>10, <2>1, <2>2 DEF Navigates, Goes, Raises, StartsDrain
<1>11. CASE FindsTerminal
  <2>1. Accounted
    BY <1>11, Bounds DEF FindsTerminal, Terminal, TerminalFailure, Accounted, About, Missing
  <2>2. pc' = "settling" /\ raised' = raised
    BY <1>11 DEF FindsTerminal, Goes
  <2> QED  BY <1>1, <1>3, <2>1, <2>2, StaysExplained
<1>12. CASE TimeIsUp
  <2>1. pc' = "draining" /\ raised' = raised \cup Unexplained /\ UNCHANGED <<captures, found>>
    BY <1>12 DEF TimeIsUp, Raises, StartsDrain, Goes, kept
  <2>2. ASSUME NEW n \in Missing PROVE n \in About' \cap Expected
    BY <2>1, <2>2 DEF About, Unexplained, TerminalFailure, Missing
  <2>3. Missing' = Missing
    BY <2>1 DEF Missing, Captured
  <2>4. Accounted'
    BY <2>2, <2>3 DEF Accounted
  <2> QED  BY <1>3, <2>1, <2>4
<1>13. CASE Settles \/ LeavesDrain \/ Shoots \/ LeavesSecondDrain \/ Closes \/ Quits
  BY <1>6, <1>13 DEF Settles, LeavesDrain, Shoots, LeavesSecondDrain, Closes, Quits, DrainEnds,
     StartsDrain, Goes, Raises, AfterTheWait
<1>14. CASE Ends
  <2>1. CASE cancelled
    BY <1>5, <1>14, <2>1 DEF Ends
  <2>2. CASE ~cancelled
    <3>1. Accounted /\ result' = [captured |-> Captured, about |-> About] /\ pc' = "done"
      BY <1>14, <2>2 DEF Ends, ExplainedOK, AfterTheWait, About
    <3>2. result'.captured = Captured /\ result'.about = About
      BY <3>1
    <3>3. raised \subseteq About /\ (Missing = {} => Expected \subseteq Captured)
      BY DEF About, Missing
    <3>4. \/ Expected \subseteq result'.captured \/ Page \in result'.about
          \/ result'.about \cap Expected # {}
      BY <3>1, <3>2, <3>3 DEF Accounted
    <3> QED  BY <3>1, <3>4 DEF ExplainedOK, AfterTheWait
  <2> QED  BY <2>1, <2>2
<1>15. CASE IsCancelled
  BY <1>5, <1>15 DEF IsCancelled
<1>16. CASE UNCHANGED vars
  BY <1>2, <1>16 DEF vars, runner
<1> QED
  BY <1>7, <1>8, <1>9, <1>10, <1>11, <1>12, <1>13, <1>14, <1>15, <1>16
  DEF Next, Running, InTime, OfTheBrowser

----------------------------------------------------------------------------
LEMMA NextNoLostWakeup == ASSUME IInv, [Next]_vars PROVE NoLostWakeup'
<1>1. CASE Quiet
  <2>1. UNCHANGED <<captures, found, changed>>
    BY <1>1 DEF Quiet, kept
  <2>2. Terminal' = Terminal
    BY <2>1 DEF Terminal, Missing, Captured, TerminalFailure
  <2>3. pc' = "waiting" /\ ~WaitsAgain => pc = "waiting"
    BY DEF Next, Running, InTime, OfTheBrowser, vars, runner, Responds, Loads, HandlesResponse, TaskFails, FetchesBody,
       CannotStart, Opens, Navigates, FindsTerminal, Wakes, TimeIsUp, Settles, LeavesDrain,
       Shoots, LeavesSecondDrain, Closes, Quits, Ends, IsCancelled, Goes, StartsDrain
  <2>4. WaitsAgain => ~Terminal
    BY DEF WaitsAgain
  <2> QED  BY <2>1, <2>2, <2>3, <2>4 DEF IInv, NoLostWakeup
<1>2. CASE WaitsAgain
  <2>1. ~Terminal'
    BY <1>2 DEF WaitsAgain, Terminal, Missing, Captured, TerminalFailure
  <2> QED  BY <2>1 DEF NoLostWakeup
<1>3. ASSUME NEW r \in Responses, NEW x, Delivers(r, x) PROVE NoLostWakeup'
  BY <1>3, DeliversGrows DEF IInv, NoLostWakeup
<1> QED  BY <1>1, <1>2, <1>3, KindsOfSteps DEF IInv

LEMMA NextIInv == IInv /\ [Next]_vars => IInv'
<1> SUFFICES ASSUME IInv, [Next]_vars PROVE IInv'
  OBVIOUS
<1>1. TypesOK'
  BY KindsOfSteps, DeliversTypes, SameWhenWaiting DEF IInv, Quiet
<1>2. WaitsAgain => RichestIsKept'
  BY SameWhenWaiting DEF IInv, RichestIsKept
<1>3. RichestIsKept'
  BY <1>2, KindsOfSteps, QuietRichest, DeliversRichest DEF IInv
<1> QED  BY <1>1, <1>3, NextNoLostWakeup, NextExplained DEF IInv

\* What the proofs below rest on holds throughout every behaviour.
THEOREM Invariance == Spec => []IInv
BY InitIInv, NextIInv, PTL DEF Spec

\* No wait of PlaywrightCaptureRunner.run for _state_changed sleeps through the change
\* that would have ended it, wherever between its look and its wait the answer arrives.
THEOREM NoWakeupIsLost == Spec => []NoLostWakeup
<1>1. IInv => NoLostWakeup
  BY DEF IInv
<1> QED  BY <1>1, Invariance, PTL

\* ResponseCapture keeps the richest payload of each name, whichever of the two ways of
\* each of its responses delivers it, in whatever order and however often.
THEOREM RichestPayloadIsKept == Spec => []RichestIsKept
<1>1. IInv => RichestIsKept
  BY DEF IInv
<1> QED  BY <1>1, Invariance, PTL

\* A run that returns without all the captures it was to make has a diagnostic of it.
THEOREM EveryGapIsExplained == Spec => []GapsAreExplained
<1>1. IInv => GapsAreExplained
  BY DEF IInv, ExplainedOK, GapsAreExplained
<1> QED  BY <1>1, Invariance, PTL
----------------------------------------------------------------------------
(* Sets of pairs in order.                                                 *)

Pairs == Int \X Int
Rank(S, x) == Cardinality({y \in S : Precedes(y, x)})

LEMMA Smallest ==
  ASSUME NEW T \in SUBSET Nat, T # {} PROVE \E m \in T : \A n \in T : m <= n
<1> DEFINE less == {ss \in Nat \X Nat : ss[1] < ss[2]}
<1>1. IsWellFoundedOn(less, Nat)
  BY NatLessThanWellFounded DEF OpToRel
<1>2. PICK m \in T : \A n \in T : <<n, m>> \notin less
  BY <1>1, WFMin
<1>3. ASSUME NEW n \in T PROVE m <= n
  <2>1. <<n, m>> \notin less /\ n \in Nat /\ m \in Nat
    BY <1>2
  <2>2. ~(n < m)
    BY <2>1
  <2> QED  BY <2>1, <2>2
<1> QED  BY <1>3

LEMMA PairsInOrder ==
  /\ \A a \in Pairs : ~Precedes(a, a)
  /\ \A a, b \in Pairs : a = b \/ Precedes(a, b) \/ Precedes(b, a)
  /\ \A a, b, c \in Pairs : Precedes(a, b) /\ Precedes(b, c) => Precedes(a, c)
BY DEF Pairs, Precedes

LEMMA RankGrows ==
  ASSUME NEW S \in SUBSET Pairs, IsFiniteSet(S)
  PROVE  /\ Cardinality(S) \in Nat
         /\ \A x \in S : Rank(S, x) \in 0..(Cardinality(S) - 1)
         /\ \A x, y \in S : Precedes(x, y) => Rank(S, x) < Rank(S, y)
<1> DEFINE Before(x) == {y \in S : Precedes(y, x)}
<1>1. Cardinality(S) \in Nat /\ \A x \in S : IsFiniteSet(Before(x)) /\ Cardinality(Before(x)) \in Nat
  BY FS_Subset, FS_CardinalityType
<1>2. ASSUME NEW x \in S PROVE Cardinality(Before(x)) < Cardinality(S)
  <2>1. Before(x) \subseteq S /\ x \notin Before(x)
    BY PairsInOrder
  <2> QED  BY <1>1, <2>1, FS_Subset
<1>3. ASSUME NEW x \in S, NEW y \in S, Precedes(x, y)
      PROVE  Cardinality(Before(x)) < Cardinality(Before(y))
  <2>1. Before(x) \subseteq Before(y) /\ x \in Before(y) /\ x \notin Before(x)
    BY <1>3, PairsInOrder
  <2> HIDE DEF Before
  <2> QED  BY <1>1, <2>1, FS_Subset
<1> HIDE DEF Before
<1>4. \A x \in S : Rank(S, x) = Cardinality(Before(x))
  BY DEF Rank, Before
<1> QED  BY <1>1, <1>2, <1>3, <1>4

LEMMA RankIsOnto ==
  ASSUME NEW S \in SUBSET Pairs, IsFiniteSet(S), NEW n \in 1..Cardinality(S)
  PROVE  \E x \in S : Rank(S, x) = n - 1
<1> DEFINE T == 0..(Cardinality(S) - 1)
           rank == [x \in S |-> Rank(S, x)]
<1>1. Cardinality(S) \in Nat
  BY RankGrows
<1>2. rank \in Injection(S, T)
  <2>1. rank \in [S -> T]
    BY RankGrows
  <2>2. ASSUME NEW x \in S, NEW y \in S, rank[x] = rank[y] PROVE x = y
    <3>1. rank[x] = Rank(S, x) /\ rank[y] = Rank(S, y) /\ rank[x] \in Int
      BY <2>1
    <3>2. ~Precedes(x, y) /\ ~Precedes(y, x)
      BY <2>2, <3>1, RankGrows
    <3> QED  BY <3>2, PairsInOrder
  <2> QED  BY <2>1, <2>2 DEF Injection, IsInjective
<1>3. IsFiniteSet(T) /\ Cardinality(T) = Cardinality(S)
  <2> DEFINE last == Cardinality(S) - 1
  <2>1. 0 \in Int /\ last \in Int
    BY <1>1
  <2> HIDE DEF last
  <2>2. IsFiniteSet(0..last) /\ Cardinality(0..last) = IF 0 > last THEN 0 ELSE last - 0 + 1
    BY <2>1, FS_Interval
  <2> QED  BY <1>1, <2>2 DEF last
<1>4. rank \in Surjection(S, T)
  BY <1>2, <1>3, FS_Injection
<1>5. n - 1 \in T
  BY <1>1
<1>6. PICK x \in S : rank[x] = n - 1
  BY <1>4, <1>5 DEF Surjection
<1> QED  BY <1>6

\* A finite set of pairs has a sequence, in order, without a repetition or an omission.
LEMMA InOrderSorts ==
  ASSUME NEW S \in SUBSET Pairs, IsFiniteSet(S)
  PROVE  /\ Cardinality(S) \in Nat
         /\ InOrder(S) \in [1..Cardinality(S) -> S]
         /\ \A i, j \in 1..Cardinality(S) : i < j => Precedes(InOrder(S)[i], InOrder(S)[j])
         /\ \A x \in S : \E n \in 1..Cardinality(S) : InOrder(S)[n] = x
<1> DEFINE N == 1..Cardinality(S)
<1>1. Cardinality(S) \in Nat
  BY RankGrows
<1>2. ASSUME NEW n \in N PROVE InOrder(S)[n] \in S /\ Rank(S, InOrder(S)[n]) = n - 1
  <2>1. \E x \in S : Cardinality({y \in S : Precedes(y, x)}) = n - 1
    BY RankIsOnto DEF Rank
  <2>2. InOrder(S)[n] = CHOOSE x \in S : Cardinality({y \in S : Precedes(y, x)}) = n - 1
    BY DEF InOrder
  <2> QED  BY <2>1, <2>2 DEF Rank
<1>3. InOrder(S) \in [N -> S]
  BY <1>2 DEF InOrder
<1>4. ASSUME NEW i \in N, NEW j \in N, i < j PROVE Precedes(InOrder(S)[i], InOrder(S)[j])
  <2>1. InOrder(S)[i] # InOrder(S)[j]
    BY <1>1, <1>2, <1>4
  <2>2. ~Precedes(InOrder(S)[j], InOrder(S)[i])
    BY <1>1, <1>2, <1>4, RankGrows
  <2> QED  BY <1>2, <2>1, <2>2, PairsInOrder
<1>5. ASSUME NEW x \in S PROVE \E n \in N : InOrder(S)[n] = x
  <2>1. Rank(S, x) \in 0..(Cardinality(S) - 1)
    BY RankGrows
  <2>2. PICK n \in N : n - 1 = Rank(S, x)
    BY <1>1, <2>1
  <2>3. Rank(S, InOrder(S)[n]) = Rank(S, x)
    BY <1>2, <2>2
  <2>4. ~Precedes(x, InOrder(S)[n]) /\ ~Precedes(InOrder(S)[n], x)
    BY <1>2, <2>1, <2>3, RankGrows
  <2> QED  BY <1>2, <2>4, PairsInOrder
<1> QED  BY <1>1, <1>3, <1>4, <1>5

----------------------------------------------------------------------------
(* What an answer becomes.                                                 *)

LEMMA Sequences ==
  ASSUME NEW s, IsSequence(s)
  PROVE  /\ Len(s) \in Nat /\ DOMAIN s = 1..Len(s) /\ IsFiniteSet(DOMAIN s)
         /\ DOMAIN s \subseteq Nat /\ \A i \in DOMAIN s : s[i] \in ToSet(s)
<1>1. s \in Seq(ToSet(s))
  BY DEF IsSequence
<1>2. Len(s) \in Nat /\ DOMAIN s = 1..Len(s)
  BY <1>1
<1>3. IsFiniteSet(1..Len(s))
  BY <1>2, FS_Interval
<1> QED  BY <1>2, <1>3 DEF ToSet

LEMMA FiniteImage ==
  ASSUME NEW f, NEW S, IsFiniteSet(S) PROVE IsFiniteSet({f[x] : x \in S})
<1> DEFINE T == {f[x] : x \in S}
           g == [x \in S |-> f[x]]
<1>1. g \in Surjection(S, T)
  BY DEF Surjection
<1> HIDE DEF g, T
<1>2. IsFiniteSet(T)
  BY <1>1, FS_Surjection
<1> QED  BY <1>2 DEF T

LEMMA FiniteUnion ==
  ASSUME NEW f, NEW S, IsFiniteSet(S), \A x \in S : IsFiniteSet(f[x])
  PROVE  IsFiniteSet(UNION {f[x] : x \in S})
<1> DEFINE T == {f[x] : x \in S}
<1>1. IsFiniteSet(T)
  BY FiniteImage
<1>2. \A t \in T : IsFiniteSet(t)
  OBVIOUS
<1> HIDE DEF T
<1>3. IsFiniteSet(UNION T)
  BY <1>1, <1>2, FS_UNION
<1> QED  BY <1>3 DEF T

\* Raw itineraries of an answer.
RawOK(raw) ==
  /\ IsFiniteSet(raw.prices) /\ raw.prices \subseteq {NoPrice} \cup Nat
  /\ IsSequence(raw.legs) /\ \A leg \in ToSet(raw.legs) : IsSequence(leg)
  /\ raw.remarks \in Nat \X Nat

LEMMA PlacesArePairs ==
  ASSUME NEW raw, RawOK(raw) PROVE Places(raw) \in SUBSET Pairs /\ IsFiniteSet(Places(raw))
<1> DEFINE places == [leg \in DOMAIN raw.legs |-> {leg} \X DOMAIN raw.legs[leg]]
<1>1. IsSequence(raw.legs) /\ \A leg \in DOMAIN raw.legs : IsSequence(raw.legs[leg])
  BY Sequences DEF RawOK
<1>2. /\ IsFiniteSet(DOMAIN raw.legs) /\ DOMAIN raw.legs \subseteq Nat
      /\ \A leg \in DOMAIN raw.legs :
           IsFiniteSet(DOMAIN raw.legs[leg]) /\ DOMAIN raw.legs[leg] \subseteq Nat
  BY <1>1, Sequences
<1>3. \A leg \in DOMAIN raw.legs : IsFiniteSet(places[leg])
  BY <1>2, FS_Product, FS_Singleton
<1> HIDE DEF places
<1>4. IsFiniteSet(UNION {places[leg] : leg \in DOMAIN raw.legs})
  BY <1>2, <1>3, FiniteUnion
<1>5. Places(raw) = UNION {places[leg] : leg \in DOMAIN raw.legs}
  BY DEF Places, places
<1>6. Places(raw) \subseteq Pairs
  BY <1>2 DEF Places, Pairs
<1> QED  BY <1>4, <1>5, <1>6

\* Its rows stand in order, one for each segment that can be placed.
LEMMA SegmentsOf ==
  ASSUME NEW raw, RawOK(raw)
  PROVE  /\ DOMAIN Segments(raw) \subseteq Nat
         /\ \A place \in PlacedIn(raw) : \E n \in DOMAIN Segments(raw) :
              Segments(raw)[n] = [leg |-> place[1] - 1, segment |-> At(raw, place)]
<1> DEFINE S == PlacedIn(raw)
<1>1. S \in SUBSET Pairs /\ IsFiniteSet(S)
  BY PlacesArePairs, FS_Subset DEF PlacedIn, Read
<1> HIDE DEF S
<1>2. /\ Cardinality(S) \in Nat /\ InOrder(S) \in [1..Cardinality(S) -> S]
      /\ \A x \in S : \E n \in 1..Cardinality(S) : InOrder(S)[n] = x
  BY <1>1, InOrderSorts
<1>3. Segments(raw) = [n \in 1..Cardinality(S) |->
        [leg |-> InOrder(S)[n][1] - 1, segment |-> At(raw, InOrder(S)[n])]]
  BY <1>2 DEF Segments, S
<1>4. DOMAIN Segments(raw) = 1..Cardinality(S) /\ DOMAIN Segments(raw) \subseteq Nat
  BY <1>2, <1>3
<1>5. ASSUME NEW place \in S
      PROVE  \E n \in 1..Cardinality(S) :
               Segments(raw)[n] = [leg |-> place[1] - 1, segment |-> At(raw, place)]
  <2>1. PICK n \in 1..Cardinality(S) : InOrder(S)[n] = place
    BY <1>2
  <2> QED  BY <1>3, <2>1
<1> QED  BY <1>4, <1>5 DEF S

RowsOK(rows) ==
  /\ IsFiniteSet(DOMAIN rows) /\ DOMAIN rows \subseteq Nat
  /\ \A i \in DOMAIN rows :
       /\ rows[i].prices \subseteq Nat /\ IsFiniteSet(rows[i].prices)
       /\ rows[i].direct \in BOOLEAN /\ DOMAIN rows[i].segments \subseteq Nat

LEMMA Assumed ==
  /\ Runs \subseteq Nat /\ IsFiniteSet(Runs) /\ DayLength \in Nat \ {0} /\ PageLimit \in Nat \ {0}
  /\ MaxTime \in Nat /\ Window \in Nat /\ ReadAt \in Nat /\ MaxDiagnostics \in Nat /\ Readings \subseteq Lists \X Filters
  /\ RoundTrip \in BOOLEAN /\ IsFiniteSet(Filters)
  /\ \A f \in Filters : f.direct \in BOOLEAN /\ f.maxPrice \in {Nothing} \cup Nat
  /\ \A answer \in Answers : AnswerOK(Provided[answer])
BY FareReadsAssumption

LEMMA PageOf ==
  ASSUME NEW a \in Answers
  PROVE  /\ IsFiniteSet(DOMAIN Provided[a].itineraries) /\ DOMAIN Provided[a].itineraries \subseteq Nat
         /\ \A i \in DOMAIN Provided[a].itineraries : RawOK(Provided[a].itineraries[i])
<1>1. AnswerOK(Provided[a])
  BY Assumed
<1> QED  BY <1>1, Sequences DEF AnswerOK, RawOK

LEMMA StoredOK == ASSUME NEW x \in Searches PROVE RowsOK(Stored[x])
<1> DEFINE page == Provided[x[1]].itineraries
           d == x[2]
<1>0. x[1] \in Answers /\ d \in BOOLEAN
  BY DEF Searches
<1>1. /\ IsFiniteSet(DOMAIN page) /\ DOMAIN page \subseteq Nat
      /\ \A i \in DOMAIN page : RawOK(page[i])
  BY <1>0, PageOf
<1>2. Stored[x] = [i \in Persisted(page, d) |-> Itinerary(page[i])]
  BY DEF Stored, Rows
<1>3. Persisted(page, d) \subseteq DOMAIN page /\ IsFiniteSet(Persisted(page, d))
  BY <1>1, FS_Subset DEF Persisted, Kept
<1>4. ASSUME NEW raw, RawOK(raw)
      PROVE  /\ Itinerary(raw).prices \subseteq Nat /\ IsFiniteSet(Itinerary(raw).prices)
             /\ Itinerary(raw).direct \in BOOLEAN /\ DOMAIN Itinerary(raw).segments \subseteq Nat
  <2>1. ReadPrices(raw) \subseteq Nat /\ IsFiniteSet(ReadPrices(raw))
    BY <1>4, FS_Subset DEF RawOK, ReadPrices
  <2>2. DOMAIN Segments(raw) \subseteq Nat
    BY <1>4, SegmentsOf
  <2> QED  BY <2>1, <2>2 DEF Itinerary, IsDirect
<1> HIDE DEF page, d
<1> QED  BY <1>1, <1>2, <1>3, <1>4 DEF RowsOK

----------------------------------------------------------------------------
(* One price, found in different ways.                                     *)

LEMMA CheapestIs ==
  ASSUME NEW P \in SUBSET Nat, NEW m \in P, \A n \in P : m <= n PROVE Cheapest(P) = {m}
<1>1. Min(P) = CHOOSE x \in P : \A y \in P : x <= y
  BY DEF Min
<1>2. Min(P) \in P /\ \A y \in P : Min(P) <= y
  BY <1>1
<1>3. Min(P) = m
  <2>1. Min(P) <= m /\ m <= Min(P) /\ Min(P) \in Nat /\ m \in Nat
    BY <1>2
  <2> QED  BY <2>1
<1> QED  BY <1>3 DEF Cheapest

LEMMA CheapestOne ==
  ASSUME NEW P \in SUBSET Nat
  PROVE  \/ P = {} /\ Cheapest(P) = {}
         \/ \E m \in P : Cheapest(P) = {m} /\ \A n \in P : m <= n
<1>1. CASE P = {}
  BY <1>1 DEF Cheapest
<1>2. CASE P # {}
  <2>1. PICK m \in P : \A n \in P : m <= n
    BY <1>2, Smallest
  <2> QED  BY <2>1, CheapestIs
<1> QED  BY <1>1, <1>2

LEMMA SameCheapest ==
  ASSUME NEW P \in SUBSET Nat, NEW Q \in SUBSET P, \A p \in P : \E q \in Q : q <= p
  PROVE  Cheapest(P) = Cheapest(Q)
<1>1. CASE P = {}
  BY <1>1 DEF Cheapest
<1>2. CASE P # {}
  <2>1. PICK m \in P : Cheapest(P) = {m} /\ \A n \in P : m <= n
    BY <1>2, CheapestOne
  <2>2. PICK q \in Q : q <= m
    OBVIOUS
  <2>3. q = m
    BY <2>1, <2>2
  <2>4. Cheapest(Q) = {m}
    BY <2>1, <2>3, CheapestIs
  <2> QED  BY <2>1, <2>4
<1> QED  BY <1>1, <1>2

LEMMA OffersOf ==
  ASSUME NEW rows, RowsOK(rows), NEW o \in Offers(rows)
  PROVE  o = <<o[1], o[2]>> /\ o[1] \in Nat /\ o[2] \in DOMAIN rows /\ rows[o[2]].direct \in BOOLEAN
BY DEF RowsOK, Offers

\* The two ways to state a filter admit the same itineraries.
LEMMA AdmitsSame ==
  ASSUME NEW f \in Filters, NEW row, row.direct \in BOOLEAN, DOMAIN row.segments \subseteq Nat
  PROVE  Admits(f, row) = AdmitsRow(f, row)
<1> DEFINE out == Outbound(row)
           to(k) == row.segments[k].segment.to
           airline(k) == row.segments[k].segment.airline
<1>1. out \subseteq Nat /\ f.direct \in BOOLEAN
  BY Assumed DEF Outbound
<1>2. (\E k \in DOMAIN row.segments : airline(k) \in f.airlines)
      <=> {airline(k) : k \in DOMAIN row.segments} \cap f.airlines # {}
  OBVIOUS
<1>3. (\E k \in out : to(k) \in f.arrivals /\ \A later \in out : later <= k)
      <=> \E k \in {x \in out : ~\E later \in out : later > x} : to(k) \in f.arrivals
  <2> HIDE DEF to, out
  <2>1. \A k, later \in out : later <= k <=> ~(later > k)
    BY <1>1
  <2> QED  BY <2>1
<1>4. FirstMatches(f, row) <=>
        /\ 1 \in out
        /\ f.departures = {} \/ row.segments[1].segment.from \in f.departures
        /\ f.window = <<>> \/ (/\ f.window[1] <= row.segments[1].segment.departs
                               /\ row.segments[1].segment.departs < f.window[2])
  BY DEF FirstMatches
<1> HIDE DEF out, to, airline
<1>5. AdmitsRow(f, row) <=>
        /\ ~f.direct \/ row.direct
        /\ f.maxStops = Nothing \/ row.stops <= f.maxStops
        /\ f.maxMinutes = Nothing \/ row.minutes <= f.maxMinutes
        /\ f.airlines = {} \/ {airline(k) : k \in DOMAIN row.segments} \cap f.airlines # {}
        /\ (f.departures = {} /\ f.window = <<>>) \/ FirstMatches(f, row)
        /\ f.arrivals = {} \/ \E k \in {x \in out : ~\E later \in out : later > x} : to(k) \in f.arrivals
  BY DEF AdmitsRow, out, to, airline
<1>6. Admits(f, row) <=>
        /\ f.direct => row.direct
        /\ f.maxStops # Nothing => row.stops <= f.maxStops
        /\ f.maxMinutes # Nothing => row.minutes <= f.maxMinutes
        /\ f.airlines # {} => \E k \in DOMAIN row.segments : airline(k) \in f.airlines
        /\ f.departures # {} \/ f.window # <<>> =>
             /\ 1 \in out
             /\ f.departures # {} => row.segments[1].segment.from \in f.departures
             /\ f.window # <<>> => /\ f.window[1] <= row.segments[1].segment.departs
                                   /\ row.segments[1].segment.departs < f.window[2]
        /\ f.arrivals # {} => \E k \in out : to(k) \in f.arrivals /\ \A later \in out : later <= k
  BY DEF Admits, out, to, airline
<1>7. Admits(f, row) <=> AdmitsRow(f, row)
  BY <1>1, <1>2, <1>3, <1>4, <1>5, <1>6
<1>8. Admits(f, row) \in BOOLEAN /\ AdmitsRow(f, row) \in BOOLEAN
  BY DEF Admits, AdmitsRow
<1> QED  BY <1>7, <1>8

BestOfRows(rows, f) == Cheapest({o[1] : o \in FoundIn(rows, f)})

LEMMA OfferPrices ==
  ASSUME NEW rows, RowsOK(rows), NEW O \in SUBSET Offers(rows)
  PROVE  {o[1] : o \in O} \in SUBSET Nat
BY OffersOf

\* A filter that needs no scan asks for nothing but directness.
LEMMA AdmitsUnscanned ==
  ASSUME NEW f, ~NeedsScan(f), NEW row PROVE Admits(f, row) <=> (f.direct => row.direct)
<1>1. /\ f.airlines = {} /\ f.departures = {} /\ f.arrivals = {}
      /\ f.maxStops = Nothing /\ f.maxMinutes = Nothing /\ f.window = <<>>
  BY DEF NeedsScan
<1> QED  BY <1>1 DEF Admits

LEMMA FlaggedAreCheapest ==
  ASSUME NEW rows, RowsOK(rows), NEW o \in Offers(rows)
  PROVE  \E h \in Offers(rows) :
           /\ h[1] <= o[1] /\ rows[h[2]].direct = rows[o[2]].direct /\ IsLowest(rows, h)
<1> DEFINE same == {h \in Offers(rows) : rows[h[2]].direct = rows[o[2]].direct}
<1>1. {h[1] : h \in same} \in SUBSET Nat /\ o[1] \in {h[1] : h \in same}
  BY OfferPrices
<1>2. PICK m \in {h[1] : h \in same} : \A n \in {h[1] : h \in same} : m <= n
  BY <1>1, Smallest
<1>3. PICK h \in same : h[1] = m
  BY <1>2
<1>4. \A other \in same : h[1] <= other[1]
  BY <1>2, <1>3
<1> QED  BY <1>3, <1>4 DEF IsLowest

LEMMA ScanOrFlags ==
  ASSUME NEW rows, RowsOK(rows), NEW f \in Filters, NEW admitted,
         \A i \in DOMAIN rows : i \in admitted <=> Admits(f, rows[i])
  PROVE  RunMinimum(rows, f, admitted) = BestOfRows(rows, f)
<1> DEFINE F == {o \in Offers(rows) :
             /\ WithinPrice(f, o[1]) /\ (f.direct => rows[o[2]].direct)
             /\ IF NeedsScan(f) THEN o[2] \in admitted ELSE IsLowest(rows, o)}
           G == FoundIn(rows, f)
           PF == {o[1] : o \in F}
           PG == {o[1] : o \in G}
<1>1. RunMinimum(rows, f, admitted) = Cheapest(PF) /\ BestOfRows(rows, f) = Cheapest(PG)
  BY DEF RunMinimum, BestOfRows
<1>2. G = {o \in Offers(rows) : WithinPrice(f, o[1]) /\ Admits(f, rows[o[2]])}
  BY DEF FoundIn
<1>3. CASE NeedsScan(f)
  <2>1. \A o \in Offers(rows) : o \in F <=> o \in G
    BY <1>2, <1>3, OffersOf DEF Admits
  <2>2. F = G
    BY <1>2, <2>1
  <2> QED  BY <1>1, <2>2
<1>4. CASE ~NeedsScan(f)
  <2>1. \A i \in DOMAIN rows : Admits(f, rows[i]) <=> (f.direct => rows[i].direct)
    BY <1>4, AdmitsUnscanned
  <2>2. F \subseteq G
    BY <1>2, <1>4, <2>1, OffersOf
  <2>3. ASSUME NEW o \in G PROVE \E h \in F : h[1] <= o[1]
    <3>1. PICK h \in Offers(rows) :
            h[1] <= o[1] /\ rows[h[2]].direct = rows[o[2]].direct /\ IsLowest(rows, h)
      BY <1>2, FlaggedAreCheapest
    <3>2. h[1] \in Nat /\ o[1] \in Nat /\ h[2] \in DOMAIN rows /\ o[2] \in DOMAIN rows
      BY <1>2, OffersOf
    <3>3. WithinPrice(f, h[1])
      BY <1>2, <3>1, <3>2, Assumed DEF WithinPrice
    <3>4. f.direct => rows[h[2]].direct
      BY <1>2, <2>1, <3>1, <3>2
    <3> QED  BY <1>4, <3>1, <3>3, <3>4
  <2>4. PG \in SUBSET Nat
    BY <1>2, OfferPrices
  <2>5. PF \in SUBSET PG /\ \A p \in PG : \E q \in PF : q <= p
    BY <2>2, <2>3
  <2> HIDE DEF PF, PG
  <2>6. Cheapest(PG) = Cheapest(PF)
    BY <2>4, <2>5, SameCheapest
  <2> QED  BY <1>1, <2>6
<1> QED  BY <1>3, <1>4

\* Every query finds the best price of an answer.
LEMMA QueriesAgree ==
  ASSUME NEW rows, RowsOK(rows), NEW f \in Filters
  PROVE  /\ HistoryMinimum(rows, f) = BestOfRows(rows, f)
         /\ DashboardMinimum(rows, f) = BestOfRows(rows, f)
         /\ BestOfferIn(rows, f) = BestOfRows(rows, f)
         /\ CurrentPriceIn(rows, f) = BestOfRows(rows, f)
<1>1. \A i \in DOMAIN rows : Admits(f, rows[i]) = AdmitsRow(f, rows[i])
  BY AdmitsSame DEF RowsOK
<1>2. HistoryMinimum(rows, f) = BestOfRows(rows, f)
  <2> DEFINE admitted == {i \in DOMAIN rows : Admits(f, rows[i])}
  <2>1. RunMinimum(rows, f, admitted) = BestOfRows(rows, f)
    BY ScanOrFlags
  <2> QED  BY <2>1 DEF HistoryMinimum
<1>3. DashboardMinimum(rows, f) = BestOfRows(rows, f)
  <2> DEFINE admitted == {i \in DOMAIN rows : AdmitsRow(f, rows[i])}
  <2>1. \A i \in DOMAIN rows : i \in admitted <=> Admits(f, rows[i])
    BY <1>1
  <2> HIDE DEF admitted
  <2>2. RunMinimum(rows, f, admitted) = BestOfRows(rows, f)
    BY <2>1, ScanOrFlags
  <2> QED  BY <2>2 DEF DashboardMinimum, admitted
<1>4. BestOfferIn(rows, f) = BestOfRows(rows, f)
  <2>1. {x \in Offers(rows) : WithinPrice(f, x[1]) /\ AdmitsRow(f, rows[x[2]])}
        = {x \in Offers(rows) : WithinPrice(f, x[1]) /\ Admits(f, rows[x[2]])}
    BY <1>1, OffersOf
  <2> QED  BY <2>1 DEF BestOfferIn, BestOfRows, FoundIn
<1>5. CurrentPriceIn(rows, f) = BestOfRows(rows, f)
  <2>1. \A x \in Offers(rows) :
          ((f.direct => rows[x[2]].direct) /\ (NeedsScan(f) => Admits(f, rows[x[2]])))
          <=> Admits(f, rows[x[2]])
    <3> TAKE x \in Offers(rows)
    <3>1. CASE NeedsScan(f)
      BY <3>1 DEF Admits
    <3>2. CASE ~NeedsScan(f)
      BY <3>2, AdmitsUnscanned
    <3> QED  BY <3>1, <3>2
  <2>2. {x \in Offers(rows) : /\ WithinPrice(f, x[1]) /\ (f.direct => rows[x[2]].direct)
                              /\ NeedsScan(f) => Admits(f, rows[x[2]])}
        = {x \in Offers(rows) : WithinPrice(f, x[1]) /\ Admits(f, rows[x[2]])}
    BY <2>1
  <2> QED  BY <2>2 DEF CurrentPriceIn, BestOfRows, FoundIn
<1> QED  BY <1>2, <1>3, <1>4, <1>5

LEMMA OnePrice ==
  ASSUME NEW c \in Cases
  PROVE  /\ InHistory[c] = BestOf[c] /\ OnDashboard[c] = BestOf[c]
         /\ BestOffer[c] = BestOf[c] /\ CurrentPrice[c] = BestOf[c]
<1>1. PICK x \in Searches, f \in Filters : c = <<x[1], x[2], f>>
  BY DEF Cases
<1>2. <<c[1], c[2]>> \in Searches /\ c[3] \in Filters
  BY <1>1 DEF Searches
<1>3. RowsOK(RowsFor(c))
  BY <1>2, StoredOK DEF RowsFor
<1>4. BestOf[c] = BestOfRows(RowsFor(c), c[3])
  BY DEF BestOf, Found, BestOfRows
<1>5. /\ InHistory[c] = HistoryMinimum(RowsFor(c), c[3])
      /\ OnDashboard[c] = DashboardMinimum(RowsFor(c), c[3])
      /\ BestOffer[c] = BestOfferIn(RowsFor(c), c[3])
      /\ CurrentPrice[c] = CurrentPriceIn(RowsFor(c), c[3])
  BY DEF InHistory, OnDashboard, BestOffer, CurrentPrice
<1> HIDE DEF Cases
<1> QED  BY <1>2, <1>3, <1>4, <1>5, QueriesAgree
----------------------------------------------------------------------------
(* The state of the store.                                                 *)

RunState ==
  [stage : {"none"}]
  \cup [stage : {"captured"}, at : Nat, answer : Answers]
  \cup [stage : {"saved"}, at : Nat, answer : Answers, finished : Nat, failed : BOOLEAN]

StoreOK ==
  /\ now \in 0..MaxTime /\ directOnly \in BOOLEAN
  /\ run \in [Runs -> RunState]
  /\ \A r \in Runs : run[r].stage # "none" => run[r].at <= now

PairsOf(r) == DOMAIN CalendarOf[run[r].answer]

\* The calendar has every date of every saved run, and the run that observed it last.
CalendarInv ==
  /\ \A pair \in DOMAIN calendar : calendar[pair] \in Saved /\ pair \in PairsOf(calendar[pair])
  /\ \A s \in Saved : \A pair \in PairsOf(s) :
       pair \in DOMAIN calendar /\ run[s].at <= run[calendar[pair]].at

\* What a saved run keeps.
RunKept(r) ==
  run'[r].at = run[r].at /\ run'[r].answer = run[r].answer

LEMMA RunStates ==
  ASSUME StoreOK, NEW r \in Runs
  PROVE  /\ run[r] \in RunState
         /\ run[r].stage = "captured" => run[r].at \in Nat /\ run[r].answer \in Answers
         /\ run[r].stage = "saved" => /\ run[r].at \in Nat /\ run[r].answer \in Answers
                                      /\ run[r].finished \in Nat /\ run[r].failed \in BOOLEAN
<1>1. run[r] \in RunState
  BY DEF StoreOK
<1> QED  BY <1>1 DEF RunState

LEMMA SavedRuns ==
  ASSUME StoreOK, NEW r \in Saved
  PROVE  /\ r \in Runs /\ r \in Nat /\ run[r].at \in 0..now /\ run[r].answer \in Answers
         /\ run[r].finished \in Nat /\ PairsOf(r) = DOMAIN ReadCalendar(Provided[run[r].answer].calendar)
<1>1. r \in Runs /\ run[r].stage = "saved"
  BY DEF Saved
<1>2. run[r].at \in Nat /\ run[r].answer \in Answers /\ run[r].finished \in Nat
  BY <1>1, RunStates
<1>3. run[r].at <= now /\ now \in Nat
  BY <1>1 DEF StoreOK
<1> QED  BY <1>1, <1>2, <1>3, Assumed DEF PairsOf, CalendarOf

\* A run is saved, or the saved ones and the calendar stay as they are.
LEMMA NextRuns ==
  ASSUME StoreOK, [ReadsNext]_readsVars
  PROVE  /\ StoreOK' /\ directOnly' = directOnly /\ now <= now'
         /\ \A r \in Saved : RunKept(r)
         /\ \/ Saved' = Saved /\ calendar' = calendar
            \/ \E r \in Runs : /\ Saves(r) /\ r \notin Saved /\ Saved' = Saved \cup {r}
                               /\ run'[r].at = run[r].at /\ run'[r].answer = run[r].answer
<1> now \in Int /\ MaxTime \in Nat /\ 0 <= now /\ now <= MaxTime
  BY Assumed DEF StoreOK
<1>1. ASSUME NEW r \in Runs, NEW answer \in Answers, Captures(r, answer)
      PROVE  StoreOK' /\ Saved' = Saved /\ \A s \in Saved : RunKept(s)
  <2> DEFINE new == [stage |-> "captured", at |-> now, answer |-> answer]
  <2>1. new \in RunState
    BY DEF RunState
  <2>2. run' = [run EXCEPT ![r] = new] /\ now' = now /\ directOnly' = directOnly /\ run[r].stage = "none"
    BY <1>1 DEF Captures
  <2>3. new.stage = "captured" /\ new.at = now
    OBVIOUS
  <2> HIDE DEF new
  <2>4. run' \in [Runs -> RunState] /\ run'[r] = new /\ \A s \in Runs \ {r} : run'[s] = run[s]
    BY <2>1, <2>2 DEF StoreOK
  <2>5. StoreOK'
    BY <2>2, <2>3, <2>4 DEF StoreOK
  <2>6. Saved' = Saved /\ r \notin Saved
    BY <2>2, <2>3, <2>4 DEF Saved
  <2>7. \A s \in Saved : RunKept(s)
    BY <2>4, <2>6 DEF Saved, RunKept
  <2> QED  BY <2>5, <2>6, <2>7
<1>2. ASSUME NEW r \in Runs, Saves(r)
      PROVE  /\ StoreOK' /\ Saved' = Saved \cup {r} /\ r \notin Saved /\ \A s \in Saved : RunKept(s)
             /\ run'[r].at = run[r].at /\ run'[r].answer = run[r].answer
  <2> DEFINE new == [stage |-> "saved", at |-> run[r].at, answer |-> run[r].answer,
                     finished |-> run[r].at, failed |-> FALSE]
  <2>1. run[r].stage = "captured" /\ run[r].at \in Nat /\ run[r].answer \in Answers
    BY <1>2, RunStates DEF Saves
  <2>2. new \in RunState
    BY <2>1 DEF RunState
  <2>3. run' = [run EXCEPT ![r] = new] /\ now' = now /\ directOnly' = directOnly
    BY <1>2 DEF Saves, StoreOK
  <2>4. new.stage = "saved" /\ new.at = run[r].at /\ new.answer = run[r].answer
    OBVIOUS
  <2> HIDE DEF new
  <2>5. run' \in [Runs -> RunState] /\ run'[r] = new /\ \A s \in Runs \ {r} : run'[s] = run[s]
    BY <2>2, <2>3 DEF StoreOK
  <2>6. StoreOK'
    BY <2>1, <2>3, <2>4, <2>5 DEF StoreOK
  <2>7. Saved' = Saved \cup {r} /\ r \notin Saved
    BY <2>1, <2>4, <2>5 DEF Saved
  <2>8. \A s \in Saved : RunKept(s)
    BY <2>5, <2>7 DEF Saved, RunKept
  <2> QED  BY <2>4, <2>5, <2>6, <2>7, <2>8
<1>3. ASSUME NEW r \in Runs, FailsLate(r)
      PROVE  StoreOK' /\ Saved' = Saved /\ \A s \in Saved : RunKept(s)
  <2> DEFINE new == [run[r] EXCEPT !.failed = TRUE, !.finished = now]
  <2>1. run[r].stage = "saved" /\ run[r] \in RunState
    BY <1>3, RunStates DEF FailsLate, Succeeded, Saved
  <2>2. run[r] \in [stage : {"saved"}, at : Nat, answer : Answers, finished : Nat, failed : BOOLEAN]
    BY <2>1 DEF RunState
  <2>0. now \in Nat
    BY DEF StoreOK
  <2>3. new \in RunState /\ new.stage = "saved" /\ new.at = run[r].at /\ new.answer = run[r].answer
    BY <2>0, <2>2 DEF RunState
  <2>4. run' = [run EXCEPT ![r] = new] /\ now' = now /\ directOnly' = directOnly
    BY <1>3 DEF FailsLate, StoreOK
  <2> HIDE DEF new
  <2>5. run' \in [Runs -> RunState] /\ run'[r] = new /\ \A s \in Runs \ {r} : run'[s] = run[s]
    BY <2>3, <2>4 DEF StoreOK
  <2>6. StoreOK'
    BY <2>1, <2>3, <2>4, <2>5 DEF StoreOK
  <2>7. Saved' = Saved
    BY <2>1, <2>3, <2>5 DEF Saved
  <2>8. \A s \in Saved : RunKept(s)
    BY <2>3, <2>5 DEF Saved, RunKept
  <2> QED  BY <2>6, <2>7, <2>8
<1>4. ASSUME run' = run, directOnly' = directOnly, now' \in now..MaxTime
      PROVE  StoreOK' /\ Saved' = Saved /\ \A s \in Saved : RunKept(s)
  <2>1. \A r \in Runs : run[r].stage # "none" => run[r].at \in Nat
    BY RunStates DEF StoreOK, RunState
  <2>2. StoreOK'
    BY <1>4, <2>1 DEF StoreOK
  <2> QED  BY <1>4, <2>2 DEF Saved, RunKept
<1>5. ASSUME NEW r \in Runs, NEW answer \in Answers, Captures(r, answer)
      PROVE  directOnly' = directOnly /\ now' = now /\ calendar' = calendar
  BY <1>5 DEF Captures
<1>6. ASSUME NEW r \in Runs, Saves(r) PROVE directOnly' = directOnly /\ now' = now
  BY <1>6 DEF Saves
<1>7. ASSUME NEW r \in Runs, FailsLate(r)
      PROVE  directOnly' = directOnly /\ now' = now /\ calendar' = calendar
  BY <1>7 DEF FailsLate
<1>8. ASSUME \/ \E reading \in Readings : StartsReading(reading[1], reading[2])
             \/ ReadsPage \/ StopsReading \/ Maintains \/ Tick \/ UNCHANGED readsVars
      PROVE  run' = run /\ directOnly' = directOnly /\ calendar' = calendar /\ now' \in now..MaxTime
  BY <1>8 DEF StartsReading, ReadsPage, StopsReading, Maintains, Tick, readsVars
<1> QED  BY <1>1, <1>2, <1>3, <1>4, <1>5, <1>6, <1>7, <1>8 DEF ReadsNext

LEMMA NextCalendar ==
  ASSUME StoreOK, CalendarInv, [ReadsNext]_readsVars PROVE CalendarInv'
<1>1. CASE Saved' = Saved /\ calendar' = calendar
  <2>1. \A s \in Saved : RunKept(s)
    BY NextRuns
  <2> QED  BY <1>1, <2>1 DEF CalendarInv, PairsOf, RunKept
<1>2. ASSUME NEW r \in Runs, Saves(r), Saved' = Saved \cup {r},
             run'[r].at = run[r].at, run'[r].answer = run[r].answer
      PROVE  CalendarInv'
  <2> DEFINE mine == PairsOf(r)
             old == calendar
             before == run
  <2>0. r \notin Saved
    BY <1>2 DEF Saves, Saved
  <2>1. /\ \A s \in Saved : run'[s].at = run[s].at /\ run'[s].answer = run[s].answer
        /\ \A s \in Saved' : run'[s].at \in Int
        /\ \A s \in Saved : run[s].at \in Int
    <3>1. StoreOK' /\ \A s \in Saved : RunKept(s)
      BY NextRuns
    <3>2. \A s \in Saved' : s \in Runs /\ run'[s].stage = "saved"
      BY DEF Saved
    <3>3. \A s \in Runs : run'[s].stage = "saved" => run'[s].at \in Nat
      BY <3>1 DEF StoreOK, RunState
    <3> QED  BY <3>1, <3>2, <3>3, SavedRuns DEF RunKept
  <2>2. calendar' = [pair \in DOMAIN calendar \cup mine |->
           IF pair \in mine /\ (pair \in DOMAIN calendar => run[calendar[pair]].at <= run[r].at)
           THEN r ELSE calendar[pair]]
    BY <1>2 DEF Saves, Newest, PairsOf
  <2>3. \A s \in Saved : PairsOf(s)' = PairsOf(s)
    BY <2>1 DEF PairsOf
  <2>4. PairsOf(r)' = mine
    BY <1>2 DEF PairsOf
  <2> HIDE DEF mine
  <2>5. \A pair \in DOMAIN calendar : /\ calendar[pair] \in Saved /\ pair \in PairsOf(calendar[pair])
                                      /\ run'[calendar[pair]].at = run[calendar[pair]].at
    BY <2>1 DEF CalendarInv
  <2>6. ASSUME NEW pair \in DOMAIN calendar'
        PROVE  calendar'[pair] \in Saved' /\ pair \in DOMAIN CalendarOf[run'[calendar'[pair]].answer]
    <3>1. CASE calendar'[pair] = r
      <4>1. pair \in mine
        BY <1>2, <2>2, <2>5, <2>6, <3>1, <2>0
      <4>2. mine = DOMAIN CalendarOf[run'[r].answer]
        BY <2>4 DEF PairsOf
      <4> QED  BY <1>2, <3>1, <4>1, <4>2
    <3>2. CASE calendar'[pair] # r
      <4>1. pair \in DOMAIN calendar /\ calendar'[pair] = calendar[pair]
        BY <2>2, <2>6, <3>2
      <4>2. calendar[pair] \in Saved /\ pair \in PairsOf(calendar[pair])
        BY <2>5, <4>1
      <4>3. pair \in DOMAIN CalendarOf[run'[calendar[pair]].answer]
        BY <2>1, <4>2 DEF PairsOf
      <4> QED  BY <1>2, <4>1, <4>2, <4>3
    <3> QED  BY <3>1, <3>2
  <2>7. ASSUME NEW s \in Saved', NEW pair \in PairsOf(s)'
        PROVE  pair \in DOMAIN calendar' /\ run'[s].at <= run'[calendar'[pair]].at
    <3>1. s \in Saved => pair \in DOMAIN calendar /\ run[s].at <= run[calendar[pair]].at
      BY <2>3, <2>7 DEF CalendarInv
    <3>2. s = r => pair \in mine
      BY <2>4, <2>7
    <3>3. pair \in DOMAIN calendar'
      BY <1>2, <2>2, <3>1, <3>2
    <3>4. CASE pair \in mine /\ (pair \in DOMAIN calendar => run[calendar[pair]].at <= run[r].at)
      <4>1. calendar'[pair] = r
        BY <2>2, <3>3, <3>4
      <4>2. CASE s \in Saved
        <5>1. run'[s].at = run[s].at /\ run[s].at \in Int /\ run[r].at \in Int
          BY <1>2, <2>1, <4>2
        <5>2. run[s].at <= run[calendar[pair]].at /\ run[calendar[pair]].at <= run[r].at
          BY <3>1, <3>4, <4>2
        <5>3. run[calendar[pair]].at \in Int
          BY <2>1, <2>5, <3>1, <4>2
        <5> QED  BY <1>2, <3>3, <4>1, <5>1, <5>2, <5>3
      <4>3. CASE s = r
        BY <1>2, <2>1, <3>3, <4>1, <4>3
      <4> QED  BY <1>2, <2>7, <3>3, <4>2, <4>3
    <3>5. CASE ~(pair \in mine /\ (pair \in DOMAIN calendar => run[calendar[pair]].at <= run[r].at))
      <4>1. calendar'[pair] = calendar[pair] /\ pair \in DOMAIN calendar
        BY <2>2, <3>3, <3>5
      <4>2. run[calendar[pair]].at \in Int /\ run[r].at \in Int
        BY <1>2, <2>1, <2>5, <4>1
      <4>3. run'[calendar'[pair]].at = run[calendar[pair]].at
        BY <2>5, <4>1
      <4>4. CASE s \in Saved
        BY <2>1, <3>1, <3>3, <4>3, <4>4
      <4>5. CASE s = r
        BY <1>2, <3>2, <3>3, <3>5, <4>1, <4>2, <4>3, <4>5
      <4> QED  BY <1>2, <2>7, <4>1, <4>4, <4>5
    <3> QED  BY <3>4, <3>5
  <2> QED  BY <2>6, <2>7 DEF CalendarInv, PairsOf
<1> QED  BY <1>1, <1>2, NextRuns
----------------------------------------------------------------------------
(* The views of the store.                                                 *)

LEMMA OfSaved ==
  ASSUME StoreOK, NEW r \in Saved, NEW f \in Filters PROVE Of(r, f) \in Cases
<1>1. run[r].answer \in Answers /\ directOnly \in BOOLEAN
  BY SavedRuns DEF StoreOK
<1>2. <<run[r].answer, directOnly>> \in Searches
  BY <1>1 DEF Searches
<1> QED  BY <1>2 DEF Of, Cases

LEMMA MinimaAreBest ==
  ASSUME StoreOK, NEW f \in Filters, NEW from, NEW until
  PROVE  /\ RunMinima(InHistory, f, from, until) = RunMinima(BestOf, f, from, until)
         /\ RunMinima(OnDashboard, f, from, until) = RunMinima(BestOf, f, from, until)
<1> DEFINE S == {s \in Saved : from <= run[s].at /\ run[s].at < until}
<1>1. \A r \in S : InHistory[Of(r, f)] = BestOf[Of(r, f)] /\ OnDashboard[Of(r, f)] = BestOf[Of(r, f)]
  BY OfSaved, OnePrice
<1>2. /\ RunMinima(InHistory, f, from, until) = UNION {{<<r, p>> : p \in InHistory[Of(r, f)]} : r \in S}
      /\ RunMinima(OnDashboard, f, from, until) = UNION {{<<r, p>> : p \in OnDashboard[Of(r, f)]} : r \in S}
      /\ RunMinima(BestOf, f, from, until) = UNION {{<<r, p>> : p \in BestOf[Of(r, f)]} : r \in S}
  BY DEF RunMinima
<1> HIDE DEF S
<1>3. /\ {{<<r, p>> : p \in InHistory[Of(r, f)]} : r \in S} = {{<<r, p>> : p \in BestOf[Of(r, f)]} : r \in S}
      /\ {{<<r, p>> : p \in OnDashboard[Of(r, f)]} : r \in S} = {{<<r, p>> : p \in BestOf[Of(r, f)]} : r \in S}
  BY <1>1
<1> QED  BY <1>2, <1>3

LEMMA InRunMinima ==
  ASSUME NEW m, NEW f, NEW from, NEW until, NEW x
  PROVE  x \in RunMinima(m, f, from, until) <=>
           \E r \in Saved : /\ from <= run[r].at /\ run[r].at < until
                            /\ \E p \in m[Of(r, f)] : x = <<r, p>>
BY DEF RunMinima

\* Before and after a run, the others of the time.
LEMMA PreviousIsBest ==
  ASSUME StoreOK, NEW r \in Saved, NEW f \in Filters, NEW span
  PROVE  PreviousMinimum(r, f, span) = Cheapest(UNION {Best(s, f) : s \in
           {q \in Saved \ {r} : run[r].finished - span <= run[q].at /\ run[q].at < run[r].finished}})
<1> DEFINE from == run[r].finished - span
           M == RunMinima(InHistory, f, from, run[r].finished)
           P == {x[2] : x \in {y \in M : y[1] # r}}
           Q == UNION {Best(s, f) : s \in {q \in Saved \ {r} : from <= run[q].at /\ run[q].at < run[r].finished}}
<1>1. \A x : x \in M <=> \E q \in Saved : /\ from <= run[q].at /\ run[q].at < run[r].finished
                                          /\ \E p \in BestOf[Of(q, f)] : x = <<q, p>>
  BY MinimaAreBest, InRunMinima
<1>2. \A p : p \in Q <=> \E q \in Saved \ {r} : /\ from <= run[q].at /\ run[q].at < run[r].finished
                                                /\ p \in BestOf[Of(q, f)]
  BY DEF Best
<1> HIDE DEF M, from
<1>3. ASSUME NEW p \in P PROVE p \in Q
  <2>1. PICK x \in M : x[1] # r /\ x[2] = p
    OBVIOUS
  <2>2. PICK q \in Saved : /\ from <= run[q].at /\ run[q].at < run[r].finished
                           /\ \E b \in BestOf[Of(q, f)] : x = <<q, b>>
    BY <1>1, <2>1
  <2>3. q # r /\ p \in BestOf[Of(q, f)]
    BY <2>1, <2>2
  <2> QED  BY <1>2, <2>2, <2>3
<1>4. ASSUME NEW p \in Q PROVE p \in P
  <2>1. PICK q \in Saved \ {r} : /\ from <= run[q].at /\ run[q].at < run[r].finished
                                 /\ p \in BestOf[Of(q, f)]
    BY <1>2, <1>4
  <2>2. <<q, p>> \in M /\ <<q, p>>[1] # r /\ <<q, p>>[2] = p
    BY <1>1, <2>1
  <2> QED  BY <2>2
<1>5. P = Q
  BY <1>3, <1>4
<1> QED  BY <1>5 DEF PreviousMinimum, M, from

LEMMA InCalendarTrend ==
  ASSUME NEW pair, NEW asOf, NEW x
  PROVE  x \in CalendarTrend(pair, asOf) <=>
           \E r \in Saved : /\ pair \in PairsOf(r) /\ asOf - Window <= run[r].at /\ run[r].at <= asOf
                            /\ \E p \in Cost(Fare(r, pair)) : x = <<r, p>>
BY DEF CalendarTrend, PairsOf

LEMMA CalendarShowsLatest ==
  ASSUME StoreOK, CalendarInv, NEW pair \in DOMAIN calendar
  PROVE  LET trend == CalendarTrend(pair, now)
             last == {x \in trend : \A y \in trend : run[y[1]].at <= run[x[1]].at} IN
         /\ \A x \in trend : run[x[1]].at <= run[calendar[pair]].at
         /\ run[calendar[pair]].at >= now - Window =>
              UNION {Cost(fare) : fare \in LatestCalendarFare(pair)} \subseteq {x[2] : x \in last}
<1> DEFINE trend == CalendarTrend(pair, now)
           last == {x \in trend : \A y \in trend : run[y[1]].at <= run[x[1]].at}
           r == calendar[pair]
<1>1. r \in Saved /\ pair \in PairsOf(r) /\ run[r].at \in Int /\ run[r].at <= now
  BY SavedRuns DEF CalendarInv
<1>2. ASSUME NEW x \in trend PROVE run[x[1]].at <= run[r].at
  <2>1. PICK s \in Saved : pair \in PairsOf(s) /\ \E p \in Cost(Fare(s, pair)) : x = <<s, p>>
    BY InCalendarTrend
  <2> QED  BY <2>1 DEF CalendarInv
<1>3. LatestCalendarFare(pair) = {Fare(r, pair)}
  BY DEF LatestCalendarFare
<1>4. ASSUME now - Window <= run[r].at, NEW p \in Cost(Fare(r, pair)) PROVE p \in {x[2] : x \in last}
  <2>1. <<r, p>> \in trend
    BY <1>1, <1>4, InCalendarTrend
  <2>2. <<r, p>> \in last
    BY <1>2, <2>1
  <2>3. <<r, p>>[2] = p
    OBVIOUS
  <2> HIDE DEF last
  <2> QED  BY <2>2, <2>3
<1>5. run[r].at >= now - Window => now - Window <= run[r].at
  BY <1>1, Assumed DEF StoreOK
<1>6. run[r].at >= now - Window =>
        UNION {Cost(fare) : fare \in LatestCalendarFare(pair)} \subseteq {x[2] : x \in last}
  BY <1>3, <1>4, <1>5
<1> QED  BY <1>2, <1>6

LEMMA StoreAgrees == ASSUME StoreOK, CalendarInv PROVE ViewsAgree
<1> SUFFICES ASSUME NEW f \in Filters
    PROVE  /\ LatestFare(f) = UNION {Best(r, f) : r \in LatestRun}
           /\ LET all == UNION {{<<r, p>> : p \in Best(r, f)} : r \in Saved} IN
              /\ RunMinima(InHistory, f, 0, MaxTime + 1) = all
              /\ RunMinima(OnDashboard, f, 0, MaxTime + 1) = all
           /\ \A r \in Saved :
                /\ CurrentPrice[Of(r, f)] = Best(r, f)
                /\ PreviousMinimum(r, f, Window) = Cheapest(UNION {Best(s, f) : s \in
                     {q \in Saved \ {r} : run[r].finished - Window <= run[q].at /\ run[q].at < run[r].finished}})
           /\ \A pair \in {x \in DOMAIN calendar : RoundTrip <=> x[2] # 0} :
                LET trend == CalendarTrend(pair, now)
                    last == {x \in trend : \A y \in trend : run[y[1]].at <= run[x[1]].at} IN
                /\ \A x \in trend : run[x[1]].at <= run[calendar[pair]].at
                /\ run[calendar[pair]].at >= now - Window =>
                     UNION {Cost(fare) : fare \in LatestCalendarFare(pair)} \subseteq {x[2] : x \in last}
  BY DEF ViewsAgree, Asked
<1>1. LatestFare(f) = UNION {Best(r, f) : r \in LatestRun}
  <2>1. LatestRun \subseteq Saved
    BY DEF LatestRun, Succeeded
  <2>2. \A r \in LatestRun : BestOffer[Of(r, f)] = Best(r, f)
    BY <2>1, OfSaved, OnePrice DEF Best
  <2> QED  BY <2>2 DEF LatestFare
<1>2. LET all == UNION {{<<r, p>> : p \in Best(r, f)} : r \in Saved} IN
      /\ RunMinima(InHistory, f, 0, MaxTime + 1) = all
      /\ RunMinima(OnDashboard, f, 0, MaxTime + 1) = all
  <2>1. \A s \in Saved : 0 <= run[s].at /\ run[s].at < MaxTime + 1
    BY SavedRuns, Assumed DEF StoreOK
  <2>2. {s \in Saved : 0 <= run[s].at /\ run[s].at < MaxTime + 1} = Saved
    BY <2>1
  <2>3. RunMinima(BestOf, f, 0, MaxTime + 1) = UNION {{<<r, p>> : p \in Best(r, f)} : r \in Saved}
    BY <2>2 DEF RunMinima, Best
  <2> QED  BY <2>3, MinimaAreBest
<1>3. \A r \in Saved :
        /\ CurrentPrice[Of(r, f)] = Best(r, f)
        /\ PreviousMinimum(r, f, Window) = Cheapest(UNION {Best(s, f) : s \in
             {q \in Saved \ {r} : run[r].finished - Window <= run[q].at /\ run[q].at < run[r].finished}})
  BY OfSaved, OnePrice, PreviousIsBest DEF Best
<1>4. \A pair \in {x \in DOMAIN calendar : RoundTrip <=> x[2] # 0} :
        LET trend == CalendarTrend(pair, now)
            last == {x \in trend : \A y \in trend : run[y[1]].at <= run[x[1]].at} IN
        /\ \A x \in trend : run[x[1]].at <= run[calendar[pair]].at
        /\ run[calendar[pair]].at >= now - Window =>
             UNION {Cost(fare) : fare \in LatestCalendarFare(pair)} \subseteq {x[2] : x \in last}
  BY CalendarShowsLatest
<1> QED  BY <1>1, <1>2, <1>3, <1>4

LEMMA InitStore == ReadsInit => StoreOK /\ CalendarInv
<1> SUFFICES ASSUME ReadsInit PROVE StoreOK /\ CalendarInv
  OBVIOUS
<1>1. Unobserved \in RunState /\ Unobserved.stage = "none"
  BY DEF RunState, Unobserved
<1>2. \A r \in Runs : run[r] = Unobserved
  BY DEF ReadsInit
<1>3. StoreOK
  BY <1>1, <1>2, Assumed DEF ReadsInit, StoreOK
<1>4. Saved = {}
  BY <1>1, <1>2 DEF Saved
<1>5. DOMAIN calendar = {}
  BY DEF ReadsInit
<1> QED  BY <1>3, <1>4, <1>5 DEF CalendarInv

\* Every view of the store shows the same prices.
THEOREM OnePriceEverywhere == ReadsSpec => []ViewsAgree
<1>1. StoreOK /\ CalendarInv /\ [ReadsNext]_readsVars => (StoreOK /\ CalendarInv)'
  BY NextRuns, NextCalendar
<1>2. StoreOK /\ CalendarInv => ViewsAgree
  BY StoreAgrees
<1> QED  BY <1>1, <1>2, InitStore, PTL DEF ReadsSpec
----------------------------------------------------------------------------
(* Pages.                                                                  *)

Sorted(s) == \A i, j \in 1..Len(s) : i < j => Precedes(s[i], s[j])
Cursor(got) == IF got = <<>> THEN <<>> ELSE Last(got)

LEMMA MinOfTwo ==
  ASSUME NEW m \in Nat, NEW n \in Nat PROVE Min({m, n}) = IF m <= n THEN m ELSE n
<1> DEFINE least == IF m <= n THEN m ELSE n
<1>1. least \in {m, n} /\ \A k \in {m, n} : least <= k
  OBVIOUS
<1>2. \A k \in {m, n} : (\A l \in {m, n} : k <= l) => k = least
  OBVIOUS
<1> HIDE DEF least
<1>3. (CHOOSE k \in {m, n} : \A l \in {m, n} : k <= l) = least
  BY <1>1, <1>2
<1> QED  BY <1>3 DEF Min, least

LEMMA PairsAreNot == ASSUME NEW x \in Pairs PROVE x # <<>>
<1>1. PICK a \in Int, b \in Int : x = <<a, b>>
  BY DEF Pairs
<1>2. Len(<<a, b>>) = 2 /\ Len(<<>>) = 0
  OBVIOUS
<1> QED  BY <1>1, <1>2

LEMMA CursorOf ==
  ASSUME NEW got \in Seq(Pairs)
  PROVE  \/ got = <<>> /\ Len(got) = 0 /\ Cursor(got) = <<>>
         \/ /\ got # <<>> /\ Len(got) \in Nat \ {0} /\ Cursor(got) = got[Len(got)]
            /\ Cursor(got) \in Pairs /\ Cursor(got) # <<>>
<1>1. CASE got = <<>>
  BY <1>1 DEF Cursor
<1>2. CASE got # <<>>
  <2>1. Len(got) \in Nat \ {0} /\ got[Len(got)] \in Pairs
    BY <1>2
  <2>2. Cursor(got) = got[Len(got)]
    BY <1>2 DEF Cursor, Last
  <2> QED  BY <1>2, <2>1, <2>2, PairsAreNot
<1> QED  BY <1>1, <1>2

LEMMA Beginning ==
  ASSUME NEW S, NEW s \in Seq(S), NEW m \in 0..Len(s)
  PROVE  /\ SubSeq(s, 1, m) \in Seq(S) /\ Len(SubSeq(s, 1, m)) = m
         /\ \A i \in 1..m : SubSeq(s, 1, m)[i] = s[i] /\ s[i] \in S
<1>1. 1 \in Int /\ m \in Int /\ m \in Nat /\ \A i \in 1..m : s[i] \in S
  OBVIOUS
<1> DEFINE sub == SubSeq(s, 1, m)
<1>2. /\ sub \in Seq(S) /\ Len(sub) = IF 1 <= m THEN m - 1 + 1 ELSE 0
      /\ \A i \in 1..(m - 1 + 1) : sub[i] = s[1 + i - 1]
  BY <1>1, SubSeqProperties
<1> HIDE DEF sub
<1>3. m - 1 + 1 = m /\ \A i \in 1..m : 1 + i - 1 = i
  BY <1>1
<1>4. Len(sub) = m
  BY <1>1, <1>2, <1>3
<1>5. \A i \in 1..m : sub[i] = s[i]
  BY <1>2, <1>3
<1> QED  BY <1>1, <1>2, <1>4, <1>5 DEF sub

LEMMA Joined ==
  ASSUME NEW S, NEW s \in Seq(S), NEW t \in Seq(S)
  PROVE  /\ s \o t \in Seq(S) /\ Len(s) \in Nat /\ Len(t) \in Nat /\ Len(s \o t) = Len(s) + Len(t)
         /\ \A i \in 1..Len(s) : (s \o t)[i] = s[i]
         /\ \A i \in 1..(Len(s) + Len(t)) :
              i > Len(s) => i - Len(s) \in 1..Len(t) /\ (s \o t)[i] = t[i - Len(s)]
<1> DEFINE st == s \o t
<1>1. /\ st \in Seq(S) /\ Len(st) = Len(s) + Len(t) /\ Len(s) \in Nat /\ Len(t) \in Nat
      /\ \A i \in 1..Len(s) + Len(t) : st[i] = IF i <= Len(s) THEN s[i] ELSE t[i - Len(s)]
  BY ConcatProperties
<1> HIDE DEF st
<1> DEFINE m == Len(s)
           n == Len(t)
<1>2. m \in Nat /\ n \in Nat /\ \A i \in 1..(m + n) : st[i] = IF i <= m THEN s[i] ELSE t[i - m]
  BY <1>1
<1>3. Len(s) = m /\ Len(t) = n
  OBVIOUS
<1> HIDE DEF m, n
<1>4. \A i \in 1..m : st[i] = s[i]
  BY <1>2
<1>5. \A i \in 1..(m + n) : i > m => i - m \in 1..n /\ st[i] = t[i - m]
  BY <1>2
<1> QED  BY <1>1, <1>3, <1>4, <1>5 DEF st

\* A sequence of L pairs that is continued by the first m of N.
Continues(new, got, L, rest, N, m) ==
  /\ L \in Nat /\ N \in Nat /\ m \in 0..N
  /\ \A i \in 1..L : got[i] \in Pairs /\ new[i] = got[i]
  /\ \A i \in 1..(L + m) : i > L => i - L \in 1..m /\ new[i] = rest[i - L]

InOrderSoFar(got, L, rest, N) ==
  /\ \A i, j \in 1..L : i < j => Precedes(got[i], got[j])
  /\ \A i \in 1..N : rest[i] \in Pairs /\ (L # 0 => Precedes(got[L], rest[i]))
  /\ \A i, j \in 1..N : i < j => Precedes(rest[i], rest[j])

LEMMA Continued ==
  ASSUME NEW L, NEW N, NEW m, NEW got, NEW rest, NEW new, Continues(new, got, L, rest, N, m)
  PROVE  /\ \A x : (\E i \in 1..(L + m) : new[i] = x)
                    <=> (\E i \in 1..L : got[i] = x) \/ (\E i \in 1..m : rest[i] = x)
         /\ m > 0 => new[L + m] = rest[m]
<1>0. /\ L \in Nat /\ N \in Nat /\ m \in 0..N
      /\ \A i \in 1..L : got[i] \in Pairs /\ new[i] = got[i]
      /\ \A i \in 1..(L + m) : i > L => i - L \in 1..m /\ new[i] = rest[i - L]
  BY DEF Continues
<1>1. ASSUME NEW i \in 1..(L + m)
      PROVE  (\E k \in 1..L : got[k] = new[i]) \/ (\E k \in 1..m : rest[k] = new[i])
  <2>1. CASE i <= L
    <3>1. i \in 1..L
      BY <1>0, <2>1
    <3> QED  BY <1>0, <3>1
  <2>2. CASE i > L
    BY <1>0, <2>2
  <2> QED  BY <1>0, <2>1, <2>2
<1>2. ASSUME NEW i \in 1..L PROVE \E k \in 1..(L + m) : new[k] = got[i]
  <2>1. i \in 1..(L + m) /\ new[i] = got[i]
    BY <1>0
  <2> QED  BY <2>1
<1>3. ASSUME NEW i \in 1..m PROVE L + i \in 1..(L + m) /\ new[L + i] = rest[i]
  <2>1. L + i \in 1..(L + m) /\ L + i > L /\ (L + i) - L = i
    BY <1>0
  <2> QED  BY <1>0, <2>1
<1>4. m > 0 => m \in 1..m
  BY <1>0
<1>5. \A i \in 1..m : \E k \in 1..(L + m) : new[k] = rest[i]
  BY <1>3
<1>6. \A x : (\E i \in 1..(L + m) : new[i] = x)
             <=> (\E i \in 1..L : got[i] = x) \/ (\E i \in 1..m : rest[i] = x)
  BY <1>1, <1>2, <1>5
<1> QED  BY <1>3, <1>4, <1>6

LEMMA ContinuedInOrder ==
  ASSUME NEW L, NEW N, NEW m, NEW got, NEW rest, NEW new,
         Continues(new, got, L, rest, N, m), InOrderSoFar(got, L, rest, N)
  PROVE  \A i, j \in 1..(L + m) : i < j => Precedes(new[i], new[j])
<1> USE DEF Continues, InOrderSoFar
<1> SUFFICES ASSUME NEW i \in 1..(L + m), NEW j \in 1..(L + m), i < j PROVE Precedes(new[i], new[j])
  OBVIOUS
<1>1. CASE j <= L
  <2>1. i \in 1..L /\ j \in 1..L
    BY <1>1
  <2> QED  BY <2>1
<1>2. CASE i > L
  <2>1. i - L \in 1..N /\ j - L \in 1..N /\ i - L < j - L
    BY <1>2
  <2>2. new[i] = rest[i - L] /\ new[j] = rest[j - L]
    BY <1>2
  <2> HIDE DEF Precedes
  <2> QED  BY <2>1, <2>2
<1>3. CASE i <= L /\ j > L
  <2>1. i \in 1..L /\ L \in 1..L /\ L # 0 /\ j - L \in 1..N
    BY <1>3
  <2>2. new[i] = got[i] /\ new[j] = rest[j - L] /\ rest[j - L] \in Pairs
    BY <1>3, <2>1
  <2>3. Precedes(got[L], rest[j - L])
    BY <2>1
  <2>4. i = L \/ Precedes(got[i], got[L])
    BY <2>1
  <2>5. CASE i = L
    BY <2>2, <2>3, <2>5
  <2>6. CASE i # L
    BY <2>1, <2>2, <2>3, <2>4, <2>6, PairsInOrder
  <2> QED  BY <2>5, <2>6
<1> QED  BY <1>1, <1>2, <1>3

\* What a page does to a list that is being read, whatever its keys are by now.
LEMMA PageTaken ==
  ASSUME NEW K \in SUBSET Pairs, IsFiniteSet(K), NEW first \in SUBSET K, NEW got \in Seq(Pairs),
         Sorted(got), ToSet(got) \subseteq K,
         first \subseteq ToSet(got) \cup After(first, Cursor(got))
  PROVE  LET rest == InOrder(After(K, Cursor(got)))
             new == got \o SubSeq(rest, 1, Min({PageLimit, Len(rest)})) IN
         /\ Len(rest) \in Nat /\ new \in Seq(Pairs) /\ Sorted(new) /\ ToSet(new) \subseteq K
         /\ IF Len(rest) <= PageLimit THEN first \subseteq ToSet(new)
            ELSE first \subseteq ToSet(new) \cup After(first, Cursor(new))
<1> DEFINE S == After(K, Cursor(got))
           rest == InOrder(S)
           page == SubSeq(rest, 1, Min({PageLimit, Len(rest)}))
           new == got \o page
           N == Cardinality(S)
           m == IF PageLimit <= N THEN PageLimit ELSE N
           L == Len(got)
<1>1. S \in SUBSET Pairs /\ IsFiniteSet(S) /\ S \subseteq K
  BY FS_Subset DEF After
<1>2. \A k \in S : Cursor(got) = <<>> \/ Precedes(Cursor(got), k)
  BY DEF After
<1>3. \A k \in K : Cursor(got) = <<>> \/ Precedes(Cursor(got), k) => k \in S
  BY DEF After
<1> HIDE DEF S
<1>4. /\ N \in Nat /\ rest \in [1..N -> S]
      /\ \A i, j \in 1..N : i < j => Precedes(rest[i], rest[j])
      /\ \A x \in S : \E n \in 1..N : rest[n] = x
  BY <1>1, InOrderSorts
<1> HIDE DEF rest, page, new
<1>5. rest \in Seq(S) /\ Len(rest) = N
  <2>1. rest \in Seq(S)
    BY <1>4
  <2>2. DOMAIN rest = 1..N /\ DOMAIN rest = 1..Len(rest) /\ Len(rest) \in Nat
    BY <1>4, <2>1
  <2> QED  BY <1>4, <2>1, <2>2
<1> HIDE DEF N
<1>6. m \in 0..N /\ Min({PageLimit, Len(rest)}) = m
  <2>1. N \in Nat /\ PageLimit \in Nat
    BY <1>4, Assumed
  <2>2. Min({PageLimit, N}) = m
    BY <2>1, MinOfTwo
  <2> QED  BY <1>5, <2>1, <2>2
<1>7. m = N \/ (m = PageLimit /\ m < N /\ m > 0)
  BY <1>4, Assumed
<1> HIDE DEF m
<1>8. page \in Seq(S) /\ Len(page) = m /\ \A i \in 1..m : page[i] = rest[i] /\ rest[i] \in S
  <2>1. m \in 0..Len(rest)
    BY <1>5, <1>6
  <2>2. /\ SubSeq(rest, 1, m) \in Seq(S) /\ Len(SubSeq(rest, 1, m)) = m
        /\ \A i \in 1..m : SubSeq(rest, 1, m)[i] = rest[i] /\ rest[i] \in S
    BY <1>5, <2>1, Beginning
  <2>3. page = SubSeq(rest, 1, m)
    BY <1>6 DEF page
  <2> QED  BY <2>2, <2>3
<1>9. L = Len(got) /\ L \in Nat /\ DOMAIN got = 1..L /\ \A i \in 1..L : got[i] \in Pairs
  OBVIOUS
<1> HIDE DEF L
<1>10. page \in Seq(Pairs)
  BY <1>1, <1>8, SeqMonotonic
<1>11. /\ new \in Seq(Pairs) /\ L \in Nat /\ Len(new) = L + m /\ m \in Nat
       /\ \A i \in 1..L : got[i] \in Pairs /\ new[i] = got[i]
       /\ \A i \in 1..(L + m) : i > L => i - L \in 1..m /\ new[i] = page[i - L]
  <2>1. /\ new \in Seq(Pairs) /\ Len(new) = L + m
        /\ \A i \in 1..L : new[i] = got[i]
        /\ \A i \in 1..(L + m) : i > L => i - L \in 1..m /\ new[i] = page[i - L]
    <3>1. /\ got \o page \in Seq(Pairs) /\ Len(got \o page) = Len(got) + Len(page)
          /\ \A i \in 1..Len(got) : (got \o page)[i] = got[i]
          /\ \A i \in 1..(Len(got) + Len(page)) :
               i > Len(got) => i - Len(got) \in 1..Len(page) /\ (got \o page)[i] = page[i - Len(got)]
      BY <1>10, Joined
    <3>2. Len(got) = L /\ Len(page) = m /\ new = got \o page
      BY <1>8, <1>9 DEF new
    <3> QED  BY <3>1, <3>2
  <2> QED  BY <1>9, <1>4, <1>6, <2>1
<1>12. \A i \in 1..(L + m) : i > L => i - L \in 1..m /\ new[i] = rest[i - L]
  BY <1>8, <1>11
<1>13. \A i \in 1..N : rest[i] \in Pairs /\ (L # 0 => Precedes(got[L], rest[i]))
  <2>1. \A i \in 1..N : rest[i] \in S /\ rest[i] \in Pairs
    BY <1>1, <1>4
  <2>2. L # 0 => Cursor(got) = got[L] /\ Cursor(got) # <<>>
    BY <1>9, CursorOf
  <2> QED  BY <1>2, <2>1, <2>2
<1>14. Continues(new, got, L, rest, N, m) /\ InOrderSoFar(got, L, rest, N)
  <2>1. \A i, j \in 1..L : i < j => Precedes(got[i], got[j])
    BY <1>9 DEF Sorted
  <2> QED  BY <1>9, <1>4, <1>6, <1>11, <1>12, <1>13, <2>1 DEF Continues, InOrderSoFar
<1>15. Sorted(new)
  BY <1>11, <1>14, ContinuedInOrder DEF Sorted
<1>16. /\ ToSet(new) = ToSet(got) \cup {rest[i] : i \in 1..m}
       /\ m > 0 => new[L + m] = rest[m]
  <2>1. DOMAIN new = 1..(L + m) /\ DOMAIN got = 1..L
    BY <1>9, <1>11
  <2>2. ToSet(new) = {new[i] : i \in 1..(L + m)} /\ ToSet(got) = {got[i] : i \in 1..L}
    BY <2>1 DEF ToSet
  <2>3. Continues(new, got, L, rest, N, m)
    BY <1>14
  <2>4. \A x : (\E i \in 1..(L + m) : new[i] = x)
               <=> (\E i \in 1..L : got[i] = x) \/ (\E i \in 1..m : rest[i] = x)
    BY <2>3, Continued
  <2>5. m > 0 => new[L + m] = rest[m]
    BY <2>3, Continued
  <2>6. \A x : x \in {new[i] : i \in 1..(L + m)}
               <=> x \in {got[i] : i \in 1..L} \cup {rest[i] : i \in 1..m}
    BY <2>4
  <2>7. {new[i] : i \in 1..(L + m)} = {got[i] : i \in 1..L} \cup {rest[i] : i \in 1..m}
    BY <2>6
  <2> QED  BY <2>2, <2>5, <2>7
<1>17. ToSet(new) \subseteq K
  BY <1>1, <1>8, <1>16
<1>18. ASSUME NEW k \in first, k \notin ToSet(new) PROVE m < N /\ k \in After(first, Cursor(new))
  <2>1. k \in S
    BY <1>3, <1>16, <1>18 DEF After
  <2>2. PICK n \in 1..N : rest[n] = k
    BY <1>4, <2>1
  <2>3. n > m
    <3>1. n \notin 1..m
      BY <1>16, <1>18, <2>2
    <3> QED  BY <1>4, <1>6, <3>1
  <2>4. m < N /\ m > 0 /\ m \in 1..N
    BY <1>4, <1>6, <1>7, <2>3
  <2>5. Precedes(rest[m], k)
    BY <1>4, <2>2, <2>3, <2>4
  <2>6. Cursor(new) = rest[m]
    <3>1. Len(new) # 0 /\ new[Len(new)] = rest[m]
      BY <1>11, <1>16, <2>4
    <3> QED  BY <1>11, <3>1, CursorOf
  <2> QED  BY <2>4, <2>5, <2>6 DEF After
<1>19. Len(rest) <= PageLimit => m = N
  BY <1>4, <1>5, Assumed DEF m
<1>20. Len(rest) <= PageLimit => first \subseteq ToSet(new)
  <2>1. ~(N < N)
    BY <1>4
  <2> QED  BY <1>18, <1>19, <2>1
<1>21. first \subseteq ToSet(new) \cup After(first, Cursor(new))
  BY <1>18
<1> QED  BY <1>4, <1>5, <1>11, <1>15, <1>17, <1>20, <1>21 DEF S, rest, page, new
----------------------------------------------------------------------------
(* A list while the store changes.                                         *)

LEMMA DaysAreNumbers == ASSUME NEW t \in Int PROVE Day(t) \in Int
BY Assumed DEF Day

LEMMA SavedIsFinite == Saved \subseteq Runs /\ IsFiniteSet(Saved)
BY Assumed, FS_Subset DEF Saved

LEMMA OffersArePairs ==
  ASSUME NEW c \in Cases PROVE Found[c] \in SUBSET Pairs /\ IsFiniteSet(Found[c])
<1> DEFINE rows == RowsFor(c)
           some == [i \in DOMAIN rows |-> rows[i].prices \X {i}]
<1>1. <<c[1], c[2]>> \in Searches
  BY DEF Cases, Searches
<1>2. RowsOK(rows)
  BY <1>1, StoredOK DEF RowsFor
<1> HIDE DEF rows
<1>3. \A i \in DOMAIN rows : IsFiniteSet(some[i])
  BY <1>2, FS_Product, FS_Singleton DEF RowsOK
<1> HIDE DEF some
<1>4. IsFiniteSet(UNION {some[i] : i \in DOMAIN rows})
  BY <1>2, <1>3, FiniteUnion DEF RowsOK
<1>5. Offers(rows) = UNION {some[i] : i \in DOMAIN rows}
  BY DEF Offers, some
<1>6. Offers(rows) \subseteq Pairs
  BY <1>2 DEF Offers, Pairs, RowsOK
<1>7. Found[c] \subseteq Offers(rows)
  BY DEF Found, FoundIn, rows
<1> QED  BY <1>4, <1>5, <1>6, <1>7, FS_Subset

LEMMA CellsArePairs ==
  ASSUME NEW a \in Answers
  PROVE  /\ DOMAIN ReadCalendar(Provided[a].calendar) \in SUBSET Pairs
         /\ IsFiniteSet(DOMAIN ReadCalendar(Provided[a].calendar))
<1> DEFINE cells == Provided[a].calendar
           read == {i \in DOMAIN cells : cells[i].out # NoDate /\ cells[i].price # NoPrice}
           dates == [i \in read |-> <<cells[i].out, IF cells[i].back = NoDate THEN 0 ELSE cells[i].back>>]
<1>1. AnswerOK(Provided[a])
  BY Assumed
<1>2. IsFiniteSet(DOMAIN cells) /\ \A i \in DOMAIN cells : {cells[i].out, cells[i].back} \subseteq {NoDate} \cup Nat
  BY <1>1, Sequences DEF AnswerOK
<1>3. IsFiniteSet(read)
  BY <1>2, FS_Subset
<1>4. \A i \in read : dates[i] \in Pairs
  BY <1>2 DEF Pairs
<1>5. DOMAIN ReadCalendar(cells) = {dates[i] : i \in read}
  BY DEF ReadCalendar
<1> HIDE DEF dates, read, cells
<1>6. IsFiniteSet({dates[i] : i \in read})
  BY <1>3, FiniteImage
<1> QED  BY <1>4, <1>5, <1>6 DEF cells

LEMMA CalendarIsFinite ==
  ASSUME StoreOK, CalendarInv PROVE DOMAIN calendar \in SUBSET Pairs /\ IsFiniteSet(DOMAIN calendar)
<1> DEFINE pairs == [r \in Saved |-> PairsOf(r)]
<1>1. \A r \in Saved : pairs[r] \in SUBSET Pairs /\ IsFiniteSet(pairs[r])
  BY SavedRuns, CellsArePairs
<1>2. DOMAIN calendar \subseteq UNION {pairs[r] : r \in Saved}
  BY DEF CalendarInv
<1> HIDE DEF pairs
<1>3. IsFiniteSet(UNION {pairs[r] : r \in Saved})
  BY <1>1, SavedIsFinite, FiniteUnion
<1> QED  BY <1>1, <1>2, <1>3, FS_Subset

LEMMA KeysArePairs ==
  ASSUME StoreOK, CalendarInv, NEW list \in Lists, NEW f \in Filters, NEW asOf, NEW pinned \in SUBSET Saved
  PROVE  Keys(list, f, asOf, pinned) \in SUBSET Pairs /\ IsFiniteSet(Keys(list, f, asOf, pinned))
<1> DEFINE K == Keys(list, f, asOf, pinned)
           M == RunMinima(InHistory, f, asOf - Window, asOf + 1)
<1>1. CASE list = "offers"
  <2> DEFINE offers == [r \in pinned |-> SearchOffers(r, f)]
  <2>1. \A r \in pinned : offers[r] \in SUBSET Pairs /\ IsFiniteSet(offers[r])
    BY OfSaved, OffersArePairs DEF SearchOffers
  <2>2. K = UNION {offers[r] : r \in pinned}
    BY <1>1 DEF Keys
  <2>3. IsFiniteSet(pinned)
    BY SavedIsFinite, FS_Subset
  <2> HIDE DEF offers, K
  <2>4. IsFiniteSet(UNION {offers[r] : r \in pinned})
    BY <2>1, <2>3, FiniteUnion
  <2>5. K \in SUBSET Pairs /\ IsFiniteSet(K)
    BY <2>1, <2>2, <2>4
  <2> QED  BY <2>5 DEF K
<1>2. \A x \in M : x[1] \in Saved
  BY InRunMinima
<1>3. CASE list = "raw"
  <2> DEFINE key == [r \in Saved |-> <<run[r].at, r>>]
  <2>1. K = {<<run[x[1]].at, x[1]>> : x \in M}
    BY <1>3 DEF Keys
  <2>2. \A r \in Saved : key[r] \in Pairs
    BY SavedRuns DEF Pairs
  <2> HIDE DEF M
  <2>3. K \subseteq {key[r] : r \in Saved}
    BY <1>2, <2>1
  <2> HIDE DEF key, K
  <2>4. K \in SUBSET Pairs /\ IsFiniteSet(K)
    <3> DEFINE all == {key[r] : r \in Saved}
    <3>1. IsFiniteSet(all)
      BY SavedIsFinite, FiniteImage
    <3>2. K \in SUBSET all /\ all \in SUBSET Pairs
      BY <2>2, <2>3
    <3> HIDE DEF all
    <3> QED  BY <3>1, <3>2, FS_Subset
  <2> QED  BY <2>4 DEF K
<1>4. CASE list = "days"
  <2> DEFINE key == [r \in Saved |-> <<Day(run[r].at), 0>>]
  <2>1. K = {<<Day(run[x[1]].at), 0>> : x \in M}
    BY <1>4 DEF Keys
  <2>2. \A r \in Saved : key[r] \in Pairs
    BY SavedRuns, DaysAreNumbers DEF Pairs
  <2> HIDE DEF M
  <2>3. K \subseteq {key[r] : r \in Saved}
    BY <1>2, <2>1
  <2> HIDE DEF key, K
  <2>4. K \in SUBSET Pairs /\ IsFiniteSet(K)
    <3> DEFINE all == {key[r] : r \in Saved}
    <3>1. IsFiniteSet(all)
      BY SavedIsFinite, FiniteImage
    <3>2. K \in SUBSET all /\ all \in SUBSET Pairs
      BY <2>2, <2>3
    <3> HIDE DEF all
    <3> QED  BY <3>1, <3>2, FS_Subset
  <2> QED  BY <2>4 DEF K
<1>5. CASE list = "calendar"
  <2>1. K \subseteq DOMAIN calendar
    BY <1>5 DEF Keys
  <2> HIDE DEF K
  <2>2. K \in SUBSET Pairs /\ IsFiniteSet(K)
    BY <2>1, CalendarIsFinite, FS_Subset
  <2> QED  BY <2>2 DEF K
<1> QED  BY <1>1, <1>3, <1>4, <1>5 DEF Lists

\* What a list holds it keeps: saved runs keep their answers and their times.
LEMMA KeysGrow ==
  ASSUME StoreOK, CalendarInv, [ReadsNext]_readsVars,
         NEW list \in Lists, NEW f \in Filters, NEW asOf, NEW pinned \in SUBSET Saved
  PROVE  Keys(list, f, asOf, pinned) \subseteq Keys(list, f, asOf, pinned)'
<1> DEFINE M == RunMinima(InHistory, f, asOf - Window, asOf + 1)
<1>1. /\ directOnly' = directOnly /\ Saved \subseteq Saved'
      /\ \A r \in Saved : run'[r].at = run[r].at /\ run'[r].answer = run[r].answer
  BY NextRuns DEF RunKept
<1>2. \A r \in Saved : Of(r, f)' = Of(r, f)
  BY <1>1 DEF Of
<1>3. ASSUME NEW x \in M PROVE x \in M' /\ run'[x[1]].at = run[x[1]].at
  <2>1. PICK r \in Saved : /\ asOf - Window <= run[r].at /\ run[r].at < asOf + 1
                           /\ \E p \in InHistory[Of(r, f)] : x = <<r, p>>
    BY InRunMinima
  <2>2. r \in Saved' /\ run'[r].at = run[r].at /\ InHistory[Of(r, f)'] = InHistory[Of(r, f)]
    BY <1>1, <1>2
  <2>3. x \in M'
    BY <2>1, <2>2 DEF RunMinima
  <2> QED  BY <2>1, <2>2, <2>3
<1>4. CASE list = "offers"
  <2>1. \A r \in pinned : SearchOffers(r, f)' = SearchOffers(r, f)
    BY <1>2 DEF SearchOffers
  <2> QED  BY <1>4, <2>1 DEF Keys
<1>5. CASE list = "raw"
  <2>1. Keys(list, f, asOf, pinned) = {<<run[x[1]].at, x[1]>> : x \in M}
    BY <1>5 DEF Keys
  <2>2. Keys(list, f, asOf, pinned)' = {<<run'[x[1]].at, x[1]>> : x \in M'}
    BY <1>5 DEF Keys
  <2> HIDE DEF M
  <2> QED  BY <1>3, <2>1, <2>2
<1>6. CASE list = "days"
  <2>1. Keys(list, f, asOf, pinned) = {<<Day(run[x[1]].at), 0>> : x \in M}
    BY <1>6 DEF Keys
  <2>2. Keys(list, f, asOf, pinned)' = {<<Day(run'[x[1]].at), 0>> : x \in M'}
    BY <1>6 DEF Keys
  <2> HIDE DEF M
  <2> QED  BY <1>3, <2>1, <2>2
<1>7. CASE list = "calendar"
  <2>1. DOMAIN calendar \subseteq DOMAIN calendar'
    <3>1. CASE calendar' = calendar
      BY <3>1
    <3>2. CASE \E r \in Runs : Saves(r)
      BY <3>2 DEF Saves, Newest
    <3> QED  BY <3>1, <3>2, NextRuns
  <2> QED  BY <1>7, <2>1 DEF Keys
<1> QED  BY <1>4, <1>5, <1>6, <1>7 DEF Lists

LEMMA SameKeys ==
  ASSUME UNCHANGED <<directOnly, run, calendar>>, NEW list \in Lists, NEW f, NEW asOf, NEW pinned
  PROVE  Keys(list, f, asOf, pinned)' = Keys(list, f, asOf, pinned)
<1> DEFINE M == RunMinima(InHistory, f, asOf - Window, asOf + 1)
<1>1. \A r : Of(r, f)' = Of(r, f)
  BY DEF Of
<1>2. Saved' = Saved
  BY DEF Saved
<1>3. M' = M
  BY <1>1, <1>2 DEF RunMinima
<1>4. \A r : SearchOffers(r, f)' = SearchOffers(r, f)
  BY <1>1 DEF SearchOffers
<1>5. CASE list = "offers"
  BY <1>4, <1>5 DEF Keys
<1>6. CASE list = "raw"
  BY <1>3, <1>6 DEF Keys
<1>7. CASE list = "days"
  BY <1>3, <1>7 DEF Keys, Day
<1>8. CASE list = "calendar"
  BY <1>8 DEF Keys
<1> QED  BY <1>5, <1>6, <1>7, <1>8 DEF Lists

ReaderState ==
  [list : Lists, filter : Filters, asOf : Nat, pinned : SUBSET Runs, first : SUBSET Pairs,
   got : Seq(Pairs), done : BOOLEAN]

\* What has been read of a list that now has the keys K.
Whole(got, first, done, K) ==
  /\ Sorted(got) /\ first \subseteq K /\ ToSet(got) \subseteq K
  /\ first \subseteq ToSet(got) \cup (IF done THEN {} ELSE After(first, Cursor(got)))

Listed == Keys(reader.list, reader.filter, reader.asOf, reader.pinned)

ReaderInv ==
  reader = Idle \/ /\ reader \in ReaderState /\ reader.pinned \subseteq Saved
                   /\ Whole(reader.got, reader.first, reader.done, Listed)

LEMMA ReadingStarts ==
  ASSUME StoreOK, CalendarInv, NEW reading \in Readings, StartsReading(reading[1], reading[2])
  PROVE  ReaderInv'
<1> DEFINE list == reading[1]
           f == reading[2]
           pinned == IF list = "offers" THEN LatestRun ELSE {}
           K == Keys(list, f, now, pinned)
<1>1. list \in Lists /\ f \in Filters
  BY Assumed
<1>2. pinned \in SUBSET Saved /\ pinned \in SUBSET Runs /\ now \in Nat
  BY DEF LatestRun, Succeeded, Saved, StoreOK
<1>3. /\ reader' = [list |-> list, filter |-> f, asOf |-> now, pinned |-> pinned,
                    first |-> K, got |-> <<>>, done |-> FALSE]
      /\ UNCHANGED <<now, directOnly, run, calendar, covered>>
  BY DEF StartsReading
<1> HIDE DEF list, f, pinned
<1>4. K \in SUBSET Pairs
  BY <1>1, <1>2, KeysArePairs
<1>5. Saved' = Saved
  BY <1>3 DEF Saved
<1>6. /\ reader'.list = list /\ reader'.filter = f /\ reader'.asOf = now /\ reader'.pinned = pinned
      /\ reader'.first = K /\ reader'.got = <<>> /\ reader'.done = FALSE
  BY <1>3
<1>7. Listed' = K
  <2>0. PICK l \in Lists : l = list
    BY <1>1
  <2>1. PICK asOf, p : asOf = now /\ p = pinned
    OBVIOUS
  <2>2. PICK g : g = f
    OBVIOUS
  <2>3. Keys(l, g, asOf, p)' = Keys(l, g, asOf, p)
    BY <1>3, SameKeys
  <2> QED  BY <1>3, <1>6, <2>0, <2>1, <2>2, <2>3 DEF Listed
<1> HIDE DEF K
<1>8. reader' \in ReaderState
  BY <1>1, <1>2, <1>3, <1>4 DEF ReaderState
<1>9. Whole(<<>>, K, FALSE, K)
  <2>1. Cursor(<<>>) = <<>> /\ ToSet(<<>>) = {} /\ Sorted(<<>>)
    BY DEF Cursor, ToSet, Sorted
  <2>2. After(K, <<>>) = K
    BY DEF After
  <2> QED  BY <2>1, <2>2 DEF Whole
<1> QED  BY <1>2, <1>5, <1>6, <1>7, <1>8, <1>9 DEF ReaderInv

LEMMA PageIsRead ==
  ASSUME StoreOK, CalendarInv, ReaderInv, ReadsPage PROVE ReaderInv'
<1> DEFINE K == Listed
           got == reader.got
           rest == InOrder(After(K, Cursor(got)))
           new == got \o SubSeq(rest, 1, Min({PageLimit, Len(rest)}))
<1>1. /\ reader # Idle /\ ~reader.done /\ UNCHANGED <<now, directOnly, run, calendar, covered>>
      /\ reader' = [reader EXCEPT !.got = new, !.done = Len(rest) <= PageLimit]
  BY DEF ReadsPage, Listed, Cursor
<1>2. reader \in ReaderState /\ reader.pinned \subseteq Saved /\ Whole(got, reader.first, FALSE, K)
  BY <1>1 DEF ReaderInv, ReaderState
<1>3. /\ reader.list \in Lists /\ reader.filter \in Filters /\ reader.pinned \in SUBSET Saved
      /\ reader.first \in SUBSET Pairs /\ got \in Seq(Pairs)
  BY <1>2 DEF ReaderState
<1>4. K \in SUBSET Pairs /\ IsFiniteSet(K)
  BY <1>3, KeysArePairs DEF Listed
<1> HIDE DEF K, got
<1>5. /\ Len(rest) \in Nat /\ new \in Seq(Pairs) /\ Sorted(new) /\ ToSet(new) \subseteq K
      /\ IF Len(rest) <= PageLimit THEN reader.first \subseteq ToSet(new)
         ELSE reader.first \subseteq ToSet(new) \cup After(reader.first, Cursor(new))
  BY <1>2, <1>3, <1>4, PageTaken DEF Whole
<1> HIDE DEF rest, new
<1>6. Whole(new, reader.first, Len(rest) <= PageLimit, K)
  BY <1>2, <1>5 DEF Whole
<1>7. (Len(rest) <= PageLimit) \in BOOLEAN
  BY <1>5, Assumed
<1>8. /\ reader' \in ReaderState
      /\ reader'.list = reader.list /\ reader'.filter = reader.filter /\ reader'.asOf = reader.asOf
      /\ reader'.pinned = reader.pinned /\ reader'.first = reader.first /\ reader'.got = new
      /\ reader'.done = (Len(rest) <= PageLimit)
  BY <1>1, <1>2, <1>5, <1>7 DEF ReaderState
<1>9. Listed' = K /\ Saved' = Saved
  <2>0. PICK list \in Lists : list = reader.list
    BY <1>3
  <2>1. PICK f, asOf, pinned : f = reader.filter /\ asOf = reader.asOf /\ pinned = reader.pinned
    OBVIOUS
  <2>2. Keys(list, f, asOf, pinned)' = Keys(list, f, asOf, pinned)
    BY <1>1, SameKeys
  <2> QED  BY <1>1, <1>8, <2>0, <2>1, <2>2 DEF K, Listed, Saved
<1> QED  BY <1>2, <1>6, <1>8, <1>9 DEF ReaderInv

LEMMA NextReader ==
  ASSUME StoreOK, CalendarInv, ReaderInv, [ReadsNext]_readsVars PROVE ReaderInv'
<1>1. CASE reader' = reader
  <2>1. CASE reader = Idle
    BY <1>1, <2>1 DEF ReaderInv
  <2>2. CASE reader # Idle
    <3>1. reader \in ReaderState /\ reader.pinned \subseteq Saved
          /\ Whole(reader.got, reader.first, reader.done, Listed)
      BY <2>2 DEF ReaderInv
    <3>2. PICK list \in Lists, f \in Filters, asOf \in Nat, pinned \in SUBSET Saved :
            list = reader.list /\ f = reader.filter /\ asOf = reader.asOf /\ pinned = reader.pinned
      BY <3>1 DEF ReaderState
    <3>3. Keys(list, f, asOf, pinned) \subseteq Keys(list, f, asOf, pinned)'
      BY KeysGrow
    <3>4. Listed = Keys(list, f, asOf, pinned) /\ Listed' = Keys(list, f, asOf, pinned)'
      BY <1>1, <3>2 DEF Listed, Keys
    <3>5. Saved \subseteq Saved'
      BY NextRuns
    <3>6. Listed \subseteq Listed'
      BY <3>3, <3>4
    <3> QED  BY <1>1, <3>1, <3>5, <3>6 DEF ReaderInv, Whole
  <2> QED  BY <2>1, <2>2
<1>2. CASE \E reading \in Readings : StartsReading(reading[1], reading[2])
  BY <1>2, ReadingStarts
<1>3. CASE ReadsPage
  BY <1>3, PageIsRead
<1>4. CASE StopsReading
  BY <1>4 DEF StopsReading, ReaderInv, Idle
<1>5. \/ reader' = reader
      \/ \E reading \in Readings : StartsReading(reading[1], reading[2])
      \/ ReadsPage \/ StopsReading
  BY DEF ReadsNext, readsVars, Captures, Saves, FailsLate, Maintains, Tick
<1> QED  BY <1>1, <1>2, <1>3, <1>4, <1>5

\* Whatever happens between two pages, a list that is read to its end is whole.
THEOREM ListsAreWhole == ReadsSpec => []PagesAreWhole
<1> DEFINE ListInv == StoreOK /\ CalendarInv /\ ReaderInv
<1>1. ReadsInit => ListInv
  BY InitStore DEF ReadsInit, ReaderInv
<1>2. ListInv /\ [ReadsNext]_readsVars => ListInv'
  BY NextRuns, NextCalendar, NextReader
<1>3. ListInv => PagesAreWhole
  <2> SUFFICES ASSUME ListInv, reader # Idle, reader.done
      PROVE  /\ \A i \in 1..(Len(reader.got) - 1) : Precedes(reader.got[i], reader.got[i + 1])
             /\ reader.first \subseteq ToSet(reader.got)
             /\ ToSet(reader.got) \subseteq Listed
    BY DEF PagesAreWhole, Listed
  <2>1. reader \in ReaderState /\ Whole(reader.got, reader.first, reader.done, Listed)
    BY DEF ReaderInv
  <2>2. Len(reader.got) \in Nat
    BY <2>1 DEF ReaderState
  <2>3. \A i \in 1..(Len(reader.got) - 1) :
          i \in 1..Len(reader.got) /\ i + 1 \in 1..Len(reader.got) /\ i < i + 1
    BY <2>2
  <2> QED  BY <2>1, <2>3 DEF Whole, Sorted
<1> QED  BY <1>1, <1>2, <1>3, PTL DEF ReadsSpec
----------------------------------------------------------------------------
(* What becomes of an itinerary.                                           *)

ReportIds == Int \X Int \X Int \X Int

LEMMA FiniteReports ==
  ASSUME NEW stage \in Int, NEW i \in Int, NEW parts \in SUBSET Pairs, IsFiniteSet(parts)
  PROVE  Reported(stage, i, parts) \subseteq ReportIds /\ IsFiniteSet(Reported(stage, i, parts))
<1> DEFINE f == [part \in parts |-> <<stage, i, part[1], part[2]>>]
<1>1. Reported(stage, i, parts) = {f[part] : part \in parts}
  BY DEF Reported
<1> HIDE DEF f
<1>2. IsFiniteSet({f[part] : part \in parts})
  BY FiniteImage
<1>3. Reported(stage, i, parts) \subseteq ReportIds
  BY DEF Reported, ReportIds, Pairs
<1> QED  BY <1>1, <1>2, <1>3

\* Remarks and single parts.
LEMMA FewParts ==
  ASSUME NEW raw, RawOK(raw)
  PROVE  /\ Len(raw.legs) \in Nat
         /\ \A stage \in {1, 2} : Remarks(raw, stage) \in SUBSET Pairs /\ IsFiniteSet(Remarks(raw, stage))
<1>1. Len(raw.legs) \in Nat
  BY Sequences DEF RawOK
<1>2. ASSUME NEW stage \in {1, 2}
      PROVE  Remarks(raw, stage) \in SUBSET Pairs /\ IsFiniteSet(Remarks(raw, stage))
  <2> DEFINE N == 1..raw.remarks[stage]
             f == [n \in N |-> <<Len(raw.legs) + 2, n>>]
  <2>1. raw.remarks[stage] \in Nat
    BY DEF RawOK
  <2>2. IsFiniteSet(N) /\ N \subseteq Int
    BY <2>1, FS_Interval
  <2>3. Remarks(raw, stage) = {f[n] : n \in N}
    BY DEF Remarks
  <2>4. Remarks(raw, stage) \subseteq Pairs
    BY <1>1, <2>2 DEF Remarks, Pairs
  <2> HIDE DEF f, N
  <2>5. IsFiniteSet({f[n] : n \in N})
    BY <2>2, FiniteImage
  <2> QED  BY <2>3, <2>4, <2>5
<1> QED  BY <1>1, <1>2

\* What there is to report of one itinerary.
LEMMA PartsOf ==
  ASSUME NEW page, NEW d, NEW i \in DOMAIN page, RawOK(page[i])
  PROVE  /\ Unread(page[i]) \in SUBSET Pairs /\ IsFiniteSet(Unread(page[i]))
         /\ LeftOut(page, d, i) \in SUBSET Pairs /\ IsFiniteSet(LeftOut(page, d, i))
<1> DEFINE raw == page[i]
           L == Len(raw.legs)
           one == {<<0, 0>>, <<L + 1, 0>>, <<L + 1, 1>>}
           legs == {<<leg, Len(raw.legs[leg]) + 1>> : leg \in ReadLegs(raw) \ PlacedLegs(raw)}
<1>1. L \in Nat /\ one \in SUBSET Pairs /\ IsFiniteSet(one)
  <2>1. L \in Nat
    BY FewParts
  <2> HIDE DEF L
  <2>2. IsFiniteSet({<<0, 0>>}) /\ IsFiniteSet({<<L + 1, 0>>}) /\ IsFiniteSet({<<L + 1, 1>>})
    BY FS_Singleton
  <2>3. IsFiniteSet(({<<0, 0>>} \cup {<<L + 1, 0>>}) \cup {<<L + 1, 1>>})
    BY <2>2, FS_Union
  <2>4. one = ({<<0, 0>>} \cup {<<L + 1, 0>>}) \cup {<<L + 1, 1>>}
    OBVIOUS
  <2> QED  BY <2>1, <2>3, <2>4 DEF Pairs
<1>2. Places(raw) \in SUBSET Pairs /\ IsFiniteSet(Places(raw)) /\ Read(raw) \subseteq Places(raw)
  BY PlacesArePairs DEF Read
<1>3. /\ Remarks(raw, 1) \in SUBSET Pairs /\ IsFiniteSet(Remarks(raw, 1))
      /\ Remarks(raw, 2) \in SUBSET Pairs /\ IsFiniteSet(Remarks(raw, 2))
  BY FewParts
<1>4. legs \in SUBSET Pairs /\ IsFiniteSet(legs)
  <2> DEFINE S == ReadLegs(raw) \ PlacedLegs(raw)
             f == [leg \in S |-> <<leg, Len(raw.legs[leg]) + 1>>]
  <2>1. /\ IsSequence(raw.legs) /\ IsFiniteSet(DOMAIN raw.legs) /\ DOMAIN raw.legs \subseteq Nat
        /\ \A leg \in DOMAIN raw.legs : Len(raw.legs[leg]) \in Nat
    BY Sequences DEF RawOK
  <2>2. S \subseteq DOMAIN raw.legs
    BY DEF ReadLegs, Read, Places
  <2>3. IsFiniteSet(S)
    BY <2>1, <2>2, FS_Subset
  <2>4. legs = {f[leg] : leg \in S} /\ legs \subseteq Pairs
    BY <2>1, <2>2 DEF Pairs
  <2> HIDE DEF f, S, legs
  <2>5. IsFiniteSet({f[leg] : leg \in S})
    BY <2>3, FiniteImage
  <2> QED  BY <2>4, <2>5
<1>5. Unread(raw) \subseteq (one \cup Places(raw)) \cup Remarks(raw, 1)
  BY DEF Unread
<1>6. LeftOut(page, d, i) \subseteq (one \cup Places(raw)) \cup (legs \cup Remarks(raw, 2))
  BY <1>2 DEF LeftOut
<1> HIDE DEF raw, one, legs, L
<1>7. IsFiniteSet((one \cup Places(raw)) \cup Remarks(raw, 1))
  BY <1>1, <1>2, <1>3, FS_Union
<1>8. IsFiniteSet((one \cup Places(raw)) \cup (legs \cup Remarks(raw, 2)))
  BY <1>1, <1>2, <1>3, <1>4, FS_Union
<1>9. Unread(raw) \in SUBSET Pairs /\ IsFiniteSet(Unread(raw))
  BY <1>1, <1>2, <1>3, <1>5, <1>7, FS_Subset
<1>10. LeftOut(page, d, i) \in SUBSET Pairs /\ IsFiniteSet(LeftOut(page, d, i))
  BY <1>1, <1>2, <1>3, <1>4, <1>6, <1>8, FS_Subset
<1> QED  BY <1>9, <1>10 DEF raw

LEMMA ReportsAreFinite ==
  ASSUME NEW page, NEW d, IsFiniteSet(DOMAIN page), DOMAIN page \subseteq Nat,
         \A i \in DOMAIN page : RawOK(page[i])
  PROVE  Reports(page, d) \subseteq ReportIds /\ IsFiniteSet(Reports(page, d))
<1> DEFINE first == [i \in DOMAIN page |-> Reported(1, i, Unread(page[i]))]
           last == [i \in Kept(page) |-> Reported(3, i, LeftOut(page, d, i))]
           again == Repeated(page)
           mark == [i \in again |-> <<2, i, 1, 0>>]
<1>1. Kept(page) \subseteq DOMAIN page /\ IsFiniteSet(Kept(page))
  BY FS_Subset DEF Kept
<1>2. \A i \in DOMAIN page : IsFiniteSet(first[i]) /\ first[i] \subseteq ReportIds
  BY PartsOf, FiniteReports
<1>3. \A i \in Kept(page) : IsFiniteSet(last[i]) /\ last[i] \subseteq ReportIds
  BY <1>1, PartsOf, FiniteReports
<1>4. IsFiniteSet(again) /\ {mark[i] : i \in again} \subseteq ReportIds
  <2>1. again \subseteq DOMAIN page
    BY DEF Repeated
  <2>2. \A i \in again : mark[i] \in ReportIds
    BY <2>1 DEF ReportIds
  <2> HIDE DEF again, mark
  <2> QED  BY <2>1, <2>2, FS_Subset
<1>5. /\ ReportsOfAdapter(page) \subseteq (UNION {first[i] : i \in DOMAIN page}) \cup {mark[i] : i \in again}
      /\ ReportsOfPersistence(page, d) \subseteq UNION {last[i] : i \in Kept(page)}
  <2>1. ASSUME NEW x \in ReportsOfPersistence(page, d) PROVE \E i \in Kept(page) : x \in last[i]
    <3>1. \A i \in Kept(page) : last[i] = Reported(3, i, LeftOut(page, d, i))
      OBVIOUS
    <3> HIDE DEF last
    <3> QED  BY <2>1, <3>1 DEF ReportsOfPersistence
  <2>2. ASSUME NEW x \in ReportsOfAdapter(page)
        PROVE  (\E i \in DOMAIN page : x \in first[i]) \/ \E i \in again : x = mark[i]
    <3>1. /\ \A i \in DOMAIN page : first[i] = Reported(1, i, Unread(page[i]))
          /\ \A i \in again : mark[i] = <<2, i, 1, 0>>
      OBVIOUS
    <3>2. \/ x \in UNION {Reported(1, i, Unread(page[i])) : i \in DOMAIN page}
          \/ x \in {<<2, i, 1, 0>> : i \in again}
      BY <2>2 DEF ReportsOfAdapter
    <3> HIDE DEF first, mark, again
    <3>3. x \in UNION {Reported(1, i, Unread(page[i])) : i \in DOMAIN page}
          => \E i \in DOMAIN page : x \in first[i]
      BY <3>1
    <3>4. x \in {<<2, i, 1, 0>> : i \in again} => \E i \in again : x = mark[i]
      BY <3>1
    <3> QED  BY <3>2, <3>3, <3>4
  <2> HIDE DEF first, last, mark, again
  <2> QED  BY <2>1, <2>2
<1> HIDE DEF first, last, mark, again
<1>6. /\ IsFiniteSet(UNION {first[i] : i \in DOMAIN page})
      /\ IsFiniteSet(UNION {last[i] : i \in Kept(page)})
      /\ IsFiniteSet({mark[i] : i \in again})
  BY <1>1, <1>2, <1>3, <1>4, FiniteUnion, FiniteImage
<1>7. IsFiniteSet(ReportsOfAdapter(page)) /\ IsFiniteSet(ReportsOfPersistence(page, d))
  <2>1. IsFiniteSet((UNION {first[i] : i \in DOMAIN page}) \cup {mark[i] : i \in again})
    BY <1>6, FS_Union
  <2> QED  BY <1>5, <1>6, <2>1, FS_Subset
<1>8. ReportsOfAdapter(page) \subseteq ReportIds /\ ReportsOfPersistence(page, d) \subseteq ReportIds
  BY <1>2, <1>3, <1>4, <1>5
<1> QED  BY <1>7, <1>8, FS_Union DEF Reports

\* If there are not too many, all of them are kept.
LEMMA AllAreKept ==
  ASSUME NEW page, NEW d, NEW after \in Nat, Reports(page, d) \subseteq ReportIds,
         IsFiniteSet(Reports(page, d)), ~(Cardinality(Reports(page, d)) + after > MaxDiagnostics)
  PROVE  Diagnostics(page, d, after) = Reports(page, d)
<1> DEFINE R == Reports(page, d)
<1>1. ASSUME NEW x \in R PROVE Cardinality({y \in R : ReportedBefore(x, y)}) + after < MaxDiagnostics
  <2> DEFINE later == {y \in R : ReportedBefore(x, y)}
  <2>1. x \in ReportIds
    OBVIOUS
  <2>2. ~ReportedBefore(x, x)
    BY <2>1 DEF ReportedBefore, ReportIds
  <2>3. later \subseteq R /\ later # R
    BY <2>2
  <2> HIDE DEF later, R
  <2>4. Cardinality(later) < Cardinality(R) /\ Cardinality(R) \in Nat /\ Cardinality(later) \in Nat
    BY <2>3, FS_Subset, FS_CardinalityType DEF R
  <2> QED  BY <2>4, Assumed DEF R, later
<1> QED  BY <1>1 DEF Diagnostics

LEMMA StoredOrReported == ASSUME NEW x \in Searches PROVE Explained[x]
<1> DEFINE page == Provided[x[1]].itineraries
           d == x[2]
           rows == Stored[x]
           after == Provided[x[1]].after
<1>0. /\ \A i \in DOMAIN page : RawOK(page[i])
      /\ IsFiniteSet(DOMAIN page) /\ DOMAIN page \subseteq Nat /\ after \in Nat
  <2>1. x[1] \in Answers /\ AnswerOK(Provided[x[1]])
    BY Assumed DEF Searches
  <2> QED  BY <2>1, PageOf DEF AnswerOK
<1>1. \A i \in DOMAIN page : RawOK(page[i])
  BY <1>0
<1>2. rows = [i \in Persisted(page, d) |-> Itinerary(page[i])]
  BY DEF Stored, Rows
<1> DEFINE enough == ~(Cardinality(Reports(page, d)) + after > MaxDiagnostics)
<1>3. enough => Diagnostics(page, d, after) = Reports(page, d)
  <2> HIDE DEF page, d, after
  <2> QED  BY <1>0, ReportsAreFinite, AllAreKept
<1>4. ASSUME NEW i \in DOMAIN page,
             ~\E report \in Reports(page, d) : report[2] = i /\ report[3] \in 1..(Len(page[i].legs) + 1)
      PROVE  /\ i \in DOMAIN rows /\ rows[i].prices = page[i].prices
             /\ \A leg \in DOMAIN page[i].legs : \A k \in DOMAIN page[i].legs[leg] :
                  [leg |-> leg - 1, segment |-> page[i].legs[leg][k]] \in ToSet(rows[i].segments)
  <2> HIDE DEF rows, page, d, after
  <2> DEFINE L == Len(page[i].legs)
  <2>a. L \in Nat /\ DOMAIN page[i].legs = 1..L
    BY <1>1, Sequences DEF RawOK
  <2>b. \A place \in Places(page[i]) : place[1] \in 1..L /\ place = <<place[1], place[2]>>
    BY <2>a DEF Places
  <2>c. ASSUME NEW part \in Unread(page[i]), part[1] \in 1..(L + 1) PROVE FALSE
    <3>1. <<1, i, part[1], part[2]>> \in Reported(1, i, Unread(page[i]))
      BY DEF Reported
    <3>2. <<1, i, part[1], part[2]>> \in ReportsOfAdapter(page)
      BY <3>1 DEF ReportsOfAdapter
    <3> QED  BY <1>4, <2>c, <3>2 DEF Reports
  <2>d. ASSUME i \in Kept(page), NEW part \in LeftOut(page, d, i), part[1] \in 1..(L + 1) PROVE FALSE
    <3>1. <<3, i, part[1], part[2]>> \in Reported(3, i, LeftOut(page, d, i))
      BY DEF Reported
    <3>2. <<3, i, part[1], part[2]>> \in ReportsOfPersistence(page, d)
      BY <2>d, <3>1 DEF ReportsOfPersistence
    <3> QED  BY <1>4, <2>d, <3>2 DEF Reports
  <2>e. L + 1 \in 1..(L + 1) /\ 1..L \subseteq 1..(L + 1)
    BY <2>a
  <2>f. Read(page[i]) = Places(page[i])
    <3>1. Places(page[i]) \ Read(page[i]) \subseteq Unread(page[i])
      BY DEF Unread
    <3> QED  BY <2>b, <2>c, <2>e, <3>1 DEF Read
  <2>g. ReadLegs(page[i]) # {}
    <3>1. ReadLegs(page[i]) = {} => <<L + 1, 0>> \in Unread(page[i])
      BY DEF Unread
    <3>2. <<L + 1, 0>>[1] = L + 1
      OBVIOUS
    <3> HIDE DEF L
    <3> QED  BY <2>c, <2>e, <3>1, <3>2
  <2>h. NoPrice \notin page[i].prices
    <3>1. NoPrice \in page[i].prices => <<L + 1, 1>> \in Unread(page[i])
      BY <2>g DEF Unread
    <3>2. <<L + 1, 1>>[1] = L + 1
      OBVIOUS
    <3> HIDE DEF L
    <3> QED  BY <2>c, <2>e, <3>1, <3>2
  <2>i. i \in Kept(page)
    <3>1. i \notin Kept(page) => i \in Repeated(page)
      BY <2>g DEF Repeated
    <3>2. i \in Repeated(page) => <<2, i, 1, 0>> \in {<<2, j, 1, 0>> : j \in Repeated(page)}
      OBVIOUS
    <3>3. i \in Repeated(page) => <<2, i, 1, 0>> \in Reports(page, d)
      BY <3>2, Zenon DEF Reports, ReportsOfAdapter
    <3> QED  BY <1>4, <2>a, <3>1, <3>3
  <2>1. i \in Kept(page) /\ NoPrice \notin page[i].prices /\ Read(page[i]) = Places(page[i])
    BY <2>f, <2>h, <2>i
  <2>j. PlacedIn(page[i]) = Read(page[i])
    <3>1. Read(page[i]) \ PlacedIn(page[i]) \subseteq LeftOut(page, d, i)
      BY DEF LeftOut
    <3> QED  BY <2>b, <2>d, <2>e, <2>f, <2>i, <3>1 DEF PlacedIn
  <2>k. i \in Persisted(page, d)
    <3>1. i \notin Persisted(page, d) => <<L + 1, 0>> \in LeftOut(page, d, i)
      BY DEF LeftOut
    <3>2. <<L + 1, 0>>[1] = L + 1
      OBVIOUS
    <3> HIDE DEF L
    <3> QED  BY <2>d, <2>e, <2>i, <3>1, <3>2
  <2>2. i \in Persisted(page, d) /\ PlacedIn(page[i]) = Read(page[i])
    BY <2>j, <2>k
  <2>3. i \in DOMAIN rows /\ rows[i] = Itinerary(page[i])
    BY <1>2, <2>2
  <2>4. rows[i].prices = page[i].prices /\ rows[i].segments = Segments(page[i])
    BY <2>1, <2>3 DEF Itinerary, ReadPrices
  <2>5. ASSUME NEW leg \in DOMAIN page[i].legs, NEW k \in DOMAIN page[i].legs[leg]
        PROVE  [leg |-> leg - 1, segment |-> page[i].legs[leg][k]] \in ToSet(rows[i].segments)
    <3>1. <<leg, k>> \in PlacedIn(page[i])
      BY <2>1, <2>2 DEF Places
    <3>2. PICK n \in DOMAIN Segments(page[i]) :
            Segments(page[i])[n] = [leg |-> <<leg, k>>[1] - 1, segment |-> At(page[i], <<leg, k>>)]
      BY <1>1, <3>1, SegmentsOf
    <3> QED  BY <2>4, <3>2 DEF At, ToSet
  <2> QED  BY <2>3, <2>4, <2>5
<1>5. ~enough \/ \A i \in DOMAIN page :
        \/ /\ i \in DOMAIN rows /\ rows[i].prices = page[i].prices
           /\ \A leg \in DOMAIN page[i].legs : \A k \in DOMAIN page[i].legs[leg] :
                [leg |-> leg - 1, segment |-> page[i].legs[leg][k]] \in ToSet(rows[i].segments)
        \/ \E report \in Diagnostics(page, d, after) :
             report[2] = i /\ report[3] \in 1..(Len(page[i].legs) + 1)
  <2> HIDE DEF page, d, after, rows, enough
  <2> QED  BY <1>3, <1>4
<1> QED  BY <1>5 DEF Explained

\* Nothing gets lost in silence on the way from an answer to its rows.
THEOREM NothingLostInSilence == ReadsSpec => []LossIsExplained
<1>1. StoreOK => LossIsExplained
  <2> SUFFICES ASSUME StoreOK, NEW r \in Saved PROVE Explained[<<run[r].answer, directOnly>>]
    BY DEF LossIsExplained
  <2>1. <<run[r].answer, directOnly>> \in Searches
    BY SavedRuns DEF Searches, StoreOK
  <2> QED  BY <2>1, StoredOrReported
<1>2. StoreOK /\ [ReadsNext]_readsVars => StoreOK'
  BY NextRuns
<1> QED  BY <1>1, <1>2, InitStore, PTL DEF ReadsSpec
----------------------------------------------------------------------------
(* Sums over parts.                                                        *)

LEMMA BiggestOf ==
  ASSUME NEW P \in SUBSET Nat, P # {}, IsFiniteSet(P) PROVE \E m \in P : \A n \in P : n <= m
<1> DEFINE Above(x) == {y \in P : x < y}
           counts == {Cardinality(Above(x)) : x \in P}
<1>1. \A x \in P : IsFiniteSet(Above(x)) /\ Cardinality(Above(x)) \in Nat
  BY FS_Subset, FS_CardinalityType
<1>2. counts \in SUBSET Nat /\ counts # {}
  BY <1>1
<1> HIDE DEF counts
<1>3. PICK c \in counts : \A n \in counts : c <= n
  BY <1>2, Smallest
<1>4. PICK x \in P : c = Cardinality(Above(x))
  BY <1>3 DEF counts
<1>5. ASSUME NEW y \in P, x < y PROVE FALSE
  <2>0. x \in Nat /\ y \in Nat /\ \A z \in P : z \in Nat
    OBVIOUS
  <2>1. Above(y) \subseteq Above(x) /\ y \in Above(x) /\ y \notin Above(y)
    <3>1. \A z \in P : y < z => x < z
      BY <1>5, <2>0
    <3>2. ~(y < y)
      BY <2>0
    <3> QED  BY <1>5, <3>1, <3>2
  <2> HIDE DEF Above
  <2>2. Cardinality(Above(y)) < Cardinality(Above(x))
    BY <1>1, <2>1, FS_Subset
  <2>3. Cardinality(Above(y)) \in counts
    BY DEF counts
  <2> QED  BY <1>1, <1>3, <1>4, <2>2, <2>3
<1> QED  BY <1>5

LEMMA MinIs ==
  ASSUME NEW P \in SUBSET Int, NEW m \in P, \A n \in P : m <= n PROVE Min(P) = m
<1>1. Min(P) \in P /\ \A n \in P : Min(P) <= n
  BY DEF Min
<1>2. Min(P) <= m /\ m <= Min(P) /\ Min(P) \in Int /\ m \in Int
  BY <1>1
<1> QED  BY <1>2

LEMMA MaxIs ==
  ASSUME NEW P \in SUBSET Int, NEW m \in P, \A n \in P : n <= m PROVE Max(P) = m
<1>1. \A n \in P : m >= n
  OBVIOUS
<1>2. Max(P) \in P /\ \A n \in P : Max(P) >= n
  BY <1>1 DEF Max
<1>3. Max(P) >= m /\ Max(P) <= m /\ Max(P) \in Int /\ m \in Int
  BY <1>2
<1> QED  BY <1>3

LEMMA SumPairs ==
  ASSUME NEW K, IsFiniteSet(K), NEW number \in [K -> Nat]
  PROVE  /\ SumOf(number) = Cardinality(UNION {{k} \X (1..number[k]) : k \in K})
         /\ IsFiniteSet(UNION {{k} \X (1..number[k]) : k \in K})
         /\ \A a : a \in UNION {{k} \X (1..number[k]) : k \in K} <=>
                     a = <<a[1], a[2]>> /\ a[1] \in K /\ a[2] \in 1..number[a[1]]
<1> DEFINE A == UNION {{k} \X (1..number[k]) : k \in K}
           pairs == [k \in K |-> {k} \X (1..number[k])]
<1>1. \A k \in K : IsFiniteSet(pairs[k])
  <2>1. \A k \in K : IsFiniteSet(1..number[k])
    BY FS_Interval
  <2> QED  BY <2>1, FS_Product, FS_Singleton
<1> HIDE DEF pairs
<1>2. IsFiniteSet(UNION {pairs[k] : k \in K})
  BY <1>1, FiniteUnion
<1>3. A = UNION {pairs[k] : k \in K}
  BY DEF pairs
<1>4. \A a : a \in A <=> a = <<a[1], a[2]>> /\ a[1] \in K /\ a[2] \in 1..number[a[1]]
  OBVIOUS
<1>5. SumOf(number) = Cardinality(A)
  BY DEF SumOf
<1> QED  BY <1>2, <1>3, <1>4, <1>5

\* The sizes of disjoint parts add up to the size of the whole.
LEMMA SumOfParts ==
  ASSUME NEW K, IsFiniteSet(K), NEW part, \A k \in K : IsFiniteSet(part[k]),
         \A k, l \in K : k # l => part[k] \cap part[l] = {}
  PROVE  SumOf([k \in K |-> Cardinality(part[k])]) = Cardinality(UNION {part[k] : k \in K})
<1> DEFINE number == [k \in K |-> Cardinality(part[k])]
           A == UNION {{k} \X (1..number[k]) : k \in K}
           B == UNION {part[k] : k \in K}
           b == [k \in K |-> CHOOSE g : g \in Bijection(1..number[k], part[k])]
           h == [a \in A |-> b[a[1]][a[2]]]
<1>1. number \in [K -> Nat] /\ \A k \in K : number[k] = Cardinality(part[k])
  BY FS_CardinalityType
<1>2. \A k \in K : b[k] \in Bijection(1..number[k], part[k])
  BY <1>1, FS_CardinalityType DEF ExistsBijection
<1> HIDE DEF b
<1>3. /\ SumOf(number) = Cardinality(A) /\ IsFiniteSet(A)
      /\ \A a : a \in A <=> a = <<a[1], a[2]>> /\ a[1] \in K /\ a[2] \in 1..number[a[1]]
  BY <1>1, SumPairs
<1> HIDE DEF A, number
<1>4. \A k \in K : \A u \in 1..number[k] : b[k][u] \in part[k]
  BY <1>2 DEF Bijection, Injection, Surjection
<1>5. \A k \in K : \A u, v \in 1..number[k] : b[k][u] = b[k][v] => u = v
  BY <1>2 DEF Bijection, Injection, IsInjective
<1>6. \A k \in K : \A x \in part[k] : \E u \in 1..number[k] : b[k][u] = x
  BY <1>2 DEF Bijection, Surjection
<1>7. h \in [A -> B]
  BY <1>3, <1>4
<1>8. ASSUME NEW x \in A, NEW y \in A, h[x] = h[y] PROVE x = y
  <2>1. h[x] \in part[x[1]] /\ h[y] \in part[y[1]] /\ x[1] \in K /\ y[1] \in K
    BY <1>3, <1>4
  <2>2. x[1] = y[1]
    BY <1>8, <2>1
  <2>3. x[2] = y[2]
    BY <1>3, <1>5, <1>8, <2>2
  <2> QED  BY <1>3, <2>2, <2>3
<1>9. ASSUME NEW z \in B PROVE \E x \in A : h[x] = z
  <2>1. PICK k \in K : z \in part[k]
    OBVIOUS
  <2>2. PICK u \in 1..number[k] : b[k][u] = z
    BY <1>6, <2>1
  <2>3. <<k, u>> \in A
    BY <1>3
  <2> QED  BY <2>2, <2>3
<1>10. h \in Bijection(A, B)
  BY <1>7, <1>8, <1>9 DEF Bijection, Injection, Surjection, IsInjective
<1> HIDE DEF h, B
<1>11. Cardinality(B) = Cardinality(A)
  BY <1>3, <1>10, FS_Bijection DEF ExistsBijection
<1> QED  BY <1>3, <1>11 DEF B, number

\* A sum stays the same under other names.
LEMMA SumAlong ==
  ASSUME NEW S, IsFiniteSet(S), NEW T, NEW h \in Bijection(S, T),
         NEW m \in [S -> Nat], NEW n \in [T -> Nat], \A x \in S : n[h[x]] = m[x]
  PROVE  SumOf(m) = SumOf(n)
<1> DEFINE A == UNION {{x} \X (1..m[x]) : x \in S}
           B == UNION {{y} \X (1..n[y]) : y \in T}
           g == [a \in A |-> <<h[a[1]], a[2]>>]
<1>1. /\ h \in [S -> T] /\ \A x, y \in S : h[x] = h[y] => x = y
      /\ \A y \in T : \E x \in S : h[x] = y
  BY DEF Bijection, Injection, Surjection, IsInjective
<1>2. IsFiniteSet(T)
  BY FS_Bijection DEF ExistsBijection
<1>3. /\ SumOf(m) = Cardinality(A) /\ IsFiniteSet(A)
      /\ \A a : a \in A <=> a = <<a[1], a[2]>> /\ a[1] \in S /\ a[2] \in 1..m[a[1]]
  BY SumPairs
<1>4. /\ SumOf(n) = Cardinality(B)
      /\ \A b : b \in B <=> b = <<b[1], b[2]>> /\ b[1] \in T /\ b[2] \in 1..n[b[1]]
  BY <1>2, SumPairs
<1> HIDE DEF A, B
<1>5. \A a \in A : <<h[a[1]], a[2]>> \in B
  BY <1>1, <1>3, <1>4
<1>6. ASSUME NEW a \in A, NEW c \in A, g[a] = g[c] PROVE a = c
  <2>1. h[a[1]] = h[c[1]] /\ a[2] = c[2] /\ a[1] \in S /\ c[1] \in S
    BY <1>3, <1>6
  <2> QED  BY <1>1, <1>3, <2>1
<1>7. ASSUME NEW b \in B PROVE \E a \in A : g[a] = b
  <2>1. b = <<b[1], b[2]>> /\ b[1] \in T /\ b[2] \in 1..n[b[1]]
    BY <1>4
  <2>2. PICK x \in S : h[x] = b[1]
    BY <1>1, <2>1
  <2>3. <<x, b[2]>> \in A
    BY <1>3, <2>1, <2>2
  <2> QED  BY <2>1, <2>2, <2>3
<1>8. g \in Bijection(A, B)
  BY <1>5, <1>6, <1>7 DEF Bijection, Injection, Surjection, IsInjective
<1> HIDE DEF g
<1>9. Cardinality(B) = Cardinality(A)
  BY <1>3, <1>8, FS_Bijection DEF ExistsBijection
<1> QED  BY <1>3, <1>4, <1>9

LEMMA RowAlong ==
  ASSUME NEW S, IsFiniteSet(S), NEW T, NEW h \in Bijection(S, T),
         \A x \in S : Price(x) \in Nat /\ Price(h[x]) = Price(x)
  PROVE  Row(S) = Row(T)
<1> DEFINE m == [x \in S |-> Price(x)]
           n == [y \in T |-> Price(y)]
<1>1. /\ h \in [S -> T] /\ \A y \in T : \E x \in S : h[x] = y
  BY DEF Bijection, Injection, Surjection, IsInjective
<1>2. {Price(x) : x \in S} = {Price(y) : y \in T}
  <2>1. \A x \in S : h[x] \in T /\ Price(h[x]) = Price(x)
    BY <1>1
  <2>2. \A y \in T : \E x \in S : Price(x) = Price(y)
    BY <1>1
  <2> QED  BY <2>1, <2>2
<1>3. m \in [S -> Nat] /\ n \in [T -> Nat] /\ \A x \in S : n[h[x]] = m[x]
  BY <1>1
<1> HIDE DEF m, n
<1>4. SumOf(m) = SumOf(n)
  BY <1>3, SumAlong
<1>5. Cardinality(S) = Cardinality(T)
  BY FS_Bijection DEF ExistsBijection
<1> QED  BY <1>2, <1>4, <1>5 DEF Row, m, n
----------------------------------------------------------------------------
(* Points of the dashboard.                                                *)

KeyOf(x) == <<x[1], x[2], x[3]>>

LEMMA PricesOf ==
  ASSUME NEW S, IsFiniteSet(S), S # {}, \A x \in S : Price(x) \in Nat
  PROVE  /\ Row(S).lowest \in {Price(x) : x \in S} /\ \A x \in S : Row(S).lowest <= Price(x)
         /\ Row(S).highest \in {Price(x) : x \in S} /\ \A x \in S : Price(x) <= Row(S).highest
<1> DEFINE price == [x \in S |-> Price(x)]
           P == {price[x] : x \in S}
<1>1. P \in SUBSET Nat /\ P # {} /\ P = {Price(x) : x \in S} /\ \A x \in S : Price(x) \in P
  OBVIOUS
<1> HIDE DEF price
<1>2. IsFiniteSet(P)
  BY FiniteImage
<1> HIDE DEF P
<1>3. PICK m \in P : \A n \in P : m <= n
  BY <1>1, Smallest
<1>4. PICK b \in P : \A n \in P : n <= b
  BY <1>1, <1>2, BiggestOf
<1>0. P \in SUBSET Int
  BY <1>1
<1>5. Min(P) = m /\ Max(P) = b
  BY <1>0, <1>3, <1>4, MinIs, MaxIs
<1>6. Row(S).lowest = Min(P) /\ Row(S).highest = Max(P)
  BY <1>1 DEF Row
<1> QED  BY <1>1, <1>3, <1>4, <1>5, <1>6

\* The rows of a day put together are the row of the day.
LEMMA PointOfRows ==
  ASSUME NEW T, IsFiniteSet(T), \A x \in T : Price(x) \in Nat, NEW day, \E x \in T : x[3] = day
  PROVE  Point(RowsOf(T), {key \in DOMAIN RowsOf(T) : key[3] = day}) = Row({x \in T : x[3] = day})
<1> DEFINE row == RowsOf(T)
           K == {key \in DOMAIN row : key[3] = day}
           D == {x \in T : x[3] = day}
           part == [k \in K |-> {x \in T : KeyOf(x) = k}]
<1>1. /\ DOMAIN row = {KeyOf(x) : x \in T}
      /\ \A k \in DOMAIN row : row[k] = Row({x \in T : KeyOf(x) = k})
  BY DEF RowsOf, KeyOf
<1> HIDE DEF row
<1>2. \A k \in K : row[k] = Row(part[k])
  BY <1>1
<1>3. \A x \in D : KeyOf(x) \in K
  BY <1>1 DEF KeyOf
<1>4. \A k \in K : part[k] \subseteq D /\ part[k] # {}
  BY <1>1 DEF KeyOf
<1>5. \A x \in D : x \in part[KeyOf(x)]
  BY <1>3
<1>6. \A k, l \in K : k # l => part[k] \cap part[l] = {}
  OBVIOUS
<1>7. D # {} /\ IsFiniteSet(D) /\ \A x \in D : Price(x) \in Nat
  BY FS_Subset
<1>8. IsFiniteSet(K)
  <2> DEFINE key == [x \in T |-> KeyOf(x)]
  <2>1. K \subseteq {key[x] : x \in T}
    BY <1>1
  <2> HIDE DEF key, K
  <2>2. IsFiniteSet({key[x] : x \in T})
    BY FiniteImage
  <2> QED  BY <2>1, <2>2, FS_Subset
<1> HIDE DEF K, D, part
<1>9. \A k \in K : IsFiniteSet(part[k]) /\ \A x \in part[k] : Price(x) \in Nat
  BY <1>4, <1>7, FS_Subset
<1>10. Min({row[k].lowest : k \in K}) = Row(D).lowest
  <2> DEFINE P == {row[k].lowest : k \in K}
  <2>1. PICK x \in D : Row(D).lowest = Price(x) /\ \A y \in D : Price(x) <= Price(y)
    BY <1>7, PricesOf
  <2>2. ASSUME NEW k \in K PROVE \E y \in part[k] : row[k].lowest = Price(y) /\ Price(y) \in Nat
                                                  /\ \A z \in part[k] : row[k].lowest <= Price(z)
    <3>1. /\ Row(part[k]).lowest \in {Price(y) : y \in part[k]}
          /\ \A y \in part[k] : Row(part[k]).lowest <= Price(y)
      BY <1>4, <1>9, PricesOf
    <3> QED  BY <1>2, <1>9, <3>1
  <2>3. P \in SUBSET Int
    BY <2>2
  <2>4. \A p \in P : Price(x) <= p
    BY <1>4, <2>1, <2>2
  <2>5. Price(x) \in P
    <3>1. KeyOf(x) \in K /\ x \in part[KeyOf(x)]
      BY <1>3, <1>5
    <3>2. PICK y \in part[KeyOf(x)] : row[KeyOf(x)].lowest = Price(y) /\ Price(y) \in Nat
                                      /\ row[KeyOf(x)].lowest <= Price(x)
      BY <2>2, <3>1
    <3>3. Price(x) <= Price(y) /\ Price(x) \in Nat
      BY <1>4, <1>7, <2>1, <3>1
    <3>4. Price(x) = row[KeyOf(x)].lowest
      BY <3>2, <3>3
    <3> QED  BY <3>1, <3>4
  <2> HIDE DEF P
  <2>6. Min(P) = Price(x)
    BY <2>3, <2>4, <2>5, MinIs
  <2> QED  BY <2>1, <2>6 DEF P
<1>11. Max({row[k].highest : k \in K}) = Row(D).highest
  <2> DEFINE P == {row[k].highest : k \in K}
  <2>1. PICK x \in D : Row(D).highest = Price(x) /\ \A y \in D : Price(y) <= Price(x)
    BY <1>7, PricesOf
  <2>2. ASSUME NEW k \in K PROVE \E y \in part[k] : row[k].highest = Price(y) /\ Price(y) \in Nat
                                                  /\ \A z \in part[k] : Price(z) <= row[k].highest
    <3>1. /\ Row(part[k]).highest \in {Price(y) : y \in part[k]}
          /\ \A y \in part[k] : Price(y) <= Row(part[k]).highest
      BY <1>4, <1>9, PricesOf
    <3> QED  BY <1>2, <1>9, <3>1
  <2>3. P \in SUBSET Int
    BY <2>2
  <2>4. \A p \in P : p <= Price(x)
    BY <1>4, <2>1, <2>2
  <2>5. Price(x) \in P
    <3>1. KeyOf(x) \in K /\ x \in part[KeyOf(x)]
      BY <1>3, <1>5
    <3>2. PICK y \in part[KeyOf(x)] : row[KeyOf(x)].highest = Price(y) /\ Price(y) \in Nat
                                      /\ Price(x) <= row[KeyOf(x)].highest
      BY <2>2, <3>1
    <3>3. Price(y) <= Price(x) /\ Price(x) \in Nat
      BY <1>4, <1>7, <2>1, <3>1
    <3>4. Price(x) = row[KeyOf(x)].highest
      BY <3>2, <3>3
    <3> QED  BY <3>1, <3>4
  <2> HIDE DEF P
  <2>6. Max(P) = Price(x)
    BY <2>3, <2>4, <2>5, MaxIs
  <2> QED  BY <2>1, <2>6 DEF P
<1>12. SumOf([k \in K |-> row[k].count]) = Row(D).count
  <2>0. \A S : Row(S).count = Cardinality(S)
    BY DEF Row
  <2>1. \A k \in K : row[k].count = Cardinality(part[k])
    BY <1>2, <2>0
  <2>2. [k \in K |-> row[k].count] = [k \in K |-> Cardinality(part[k])]
    BY <2>1
  <2>3. UNION {part[k] : k \in K} = D
    BY <1>3, <1>4, <1>5
  <2>4. SumOf([k \in K |-> Cardinality(part[k])]) = Cardinality(UNION {part[k] : k \in K})
    BY <1>6, <1>8, <1>9, SumOfParts
  <2> QED  BY <2>2, <2>3, <2>4 DEF Row
<1>13. SumOf([k \in K |-> row[k].sum]) = Row(D).sum
  <2> DEFINE Units(S) == UNION {{x} \X (1..[y \in S |-> Price(y)][x]) : x \in S}
             units == [k \in K |-> Units(part[k])]
  <2>1. ASSUME NEW S, IsFiniteSet(S), \A x \in S : Price(x) \in Nat
        PROVE  /\ Row(S).sum = Cardinality(Units(S)) /\ IsFiniteSet(Units(S))
               /\ \A a : a \in Units(S) <=> a = <<a[1], a[2]>> /\ a[1] \in S /\ a[2] \in 1..Price(a[1])
    <3> DEFINE price == [y \in S |-> Price(y)]
    <3>1. price \in [S -> Nat]
      BY <2>1
    <3> HIDE DEF price
    <3>2. /\ SumOf(price) = Cardinality(UNION {{x} \X (1..price[x]) : x \in S})
          /\ IsFiniteSet(UNION {{x} \X (1..price[x]) : x \in S})
          /\ \A a : a \in UNION {{x} \X (1..price[x]) : x \in S}
                    <=> a = <<a[1], a[2]>> /\ a[1] \in S /\ a[2] \in 1..price[a[1]]
      BY <2>1, <3>1, SumPairs
    <3>3. Row(S).sum = SumOf(price)
      BY DEF Row, price
    <3>4. \A x \in S : price[x] = Price(x)
      BY DEF price
    <3>5. UNION {{x} \X (1..price[x]) : x \in S} = Units(S)
      BY DEF price
    <3> HIDE DEF Units
    <3> QED  BY <3>2, <3>3, <3>4, <3>5
  <2> HIDE DEF Units
  <2>2. \A k \in K : /\ row[k].sum = Cardinality(units[k]) /\ IsFiniteSet(units[k])
                     /\ \A a : a \in units[k] <=>
                          a = <<a[1], a[2]>> /\ a[1] \in part[k] /\ a[2] \in 1..Price(a[1])
    BY <1>2, <1>9, <2>1
  <2>3. /\ Row(D).sum = Cardinality(Units(D))
        /\ \A a : a \in Units(D) <=> a = <<a[1], a[2]>> /\ a[1] \in D /\ a[2] \in 1..Price(a[1])
    BY <1>7, <2>1
  <2> HIDE DEF units
  <2>4. \A k, l \in K : k # l => units[k] \cap units[l] = {}
    BY <1>6, <2>2
  <2>5. UNION {units[k] : k \in K} = Units(D)
    <3>1. ASSUME NEW a \in Units(D) PROVE a \in UNION {units[k] : k \in K}
      <4>1. a = <<a[1], a[2]>> /\ a[1] \in D /\ a[2] \in 1..Price(a[1])
        BY <2>3
      <4>2. KeyOf(a[1]) \in K /\ a[1] \in part[KeyOf(a[1])]
        BY <1>3, <1>5, <4>1
      <4>3. a \in units[KeyOf(a[1])]
        BY <2>2, <4>1, <4>2
      <4> QED  BY <4>2, <4>3
    <3>2. ASSUME NEW k \in K, NEW a \in units[k] PROVE a \in Units(D)
      BY <1>4, <2>2, <2>3
    <3> QED  BY <3>1, <3>2
  <2>6. SumOf([k \in K |-> Cardinality(units[k])]) = Cardinality(UNION {units[k] : k \in K})
    BY <1>8, <2>2, <2>4, SumOfParts
  <2>7. [k \in K |-> row[k].sum] = [k \in K |-> Cardinality(units[k])]
    BY <2>2
  <2> QED  BY <2>3, <2>5, <2>6, <2>7
<1>14. Row(D) = [lowest |-> Row(D).lowest, highest |-> Row(D).highest, sum |-> Row(D).sum, count |-> Row(D).count]
  BY DEF Row
<1>15. Point(row, K) = [lowest |-> Min({row[k].lowest : k \in K}), highest |-> Max({row[k].highest : k \in K}),
                        sum |-> SumOf([k \in K |-> row[k].sum]), count |-> SumOf([k \in K |-> row[k].count])]
  BY DEF Point
<1>16. Point(row, K) = Row(D)
  BY <1>10, <1>11, <1>12, <1>13, <1>14, <1>15
<1> QED  BY <1>16 DEF row, K, D
----------------------------------------------------------------------------
(* Trends.                                                                 *)

LEMMA Scaled == ASSUME NEW d \in Int, NEW e \in Int, d <= e PROVE DayLength * d <= DayLength * e
<1>1. PICK D \in Nat : D = DayLength
  BY Assumed
<1>2. PICK k \in Nat : e = d + k
  OBVIOUS
<1>3. D * k >= 0 /\ D * e = D * d + D * k
  BY <1>2
<1>4. D * d \in Int /\ D * k \in Int
  OBVIOUS
<1> QED  BY <1>1, <1>3, <1>4

LEMMA DayOf ==
  ASSUME NEW t \in Int
  PROVE  /\ Day(t) \in Int /\ t < DayLength * Day(t) + DayLength
         /\ \A d \in Int : DayLength * d <= t <=> d <= Day(t)
<1>1. PICK D \in Nat \ {0} : D = DayLength
  BY Assumed
<1>2. t \div D \in Int /\ t % D \in 0..(D - 1) /\ t % D = t - (t \div D) * D
  OBVIOUS
<1>3. PICK q \in Int, r \in 0..(D - 1) : q = t \div D /\ r = t - q * D
  BY <1>2
<1>4. q * D = D * q /\ D * q \in Int
  OBVIOUS
<1>5. D * q <= t /\ t < D * q + D
  BY <1>3, <1>4
<1>6. D * (q + 1) = D * q + D
  OBVIOUS
<1>7. ASSUME NEW d \in Int PROVE D * d <= t <=> d <= q
  <2>1. D * d \in Int
    OBVIOUS
  <2>2. CASE d <= q
    <3>1. D * d <= D * q
      BY <1>1, <2>2, Scaled
    <3> QED  BY <1>4, <1>5, <2>1, <2>2, <3>1
  <2>3. CASE ~(d <= q)
    <3>1. D * (q + 1) <= D * d
      BY <1>1, <2>3, Scaled
    <3> QED  BY <1>4, <1>5, <1>6, <2>1, <2>3, <3>1
  <2> QED  BY <2>2, <2>3
<1> QED  BY <1>1, <1>3, <1>5, <1>7 DEF Day

LEMMA CeilDayIs ==
  ASSUME NEW t \in Int PROVE CeilDay(t) \in Int /\ t <= DayLength * CeilDay(t)
<1>1. PICK u \in Int : u = t + DayLength - 1
  BY Assumed
<1>2. CeilDay(t) = Day(u)
  BY <1>1 DEF CeilDay, Day
<1>3. Day(u) \in Int /\ u < DayLength * Day(u) + DayLength
  BY DayOf
<1>4. DayLength \in Int /\ DayLength * Day(u) \in Int
  BY <1>3, Assumed
<1> QED  BY <1>1, <1>2, <1>3, <1>4

\* Without a scan the day's minimum is the best price, for direct flights or for all.
LEMMA DailyIsBest ==
  ASSUME NEW x \in Searches, NEW f \in Filters, ~NeedsScan(f), f.maxPrice = Nothing
  PROVE  DailyMinimum[<<x[1], x[2], f.direct>>] = BestOf[<<x[1], x[2], f>>]
<1> DEFINE c == <<x[1], x[2], f>>
           rows == Stored[<<x[1], x[2]>>]
           admitted == {o \in Offers(rows) : WithinPrice(f, o[1]) /\ Admits(f, rows[o[2]])}
           offers == {o \in Offers(rows) : f.direct => rows[o[2]].direct}
<1>1. c \in Cases /\ f.direct \in BOOLEAN
  BY Assumed DEF Cases
<1>2. BestOf[c] = Cheapest({o[1] : o \in admitted})
  BY <1>1 DEF BestOf, Found, FoundIn, RowsFor
<1>3. DailyMinimum[<<x[1], x[2], f.direct>>] = Cheapest({o[1] : o \in offers})
  BY <1>1 DEF DailyMinimum, DayMinimumIn, RowsFor
<1>4. \A o \in Offers(rows) : o \in admitted <=> o \in offers
  BY AdmitsUnscanned DEF WithinPrice
<1>5. admitted = offers
  BY <1>4
<1> QED  BY <1>2, <1>3, <1>5

Recent == {r \in Saved : run[r].at >= now - Window}

LEMMA BestIsOne ==
  ASSUME StoreOK, NEW r \in Saved, NEW f \in Filters
  PROVE  Best(r, f) \in SUBSET Nat /\ IsFiniteSet(Best(r, f))
<1> DEFINE c == Of(r, f)
           P == {o[1] : o \in Found[c]}
<1>1. c \in Cases
  BY OfSaved
<1> HIDE DEF c
<1>2. P \in SUBSET Nat
  <2>1. PICK x \in Searches, g \in Filters : c = <<x[1], x[2], g>>
    BY <1>1 DEF Cases
  <2>2. <<c[1], c[2]>> \in Searches
    BY <2>1 DEF Searches
  <2>3. RowsOK(RowsFor(c))
    BY <2>2, StoredOK DEF RowsFor
  <2>4. Found[c] = FoundIn(RowsFor(c), c[3])
    BY <1>1 DEF Found
  <2>5. FoundIn(RowsFor(c), c[3]) \in SUBSET Offers(RowsFor(c))
    BY DEF FoundIn
  <2>6. {o[1] : o \in FoundIn(RowsFor(c), c[3])} \in SUBSET Nat
    BY <2>3, <2>5, OfferPrices
  <2> QED  BY <2>4, <2>6
<1>3. Best(r, f) = Cheapest(P)
  BY <1>1 DEF Best, BestOf, c
<1> HIDE DEF P
<1>4. \/ Cheapest(P) = {}
      \/ \E m \in P : Cheapest(P) = {m}
  BY <1>2, CheapestOne
<1>5. Cheapest(P) \in SUBSET Nat /\ IsFiniteSet(Cheapest(P))
  BY <1>2, <1>4, FS_EmptySet, FS_Singleton
<1> QED  BY <1>3, <1>5

InPieces(trend, f, piece) ==
  \A x : x \in trend <=> \E r \in Recent : \E p \in Best(r, f) : x = <<piece[r], r, p>>

\* Every run is in one of the pieces of a trend.
LEMMA Pieces ==
  ASSUME StoreOK, NEW f \in Filters
  PROVE  \E piece : InPieces(Trend(f, now), f, piece)
<1> DEFINE since == now - Window
           full == FullDays(since, now)
           whole == ~(NeedsScan(f) \/ f.maxPrice # Nothing \/ full = {} \/ ~(full \subseteq covered))
           Some(from, until) == {r \in Saved : from <= run[r].at /\ run[r].at < until}
<1>1. now \in Nat /\ since \in Int /\ now + 1 \in Int /\ \A r \in Saved : run[r].at \in 0..now /\ run[r].at \in Int
  BY SavedRuns, Assumed DEF StoreOK
<1>2. ASSUME NEW tag, NEW from, NEW until, NEW x
      PROVE  x \in Tagged(tag, RunMinima(OnDashboard, f, from, until)) <=>
               \E r \in Some(from, until) : \E p \in Best(r, f) : x = <<tag, r, p>>
  <2> DEFINE M == RunMinima(OnDashboard, f, from, until)
  <2>1. \A y : y \in M <=> \E r \in Saved : /\ from <= run[r].at /\ run[r].at < until
                                            /\ \E p \in BestOf[Of(r, f)] : y = <<r, p>>
    BY MinimaAreBest, InRunMinima
  <2>2. x \in Tagged(tag, M) <=> \E y \in M : x = <<tag, y[1], y[2]>>
    BY DEF Tagged
  <2> HIDE DEF M
  <2>3. ASSUME NEW y \in M, x = <<tag, y[1], y[2]>>
        PROVE  \E r \in Some(from, until) : \E p \in Best(r, f) : x = <<tag, r, p>>
    <3>1. PICK r \in Saved : /\ from <= run[r].at /\ run[r].at < until
                             /\ \E p \in BestOf[Of(r, f)] : y = <<r, p>>
      BY <2>1
    <3>2. PICK p \in BestOf[Of(r, f)] : y = <<r, p>>
      BY <3>1
    <3> QED  BY <2>3, <3>1, <3>2 DEF Best
  <2>4. ASSUME NEW r \in Some(from, until), NEW p \in Best(r, f), x = <<tag, r, p>>
        PROVE  \E y \in M : x = <<tag, y[1], y[2]>>
    <3>1. <<r, p>> \in M
      BY <2>1 DEF Best
    <3> QED  BY <2>4, <3>1
  <2>5. x \in Tagged(tag, M) <=> \E r \in Some(from, until) : \E p \in Best(r, f) : x = <<tag, r, p>>
    BY <2>2, <2>3, <2>4
  <2> QED  BY <2>5 DEF M
<1>3. CASE ~whole
  <2> DEFINE piece == [r \in Recent |-> "observed"]
  <2>1. Trend(f, now) = Tagged("observed", RunMinima(OnDashboard, f, since, now + 1))
    BY <1>3 DEF Trend
  <2>2. Some(since, now + 1) = Recent
    BY <1>1 DEF Recent
  <2>3. \A r \in Recent : piece[r] = "observed"
    OBVIOUS
  <2> HIDE DEF piece
  <2>4. InPieces(Trend(f, now), f, piece)
    BY <1>2, <2>1, <2>2, <2>3 DEF InPieces
  <2> QED  BY <2>4
<1>4. CASE whole
  <2> DEFINE first == CeilDay(since)
             last == Day(now)
             fullStart == DayLength * first
             fullEnd == DayLength * last
             piece == [r \in Recent |-> IF Day(run[r].at) \in full THEN "days"
                                        ELSE IF run[r].at < fullStart THEN "start" ELSE "end"]
             days == UNION {Aggregate(d, f.direct) : d \in full}
  <2>1. first \in Int /\ last \in Int /\ full = first..(last - 1) /\ first <= last - 1
    BY <1>1, <1>4, CeilDayIs, DayOf DEF FullDays
  <2>2. Min(full) = first /\ Max(full) = last - 1
    <3> HIDE DEF first, last, full
    <3>1. full \in SUBSET Int /\ first \in full /\ last - 1 \in full
      BY <2>1
    <3>2. \A n \in full : first <= n /\ n <= last - 1
      BY <2>1
    <3> QED  BY <3>1, <3>2, MinIs, MaxIs
  <2>3. Trend(f, now) = UNION {Tagged("days", days),
                               Tagged("start", RunMinima(OnDashboard, f, since, fullStart)),
                               Tagged("end", RunMinima(OnDashboard, f, fullEnd, now + 1))}
    <3>1. Max(full) + 1 = last
      BY <2>1, <2>2
    <3> QED  BY <1>4, <2>2, <3>1 DEF Trend
  <2>4. fullStart \in Int /\ fullEnd \in Int /\ since <= fullStart /\ fullStart <= fullEnd
    <3>1. since <= fullStart
      BY <1>1, CeilDayIs
    <3>2. fullStart <= fullEnd
      BY <2>1, Scaled
    <3>3. fullStart \in Int /\ fullEnd \in Int
      BY <2>1, Assumed
    <3> QED  BY <3>1, <3>2, <3>3
  <2>5. ASSUME NEW r \in Saved
        PROVE  Day(run[r].at) \in full <=> fullStart <= run[r].at /\ run[r].at < fullEnd
    <3>1. Day(run[r].at) \in Int
      BY <1>1, DayOf
    <3>2. fullStart <= run[r].at <=> first <= Day(run[r].at)
      BY <1>1, <2>1, DayOf
    <3>3. fullEnd <= run[r].at <=> last <= Day(run[r].at)
      BY <1>1, <2>1, DayOf
    <3> HIDE DEF first, last, fullStart, fullEnd, full
    <3> QED  BY <1>1, <2>1, <2>4, <3>1, <3>2, <3>3
  <2>6. \A x : x \in Tagged("days", days) <=>
          \E r \in Saved : Day(run[r].at) \in full /\ \E p \in Best(r, f) : x = <<"days", r, p>>
    <3>1. ~NeedsScan(f) /\ f.maxPrice = Nothing
      BY <1>4
    <3>2. ASSUME NEW r \in Saved PROVE DailyMinimum[Of(r, f.direct)] = Best(r, f)
      <4>1. <<run[r].answer, directOnly>> \in Searches
        BY SavedRuns DEF StoreOK, Searches
      <4> QED  BY <3>1, <4>1, DailyIsBest DEF Of, Best
    <3> HIDE DEF full
    <3>3. \A y : y \in days <=> \E r \in Saved : /\ Day(run[r].at) \in full
                                                 /\ \E p \in DailyMinimum[Of(r, f.direct)] : y = <<r, p>>
      BY DEF Aggregate
    <3> HIDE DEF days
    <3>4. \A y : y \in days <=> \E r \in Saved : /\ Day(run[r].at) \in full
                                                 /\ \E p \in Best(r, f) : y = <<r, p>>
      BY <3>2, <3>3
    <3>5. \A x : x \in Tagged("days", days) <=> \E y \in days : x = <<"days", y[1], y[2]>>
      BY DEF Tagged
    <3>6. ASSUME NEW x, NEW y \in days, x = <<"days", y[1], y[2]>>
          PROVE  \E r \in Saved : Day(run[r].at) \in full /\ \E p \in Best(r, f) : x = <<"days", r, p>>
      <4>1. PICK r \in Saved : Day(run[r].at) \in full /\ \E p \in Best(r, f) : y = <<r, p>>
        BY <3>4
      <4>2. PICK p \in Best(r, f) : y = <<r, p>>
        BY <4>1
      <4> QED  BY <3>6, <4>1, <4>2
    <3>7. ASSUME NEW r \in Saved, Day(run[r].at) \in full, NEW p \in Best(r, f)
          PROVE  \E y \in days : <<"days", r, p>> = <<"days", y[1], y[2]>>
      <4>1. <<r, p>> \in days
        BY <3>4, <3>7
      <4> QED  BY <4>1
    <3> QED  BY <3>5, <3>6, <3>7
  <2>7. /\ \A x : x \in Tagged("start", RunMinima(OnDashboard, f, since, fullStart)) <=>
                    \E r \in Some(since, fullStart) : \E p \in Best(r, f) : x = <<"start", r, p>>
        /\ \A x : x \in Tagged("end", RunMinima(OnDashboard, f, fullEnd, now + 1)) <=>
                    \E r \in Some(fullEnd, now + 1) : \E p \in Best(r, f) : x = <<"end", r, p>>
    BY <1>2
  <2>8. ASSUME NEW r \in Saved
        PROVE  /\ r \in Recent <=> since <= run[r].at
               /\ Day(run[r].at) \in full => r \in Recent
               /\ r \in Some(since, fullStart) <=> r \in Recent /\ run[r].at < fullStart
               /\ r \in Some(fullEnd, now + 1) <=> r \in Recent /\ ~(run[r].at < fullEnd)
    <3>1. r \in Recent <=> since <= run[r].at
      BY <1>1 DEF Recent
    <3> HIDE DEF full, fullStart, fullEnd, since
    <3> QED  BY <1>1, <2>4, <2>5, <3>1
  <2>9. \A r \in Recent :
          /\ r \in Saved
          /\ Day(run[r].at) \in full => piece[r] = "days"
          /\ run[r].at < fullStart => piece[r] = "start" /\ Day(run[r].at) \notin full
          /\ ~(run[r].at < fullEnd) => piece[r] = "end" /\ Day(run[r].at) \notin full
          /\ Day(run[r].at) \in full \/ run[r].at < fullStart \/ ~(run[r].at < fullEnd)
    <3>1. \A r \in Recent : r \in Saved /\ run[r].at \in Int
      BY <1>1 DEF Recent
    <3>2. \A r \in Recent : piece[r] = IF Day(run[r].at) \in full THEN "days"
                                       ELSE IF run[r].at < fullStart THEN "start" ELSE "end"
      OBVIOUS
    <3> HIDE DEF full, fullStart, fullEnd, since, piece
    <3> QED  BY <2>4, <2>5, <3>1, <3>2
  <2> HIDE DEF full, fullStart, fullEnd, since, piece, days, whole
  <2>10. ASSUME NEW x \in Trend(f, now)
         PROVE  \E r \in Recent : \E p \in Best(r, f) : x = <<piece[r], r, p>>
    <3>1. CASE x \in Tagged("days", days)
      BY <2>6, <2>8, <2>9, <3>1
    <3>2. CASE x \in Tagged("start", RunMinima(OnDashboard, f, since, fullStart))
      <4>1. PICK r \in Some(since, fullStart) : \E p \in Best(r, f) : x = <<"start", r, p>>
        BY <2>7, <3>2
      <4>2. r \in Recent /\ piece[r] = "start"
        BY <2>8, <2>9
      <4> QED  BY <4>1, <4>2
    <3>3. CASE x \in Tagged("end", RunMinima(OnDashboard, f, fullEnd, now + 1))
      <4>1. PICK r \in Some(fullEnd, now + 1) : \E p \in Best(r, f) : x = <<"end", r, p>>
        BY <2>7, <3>3
      <4>2. r \in Recent /\ piece[r] = "end"
        BY <2>8, <2>9
      <4> QED  BY <4>1, <4>2
    <3> QED  BY <2>3, <3>1, <3>2, <3>3
  <2>11. ASSUME NEW r \in Recent, NEW p \in Best(r, f) PROVE <<piece[r], r, p>> \in Trend(f, now)
    <3>1. CASE Day(run[r].at) \in full
      BY <2>3, <2>6, <2>9, <3>1
    <3>2. CASE run[r].at < fullStart
      <4>1. r \in Some(since, fullStart) /\ piece[r] = "start"
        BY <2>8, <2>9, <3>2
      <4> QED  BY <2>3, <2>7, <4>1
    <3>3. CASE ~(run[r].at < fullEnd)
      <4>1. r \in Some(fullEnd, now + 1) /\ piece[r] = "end"
        BY <2>8, <2>9, <3>3
      <4> QED  BY <2>3, <2>7, <4>1
    <3> QED  BY <2>9, <3>1, <3>2, <3>3
  <2>12. InPieces(Trend(f, now), f, piece)
    BY <2>10, <2>11 DEF InPieces
  <2> QED  BY <2>12
<1> QED  BY <1>3, <1>4

LEMMA TrendIsFinite ==
  ASSUME StoreOK, NEW f \in Filters, NEW trend, NEW piece, InPieces(trend, f, piece)
  PROVE  IsFiniteSet(trend)
<1> DEFINE part == [r \in Recent |-> {<<piece[r], r, p>> : p \in Best(r, f)}]
<1>1. \A r \in Recent : r \in Saved
  BY DEF Recent
<1>2. IsFiniteSet(Recent)
  BY <1>1, SavedIsFinite, FS_Subset
<1>3. \A r \in Recent : IsFiniteSet(part[r])
  <2> TAKE r \in Recent
  <2> DEFINE g == [p \in Best(r, f) |-> <<piece[r], r, p>>]
  <2>1. IsFiniteSet(Best(r, f))
    BY <1>1, BestIsOne
  <2>2. part[r] = {g[p] : p \in Best(r, f)}
    OBVIOUS
  <2> HIDE DEF g, part
  <2>3. IsFiniteSet({g[p] : p \in Best(r, f)})
    BY <2>1, FiniteImage
  <2> QED  BY <2>2, <2>3
<1>4. trend = UNION {part[r] : r \in Recent}
  BY DEF InPieces
<1> HIDE DEF part
<1> QED  BY <1>2, <1>3, <1>4, FiniteUnion

\* The samples of a filter, each of them once.
LEMMA EveryRunOnce ==
  ASSUME StoreOK, NEW f \in Filters, NEW trend, NEW piece, InPieces(trend, f, piece),
         NEW mine, \A x : x \in mine <=> \E r \in Recent : \E p \in Best(r, f) : x = <<f, r, p>>
  PROVE  {<<f, x[2], x[3]>> : x \in trend} = mine /\ Cardinality(trend) = Cardinality(mine)
<1> DEFINE h == [x \in trend |-> <<f, x[2], x[3]>>]
<1>1. \A x \in trend : \E r \in Recent : \E p \in Best(r, f) : x = <<piece[r], r, p>>
  BY DEF InPieces
<1>2. \A r \in Recent : \A p \in Best(r, f) : <<piece[r], r, p>> \in trend
  BY DEF InPieces
<1>3. ASSUME NEW x \in trend
      PROVE  h[x] \in mine /\ h[x] = <<f, x[2], x[3]>> /\ x = <<piece[x[2]], x[2], x[3]>>
  <2>1. PICK r \in Recent : \E p \in Best(r, f) : x = <<piece[r], r, p>>
    BY <1>1
  <2>2. PICK p \in Best(r, f) : x = <<piece[r], r, p>>
    BY <2>1
  <2>3. h[x] = <<f, r, p>> /\ x[2] = r /\ x[3] = p
    BY <2>2
  <2> QED  BY <2>2, <2>3
<1>4. ASSUME NEW y \in mine PROVE \E x \in trend : h[x] = y
  <2>1. PICK r \in Recent : \E p \in Best(r, f) : y = <<f, r, p>>
    OBVIOUS
  <2>2. PICK p \in Best(r, f) : y = <<f, r, p>>
    BY <2>1
  <2>3. <<piece[r], r, p>> \in trend
    BY <1>2
  <2>4. h[<<piece[r], r, p>>] = y
    BY <2>2, <2>3
  <2> QED  BY <2>3, <2>4
<1>5. ASSUME NEW x \in trend, NEW y \in trend, h[x] = h[y] PROVE x = y
  <2>1. x[2] = y[2] /\ x[3] = y[3]
    BY <1>3, <1>5
  <2>2. x = <<piece[x[2]], x[2], x[3]>> /\ y = <<piece[y[2]], y[2], y[3]>>
    BY <1>3
  <2> QED  BY <2>1, <2>2
<1>6. h \in [trend -> mine]
  BY <1>3
<1>7. {<<f, x[2], x[3]>> : x \in trend} = mine
  <2>1. \A x \in trend : <<f, x[2], x[3]>> \in mine
    BY <1>3
  <2>2. \A y \in mine : \E x \in trend : y = <<f, x[2], x[3]>>
    BY <1>3, <1>4
  <2> QED  BY <2>1, <2>2
<1> HIDE DEF h
<1>8. h \in Bijection(trend, mine)
  BY <1>4, <1>5, <1>6 DEF Bijection, Injection, Surjection, IsInjective
<1>9. IsFiniteSet(trend)
  BY TrendIsFinite
<1>10. Cardinality(trend) = Cardinality(mine)
  BY <1>8, <1>9, FS_Bijection DEF ExistsBijection
<1> QED  BY <1>7, <1>10

Samples == UNION {{<<f, r, p>> : p \in Best(r, f)} : f \in Asked, r \in Recent}

LEMMA InSamples ==
  ASSUME NEW x
  PROVE  x \in Samples <=> \E f \in Asked : \E r \in Recent : \E p \in Best(r, f) : x = <<f, r, p>>
<1> DEFINE Sample(f, r) == {<<f, r, p>> : p \in Best(r, f)}
           parts == {Sample(f, r) : f \in Asked, r \in Recent}
<1>1. Samples = UNION parts
  BY DEF Samples
<1>2. \A f, r : x \in Sample(f, r) <=> \E p \in Best(r, f) : x = <<f, r, p>>
  OBVIOUS
<1> HIDE DEF Sample
<1>3. \A S : S \in parts <=> \E f \in Asked, r \in Recent : S = Sample(f, r)
  OBVIOUS
<1> HIDE DEF parts
<1> QED  BY <1>1, <1>2, <1>3

\* The points of the dashboard have every sample once.
LEMMA PointsAreRows ==
  ASSUME StoreOK
  PROVE  Points(Asked, now) = [day \in {Day(run[x[2]].at) : x \in Samples} |->
                                 Row({x \in Samples : Day(run[x[2]].at) = day})]
<1> DEFINE pieces == [f \in Asked |-> CHOOSE piece : InPieces(Trend(f, now), f, piece)]
           tagged == [f \in Asked |->
                        {<<f, x[1], Day(run[x[2]].at), x[2], x[3]>> : x \in Trend(f, now)}]
           T == UNION {tagged[f] : f \in Asked}
           On(day) == {x \in Samples : Day(run[x[2]].at) = day}
           Of3(day) == {x \in T : x[3] = day}
<1>1. Asked \subseteq Filters /\ IsFiniteSet(Asked)
  BY Assumed, FS_Subset DEF Asked
<1>2. \A f \in Asked : InPieces(Trend(f, now), f, pieces[f])
  BY <1>1, Pieces
<1> HIDE DEF pieces
<1>3. IsFiniteSet(T)
  <2>1. ASSUME NEW f \in Asked PROVE IsFiniteSet(tagged[f])
    <3> DEFINE trend == Trend(f, now)
               g == [x \in trend |-> <<f, x[1], Day(run[x[2]].at), x[2], x[3]>>]
    <3>1. IsFiniteSet(trend)
      BY <1>1, <1>2, TrendIsFinite
    <3>2. tagged[f] = {g[x] : x \in trend}
      OBVIOUS
    <3> HIDE DEF g, trend, tagged
    <3>3. IsFiniteSet({g[x] : x \in trend})
      BY <3>1, FiniteImage
    <3> QED  BY <3>2, <3>3
  <2> HIDE DEF tagged
  <2> QED  BY <1>1, <2>1, FiniteUnion
<1>4. ASSUME NEW t \in T
      PROVE  \E f \in Asked : \E r \in Recent : \E p \in Best(r, f) :
               t = <<f, pieces[f][r], Day(run[r].at), r, p>>
  <2>1. PICK f \in Asked : t \in tagged[f]
    OBVIOUS
  <2>2. PICK x \in Trend(f, now) : t = <<f, x[1], Day(run[x[2]].at), x[2], x[3]>>
    BY <2>1
  <2>3. PICK r \in Recent : \E p \in Best(r, f) : x = <<pieces[f][r], r, p>>
    BY <1>2 DEF InPieces
  <2>4. PICK p \in Best(r, f) : x = <<pieces[f][r], r, p>>
    BY <2>3
  <2> QED  BY <2>2, <2>4
<1>5. ASSUME NEW f \in Asked, NEW r \in Recent, NEW p \in Best(r, f)
      PROVE  <<f, pieces[f][r], Day(run[r].at), r, p>> \in T
  <2> DEFINE x == <<pieces[f][r], r, p>>
  <2>1. x \in Trend(f, now)
    BY <1>2 DEF InPieces
  <2>2. <<f, x[1], Day(run[x[2]].at), x[2], x[3]>> \in tagged[f]
    BY <2>1
  <2>3. <<f, x[1], Day(run[x[2]].at), x[2], x[3]>> = <<f, pieces[f][r], Day(run[r].at), r, p>>
    OBVIOUS
  <2> HIDE DEF x, tagged
  <2> QED  BY <2>2, <2>3
<1>6. Points(Asked, now) = PointsOf(RowsOf(T))
  BY DEF Points
<1> HIDE DEF T, tagged
<1>7. ASSUME NEW t \in T
      PROVE  /\ t[1] \in Asked /\ t[4] \in Recent /\ t[5] \in Best(t[4], t[1]) /\ t[3] = Day(run[t[4]].at)
             /\ t = <<t[1], pieces[t[1]][t[4]], t[3], t[4], t[5]>>
             /\ Price(t) = t[5] /\ t[5] \in Nat /\ <<t[1], t[4], t[5]>> \in Samples
  <2>1. PICK f \in Asked, r \in Recent : \E p \in Best(r, f) :
               t = <<f, pieces[f][r], Day(run[r].at), r, p>>
    BY <1>4
  <2>2. PICK p \in Best(r, f) : t = <<f, pieces[f][r], Day(run[r].at), r, p>>
    BY <2>1
  <2>3. r \in Saved /\ f \in Filters
    BY <1>1 DEF Recent
  <2>4. p \in Nat
    BY <2>3, BestIsOne
  <2>5. t[1] = f /\ t[3] = Day(run[r].at) /\ t[4] = r /\ t[5] = p
    BY <2>2
  <2>6. Price(t) = p
    BY <2>2 DEF Price
  <2>7. <<f, r, p>> \in Samples
    BY InSamples
  <2> QED  BY <2>2, <2>4, <2>5, <2>6, <2>7
<1>8. ASSUME NEW x \in Samples
      PROVE  /\ x = <<x[1], x[2], x[3]>> /\ Price(x) = x[3]
             /\ <<x[1], pieces[x[1]][x[2]], Day(run[x[2]].at), x[2], x[3]>> \in T
  <2>1. PICK f \in Asked, r \in Recent : \E p \in Best(r, f) : x = <<f, r, p>>
    BY InSamples
  <2>2. PICK p \in Best(r, f) : x = <<f, r, p>>
    BY <2>1
  <2>3. <<f, pieces[f][r], Day(run[r].at), r, p>> \in T
    BY <1>5
  <2>4. Price(x) = p
    BY <2>2 DEF Price
  <2> QED  BY <2>2, <2>3, <2>4
<1>9. {key[3] : key \in DOMAIN RowsOf(T)} = {Day(run[x[2]].at) : x \in Samples}
  <2>1. DOMAIN RowsOf(T) = {KeyOf(t) : t \in T}
    BY DEF RowsOf, KeyOf
  <2>2. {key[3] : key \in DOMAIN RowsOf(T)} = {t[3] : t \in T}
    <3>1. \A t \in T : KeyOf(t)[3] = t[3]
      BY DEF KeyOf
    <3> QED  BY <2>1, <3>1
  <2>3. \A t \in T : \E x \in Samples : t[3] = Day(run[x[2]].at)
    <3> TAKE t \in T
    <3>1. <<t[1], t[4], t[5]>> \in Samples /\ t[3] = Day(run[t[4]].at)
      BY <1>7
    <3> QED  BY <3>1
  <2>4. \A x \in Samples : \E t \in T : t[3] = Day(run[x[2]].at)
    <3> TAKE x \in Samples
    <3>1. <<x[1], pieces[x[1]][x[2]], Day(run[x[2]].at), x[2], x[3]>> \in T
      BY <1>8
    <3> QED  BY <3>1
  <2>5. {t[3] : t \in T} = {Day(run[x[2]].at) : x \in Samples}
    BY <2>3, <2>4
  <2> QED  BY <2>2, <2>5
<1>10. ASSUME NEW day \in {Day(run[x[2]].at) : x \in Samples}
       PROVE  Point(RowsOf(T), {key \in DOMAIN RowsOf(T) : key[3] = day}) = Row(On(day))
  <2> DEFINE h == [t \in Of3(day) |-> <<t[1], t[4], t[5]>>]
  <2>1. \E t \in T : t[3] = day
    <3>1. PICK x \in Samples : day = Day(run[x[2]].at)
      OBVIOUS
    <3>2. <<x[1], pieces[x[1]][x[2]], day, x[2], x[3]>> \in T
      BY <1>8, <3>1
    <3> QED  BY <3>2
  <2>2. Point(RowsOf(T), {key \in DOMAIN RowsOf(T) : key[3] = day}) = Row(Of3(day))
    <3>1. \A t \in T : Price(t) \in Nat
      BY <1>7
    <3> QED  BY <1>3, <2>1, <3>1, PointOfRows
  <2>3. ASSUME NEW t \in Of3(day)
        PROVE  /\ h[t] \in On(day) /\ Price(t) \in Nat /\ Price(h[t]) = Price(t)
               /\ h[t] = <<t[1], t[4], t[5]>> /\ t = <<t[1], pieces[t[1]][t[4]], day, t[4], t[5]>>
    <3>1. t \in T /\ t[3] = day
      OBVIOUS
    <3>2. /\ t[3] = Day(run[t[4]].at) /\ <<t[1], t[4], t[5]>> \in Samples
          /\ t = <<t[1], pieces[t[1]][t[4]], t[3], t[4], t[5]>>
          /\ Price(t) = t[5] /\ t[5] \in Nat
      BY <1>7, <3>1
    <3> DEFINE x == <<t[1], t[4], t[5]>>
    <3>3. x = <<t[1], t[4], t[5]>> /\ x[2] = t[4] /\ x[3] = t[5]
      OBVIOUS
    <3> HIDE DEF x
    <3>4. Price(x) = x[3]
      BY <1>8, <3>2, <3>3
    <3>5. x \in On(day) /\ h[t] = x
      BY <3>1, <3>2, <3>3
    <3> QED  BY <3>1, <3>2, <3>3, <3>4, <3>5
  <2>4. ASSUME NEW x \in On(day) PROVE \E t \in Of3(day) : h[t] = x
    <3> DEFINE t == <<x[1], pieces[x[1]][x[2]], day, x[2], x[3]>>
    <3>1. x \in Samples /\ Day(run[x[2]].at) = day
      OBVIOUS
    <3>2. t \in T /\ x = <<x[1], x[2], x[3]>>
      BY <1>8, <3>1
    <3>3. t[3] = day /\ t[1] = x[1] /\ t[4] = x[2] /\ t[5] = x[3]
      OBVIOUS
    <3> HIDE DEF t
    <3>4. t \in Of3(day) /\ h[t] = x
      BY <3>2, <3>3
    <3> QED  BY <3>4
  <2>5. ASSUME NEW t \in Of3(day), NEW u \in Of3(day), h[t] = h[u] PROVE t = u
    <3>1. t[1] = u[1] /\ t[4] = u[4] /\ t[5] = u[5]
      BY <2>3, <2>5
    <3>2. t = <<t[1], pieces[t[1]][t[4]], day, t[4], t[5]>> /\ u = <<u[1], pieces[u[1]][u[4]], day, u[4], u[5]>>
      BY <2>3
    <3> QED  BY <3>1, <3>2
  <2>6. h \in [Of3(day) -> On(day)]
    BY <2>3
  <2>7. IsFiniteSet(Of3(day))
    BY <1>3, FS_Subset
  <2> HIDE DEF h, On, Of3
  <2>8. h \in Bijection(Of3(day), On(day))
    BY <2>4, <2>5, <2>6 DEF Bijection, Injection, Surjection, IsInjective
  <2>9. Row(Of3(day)) = Row(On(day))
    BY <2>3, <2>7, <2>8, RowAlong
  <2> QED  BY <2>2, <2>9
<1> HIDE DEF On
<1>11. PointsOf(RowsOf(T)) = [day \in {Day(run[x[2]].at) : x \in Samples} |-> Row(On(day))]
  BY <1>9, <1>10 DEF PointsOf
<1> QED  BY <1>6, <1>11 DEF On

LEMMA TrendsOfStore == ASSUME StoreOK PROVE TrendsAreExact
<1>1. ASSUME NEW f \in Asked
      PROVE  /\ {<<f, x[2], x[3]>> : x \in Trend(f, now)} = {x \in Samples : x[1] = f}
             /\ Cardinality(Trend(f, now)) = Cardinality({x \in Samples : x[1] = f})
  <2> DEFINE mine == {x \in Samples : x[1] = f}
             trend == Trend(f, now)
  <2>0. f \in Filters
    BY DEF Asked
  <2>1. \A x : x \in mine <=> \E r \in Recent : \E p \in Best(r, f) : x = <<f, r, p>>
    BY InSamples
  <2>2. PICK piece : InPieces(trend, f, piece)
    BY <2>0, Pieces
  <2> HIDE DEF mine, trend
  <2>3. {<<f, x[2], x[3]>> : x \in trend} = mine /\ Cardinality(trend) = Cardinality(mine)
    BY <2>0, <2>1, <2>2, EveryRunOnce
  <2> QED  BY <2>3 DEF mine, trend
<1>2. Points(Asked, now) = [day \in {Day(run[x[2]].at) : x \in Samples} |->
                              Row({x \in Samples : Day(run[x[2]].at) = day})]
  BY PointsAreRows
<1>3. TrendsAreExact <=>
        (reader = Idle =>
          /\ \A f \in Asked :
               /\ {<<f, x[2], x[3]>> : x \in Trend(f, now)} = {x \in Samples : x[1] = f}
               /\ Cardinality(Trend(f, now)) = Cardinality({x \in Samples : x[1] = f})
          /\ Points(Asked, now) = [day \in {Day(run[x[2]].at) : x \in Samples} |->
                                     Row({x \in Samples : Day(run[x[2]].at) = day})])
  BY DEF TrendsAreExact, Samples, Recent
<1> QED  BY <1>1, <1>2, <1>3

\* Whatever a trend is put together from, it has every run of its time once.
THEOREM EveryRunCountsOnce == ReadsSpec => []TrendsAreExact
<1>1. StoreOK => TrendsAreExact
  BY TrendsOfStore
<1>2. StoreOK /\ [ReadsNext]_readsVars => StoreOK'
  BY NextRuns
<1> QED  BY <1>1, <1>2, InitStore, PTL DEF ReadsSpec
=============================================================================
