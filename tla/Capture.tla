------------------------------- MODULE Capture -------------------------------
(***************************************************************************)
(* One browser run: it opens a page and keeps the JSON answers that the    *)
(* page fetches by itself.                                                 *)
(*                                                                         *)
(* Every matched response takes two ways into the same ResponseCapture:    *)
(* a task that reads the body through Playwright, and a task that fetches  *)
(* it from a buffer of the debugging protocol, because the browser evicts  *)
(* large bodies.  The runner waits for the expected captures, or for a     *)
(* definite failure of one that is missing, lets the page settle, waits a  *)
(* while for the second way, and closes everything.  It can be cancelled   *)
(* at any await, when the slot of the rate gate is lost.                   *)
(*                                                                         *)
(* The waits for the page have limits.  Those for the browser to open and  *)
(* to close have none, so a run may hang there.                            *)
(*                                                                         *)
(* All steps between two awaits are one action: there is one event loop.   *)
(* A rule is its capture name, a payload is how rich it is, and the names  *)
(* expected are names of rules, as in tasks/collection.py.                 *)
(***************************************************************************)
EXTENDS Naturals, FiniteSets

CONSTANTS Names,       \* of the capture rules
          Expected,    \* expected_capture_names
          Responses,   \* bound: the matched responses of a run, in order
          MaxRichness, \* bound: _payload_richness
          Page,        \* in the place of a name: the failure is of the whole page
          Unreadable   \* in the place of a body: it could not be read as JSON

ASSUME CaptureAssumption ==
  /\ IsFiniteSet(Responses) /\ Responses = 1..Cardinality(Responses)
  /\ Expected \subseteq Names /\ Expected # {} /\ Page \notin Names /\ Unreadable \notin Nat
  /\ MaxRichness \in Nat \ {0}

VARIABLES pc,        \* of PlaywrightCaptureRunner.run
          response,  \* each response, and where its two tasks are
          captures,  \* the richness of what is kept for a name, or 0
          found,     \* the names that diagnostics of the capture are about
          raised,    \* the names, or Page, that diagnostics of the runner are about
          changed,   \* _state_changed
          debugging, \* the session of the debugging protocol was opened
          awaited,   \* the tasks that a drain waits for
          cancelled, result

kept == <<captures, found, changed>>
runner == <<pc, raised, debugging, awaited, cancelled, result>>
vars == <<runner, response, kept>>

Shapeless == 0                         \* a payload without the keys its rule requires
Body == 0..MaxRichness
Unsent == [name |-> Page, ok |-> TRUE, body |-> Shapeless, main |-> "none", debug |-> "none"]
NoResult == [captured |-> {}, about |-> {}]

Init ==
  /\ pc = "start" /\ response = [r \in Responses |-> Unsent]
  /\ captures = [n \in Names |-> 0] /\ found = {} /\ raised = {} /\ changed = FALSE
  /\ debugging = FALSE /\ awaited = {} /\ cancelled = FALSE /\ result = NoResult

Captured == {n \in Names : captures[n] > 0}
Missing == Expected \ Captured

\* Every kind that handle() records is terminal.
TerminalFailure(n) == n \in found
Terminal == Missing = {} \/ \E n \in Missing : TerminalFailure(n)

----------------------------------------------------------------------------
(* The page and the two ways of a response.                                *)

PageIsOpen == pc \in {"goto", "check", "waiting", "settling", "draining", "shooting",
                      "closing", "detaching"}

Responds(r) ==
  /\ PageIsOpen /\ response[r] = Unsent /\ \A q \in 1..(r - 1) : response[q] # Unsent
  /\ \E n \in Names, ok \in BOOLEAN, b \in Body :   \* ok: a status of 200 to 299
       /\ ~ok => b = Shapeless
       /\ response' = [response EXCEPT ![r] =
            [name |-> n, ok |-> ok, body |-> b, main |-> "task",
             debug |-> IF debugging THEN "seen" ELSE "none"]]
  /\ UNCHANGED <<runner, kept>>

\* loadingFinished and loadingFailed of the debugging protocol.
Loads(r) ==
  /\ PageIsOpen /\ response[r].debug = "seen"
  /\ \E to \in {"task", "ended"} : response' = [response EXCEPT ![r].debug = to]
  /\ UNCHANGED <<runner, kept>>

LatestAlways(n, b) == [captures EXCEPT ![n] = b]

Richer(n, b) == [captures EXCEPT ![n] = IF b >= @ THEN b ELSE @]

RecordsFailuresQuietly(r, b) ==
  LET n == response[r].name IN
  IF response[r].ok /\ b \notin {Unreadable, Shapeless}
  THEN captures' = Richer(n, b) /\ changed' = TRUE /\ UNCHANGED found
  ELSE found' = found \cup {n} /\ UNCHANGED <<captures, changed>>

\* What ResponseCapture.handle records of a response whose body was read as b: a
\* payload, or a diagnostic of its status, its encoding or its keys.
Records(r, b) ==
  LET n == response[r].name IN
  /\ changed' = TRUE
  /\ IF response[r].ok /\ b \notin {Unreadable, Shapeless}
     THEN captures' = Richer(n, b) /\ UNCHANGED found
     ELSE found' = found \cup {n} /\ UNCHANGED captures

\* A body may be gone by the time it is read, and is when the page is closed.  The
\* body of a failure is not read.
Readable(x) ==
  IF ~x.ok THEN {x.body}
  ELSE {Unreadable} \cup {b \in {x.body} : PageIsOpen}

\* The task of observe_response.
HandlesResponse(r) ==
  /\ response[r].main = "task"
  /\ \E b \in Readable(response[r]) :
       /\ Records(r, b)
       /\ response' = [response EXCEPT ![r].main = IF b = response[r].body THEN "read" ELSE "ended"]
  /\ UNCHANGED runner

TaskFails(r) ==
  /\ response[r].main = "task"
  /\ raised' = raised \cup {Page}
  /\ response' = [response EXCEPT ![r].main = "ended"]
  /\ UNCHANGED <<pc, debugging, awaited, cancelled, result, kept>>

\* _capture_response_body: a body that cannot be had is not reported.
FetchesBody(r) ==
  /\ response[r].debug = "task"
  /\ \/ Records(r, response[r].body) /\ response' = [response EXCEPT ![r].debug = "read"]
     \/ UNCHANGED kept /\ response' = [response EXCEPT ![r].debug = "ended"]
  /\ UNCHANGED runner

----------------------------------------------------------------------------
(* The runner.                                                             *)

Raises(issues) == raised' = raised \cup issues
Goes(to) == pc' = to /\ UNCHANGED <<debugging, cancelled, result>>

\* No display, no Playwright, no browser; or no context or page of the browser, which
\* then has to close.
CannotStart ==
  /\ pc = "start"
  /\ Goes("ending") \/ Goes("quitting")
  /\ Raises({Page}) /\ UNCHANGED <<awaited, response, kept>>

Opens ==
  /\ pc = "start" /\ pc' = "goto" /\ debugging' \in BOOLEAN
  /\ UNCHANGED <<raised, awaited, cancelled, result, response, kept>>

\* A drain waits for the tasks there are when it starts.
Tasks == {r \in Responses : response[r].debug = "task"}
StartsDrain(to) == Goes(to) /\ awaited' = Tasks

Navigates ==
  /\ pc = "goto"
  /\ \/ Goes("check") /\ UNCHANGED <<raised, awaited>>
     \/ Raises({Page}) /\ StartsDrain("draining")   \* 432, timed out, failed
  /\ UNCHANGED <<response, kept>>

FindsTerminal ==
  /\ pc = "check" /\ Terminal
  /\ Goes("settling") /\ UNCHANGED <<raised, awaited, response, kept>>

WaitsAgain ==
  /\ pc = "check" /\ ~Terminal
  /\ pc' = "waiting" /\ changed' = FALSE
  /\ UNCHANGED <<captures, found, raised, debugging, awaited, cancelled, result, response>>

Wakes ==
  /\ pc = "waiting" /\ changed
  /\ Goes("check") /\ UNCHANGED <<raised, awaited, response, kept>>

UnexplainedIfNothing == IF Captured = {} THEN {n \in Missing : ~TerminalFailure(n)} ELSE {}

\* _append_missing_capture_diagnostics
Unexplained == {n \in Missing : ~TerminalFailure(n)}

TimeIsUp ==
  /\ \/ pc = "waiting"
     \/ pc = "check" /\ ~Terminal
  /\ Raises(Unexplained)
  /\ StartsDrain("draining") /\ UNCHANGED <<response, kept>>

Settles ==
  /\ pc = "settling"
  /\ StartsDrain("draining") /\ UNCHANGED <<raised, response, kept>>

\* The failures of names have no say: a name is missing or not.
Success == Missing = {} /\ Page \notin raised

\* A drain ends when the tasks have ended, or after a while, and cancels the rest.
Drained == awaited \cap Tasks
DrainEndsWhenAllEnded(from) ==
  /\ pc = from /\ Drained = {}
  /\ UNCHANGED response

DrainEnds(from) ==
  /\ pc = from
  /\ response' = [r \in Responses |->
       IF r \in Drained THEN [response[r] EXCEPT !.debug = "ended"] ELSE response[r]]

LeavesDrain ==
  /\ DrainEnds("draining")
  /\ \/ Goes("closing") /\ awaited' = Tasks \ Drained
     \/ ~Success /\ Goes("shooting") /\ awaited' = {}   \* screenshots are on
  /\ UNCHANGED <<raised, kept>>

Shoots ==
  /\ pc = "shooting"
  /\ StartsDrain("closing") /\ UNCHANGED <<raised, response, kept>>

LeavesSecondDrain ==
  /\ DrainEnds("closing")
  /\ Goes("detaching") /\ awaited' = {} /\ UNCHANGED <<raised, kept>>

\* The session and the context, and then the browser; any exception is caught outside.
\* It may take the place of a cancellation, but then the gate raises its own error.
Closes ==
  /\ pc = "detaching"
  /\ Raises({}) \/ Raises({Page})
  /\ Goes("quitting") /\ UNCHANGED <<awaited, response, kept>>

Quits ==
  /\ pc = "quitting"
  /\ Raises({}) \/ Raises({Page})
  /\ Goes("ending") /\ UNCHANGED <<awaited, response, kept>>

Ends ==
  /\ pc = "ending" /\ pc' = "done"
  /\ response' = [r \in Responses |->
       IF response[r].main = "task" THEN [response[r] EXCEPT !.main = "cancelled"] ELSE response[r]]
  /\ result' = IF cancelled THEN NoResult
               ELSE [captured |-> Captured, about |-> found \cup raised]
  /\ UNCHANGED <<raised, debugging, awaited, cancelled, kept>>

\* The task that owns the slot is cancelled at an await of the run: what is left is
\* the clean-up, or the rest of it.
IsCancelled ==
  /\ ~cancelled /\ pc \notin {"ending", "done", "check"}
  /\ cancelled' = TRUE
  /\ IF pc \in {"start", "closing", "detaching", "quitting"}
     THEN pc' = "quitting" /\ awaited' = {}
     ELSE pc' = "closing" /\ awaited' = Tasks
  /\ UNCHANGED <<raised, debugging, result, response, kept>>

\* Steps that come about by a limit of the code or of Playwright, if by nothing else.
InTime ==
  \/ Navigates \/ FindsTerminal \/ WaitsAgain \/ Wakes \/ TimeIsUp
  \/ Settles \/ LeavesDrain \/ Shoots \/ LeavesSecondDrain \/ Ends

\* Steps that wait for the browser as long as it takes.
OfTheBrowser == CannotStart \/ Opens \/ Closes \/ Quits

Running == InTime \/ OfTheBrowser

Next ==
  \/ \E r \in Responses :
       Responds(r) \/ Loads(r) \/ HandlesResponse(r) \/ TaskFails(r) \/ FetchesBody(r)
  \/ Running \/ IsCancelled

Spec == Init /\ [][Next]_vars

----------------------------------------------------------------------------
(* Properties.                                                             *)

\* A runner that waits although it need not has been woken: no answer that arrives
\* between its look and its wait leaves it waiting for the deadline.
NoLostWakeup == pc = "waiting" /\ Terminal => changed

\* What is kept for a name is the richest payload that either way has delivered, in
\* whatever order and however often they arrive; an envelope without content never
\* replaces an answer.
RichestIsKept ==
  \A n \in Names :
    LET delivered == {response[r].body : r \in
          {s \in Responses : /\ response[s].name = n /\ response[s].ok
                             /\ "read" \in {response[s].main, response[s].debug}}}
                     \ {Shapeless} IN
    IF delivered = {} THEN captures[n] = 0
    ELSE captures[n] \in delivered /\ \A b \in delivered : b <= captures[n]

\* A run that returns without all it was to capture says why: the page failed, or a
\* diagnostic names a capture that is missing.  The one exception: the wait was
\* ended by a failure of one way to read a capture that the other way delivered
\* afterwards, while another capture was still on its way.
Returned == pc = "done" /\ ~cancelled
GapsAreExplained ==
  LET missing == Expected \ result.captured IN
  Returned /\ missing # {} =>
    \/ result.about \cap (missing \cup {Page}) # {}
    \/ result.about \cap Expected \cap result.captured # {}

\* Only the steps that have a limit are sure to come.
Fairness == WF_vars(InTime)
FairSpec == Spec /\ Fairness

\* The run ends and leaves no task behind, though no response, body or task ever ends
\* by itself.  The one exception: the browser never answers when it is to open, or when
\* the session, the context or the browser is to close.  Nothing ends such a run.
Hangs == pc \in {"start", "detaching", "quitting"}
RunEndsOrBrowserHangs ==
  <>(pc = "done" /\ \A r \in Responses : response[r].main # "task") \/ <>[]Hangs
=============================================================================
