--------------------------- MODULE FlowGenerator ---------------------------
(***************************************************************************)
(* flow/flow.ts: the generator of an in-memory flow.  Its user pulls with  *)
(* next, one call at a time, passing an action, a state or a signal;       *)
(* aborts the flow or the step; and may end the flow with return or throw  *)
(* also while a handler runs.  A state is the number of handler results    *)
(* and user states taken so far; names of actions are left out.            *)
(***************************************************************************)
EXTENDS Naturals

CONSTANT MaxCalls    \* bound of the calls of next

VARIABLES value,         \* the status and state of the flow
          defaultAction, \* the initial action is still to run
          running, step, \* a call of next awaits its handler; what it was given
          flowAborted,
          calls,
          answer,        \* what the last call of next came to
          outside,       \* history: how return or throw left the flow: "open", "ended"
                         \* or, when a handler was running then, "overtaken"
          started        \* history: statuses and signals under which handlers started

vars == <<value, defaultAction, running, step, flowAborted, calls, answer, outside, started>>

DoneStatuses == {"end", "error", "aborted"}

Statuses == DoneStatuses \cup {"state", "action"}

IsDone(v) == v.status \in DoneStatuses

NoAnswer == [status |-> "state", done |-> FALSE, kept |-> FALSE]

(* What next is given.  A validator may refuse any state, and none need    *)
(* exist.                                                                  *)
Steps == [action : BOOLEAN, state : BOOLEAN, aborted : BOOLEAN]

NoStep == [action |-> FALSE, state |-> FALSE, aborted |-> FALSE]

Init ==
    /\ value = [status |-> "state", state |-> 0]
    /\ defaultAction \in BOOLEAN
    /\ running = FALSE /\ step = NoStep
    /\ flowAborted \in BOOLEAN
    /\ calls = 0 /\ answer = NoAnswer /\ outside = "open" /\ started = {}

-----------------------------------------------------------------------------
Answers(v, done, kept) ==
    /\ value' = v
    /\ answer' = [status |-> v.status, done |-> done, kept |-> kept]

Given(s) == IF s.state THEN calls + 1 ELSE value.state

Calls(s) == ~running /\ calls < MaxCalls /\ calls' = calls + 1 /\ step' = s

(* A call that is answered without running a handler.                      *)
Answered(s, v, done, kept) ==
    /\ Calls(s) /\ Answers(v, done, kept)
    /\ UNCHANGED <<running, flowAborted, outside, started>>

NextEnded(s) == IsDone(value) /\ Answered(s, value, TRUE, FALSE) /\ UNCHANGED defaultAction

NextAborted(s) ==
    /\ ~IsDone(value) /\ s.aborted
    /\ Answered(s, value, FALSE, TRUE) /\ UNCHANGED defaultAction

Open(s) == ~IsDone(value) /\ ~s.aborted

NextInvalid(s) ==
    /\ Open(s)
    /\ Answered(s, [status |-> "error", state |-> Given(s)], TRUE, FALSE)
    /\ UNCHANGED defaultAction

NextFlowAborted(s) ==
    /\ Open(s) /\ flowAborted
    /\ Answered(s, [status |-> "aborted", state |-> Given(s)], TRUE, FALSE)
    /\ UNCHANGED defaultAction

NextState(s) ==
    /\ Open(s) /\ ~flowAborted /\ s.state /\ ~s.action
    /\ Answered(s, [status |-> "state", state |-> Given(s)], FALSE, FALSE)
    /\ UNCHANGED defaultAction

Dispatches(s) == Open(s) /\ ~flowAborted /\ (s.action \/ ~s.state)

(* The step's action, the chained one or the default one.                  *)
HasAction(s) == s.action \/ value.status = "action" \/ defaultAction

NextEnd(s) ==
    /\ Dispatches(s) /\ ~HasAction(s)
    /\ Answered(s, [status |-> "end", state |-> Given(s)], TRUE, FALSE)
    /\ defaultAction' = FALSE

NextMissing(s) ==
    /\ Dispatches(s) /\ HasAction(s)
    /\ Answered(s, [status |-> "error", state |-> Given(s)], TRUE, FALSE)
    /\ defaultAction' = FALSE

NextHandler(s) ==
    /\ Dispatches(s) /\ HasAction(s)
    /\ Calls(s)
    /\ running' = TRUE /\ defaultAction' = FALSE
    /\ started' = started \cup {[ended |-> answer.done, flow |-> flowAborted, outside |-> outside]}
    /\ UNCHANGED <<value, flowAborted, answer, outside>>

-----------------------------------------------------------------------------
Returns(v, done, kept) ==
    /\ running /\ running' = FALSE /\ Answers(v, done, kept)
    /\ outside' = IF outside = "overtaken" /\ ~IsDone(v) THEN "open" ELSE outside
    /\ UNCHANGED <<defaultAction, step, flowAborted, calls, started>>

(* The handler settles, and its step was aborted: the value stays.         *)
HandlerIgnored == step.aborted /\ Returns(value, FALSE, TRUE)

(* The handler throws, or its state does not validate.                     *)
HandlerFails ==
    /\ ~step.aborted
    /\ \E state \in {value.state, calls} : Returns([status |-> "error", state |-> state], TRUE, FALSE)

(* Mutant: the flow's signal is not looked at after the handler.           *)
HandlerReturnsUnseen ==
    /\ ~step.aborted
    /\ \E status \in Statuses :
          Returns([status |-> status, state |-> calls], status \in DoneStatuses, FALSE)

(* It returns a value; the flow may have been aborted meanwhile.           *)
HandlerReturns ==
    /\ ~step.aborted
    /\ \E status \in Statuses :
          LET v == [status |-> IF flowAborted THEN "aborted" ELSE status, state |-> calls]
          IN  Returns(v, IsDone(v), FALSE)

-----------------------------------------------------------------------------
AbortFlow ==
    /\ ~flowAborted /\ flowAborted' = TRUE
    /\ UNCHANGED <<value, defaultAction, running, step, calls, answer, outside, started>>

AbortStep ==
    /\ running /\ ~step.aborted
    /\ step' = [step EXCEPT !.aborted = TRUE]
    /\ UNCHANGED <<value, defaultAction, running, flowAborted, calls, answer, outside, started>>

(* return, with a value of its own or the end, or throw.                   *)
EndOutside ==
    /\ \E status \in DoneStatuses : value' = [value EXCEPT !.status = status]
    /\ outside' = IF running THEN "overtaken" ELSE "ended"
    /\ UNCHANGED <<defaultAction, running, step, flowAborted, calls, answer, started>>

Next ==
    \/ \E s \in Steps :
          \/ NextEnded(s) \/ NextAborted(s) \/ NextInvalid(s) \/ NextFlowAborted(s)
          \/ NextState(s) \/ NextEnd(s) \/ NextMissing(s) \/ NextHandler(s)
    \/ HandlerIgnored \/ HandlerFails \/ HandlerReturns
    \/ AbortFlow \/ AbortStep \/ EndOutside

Spec == Init /\ [][Next]_vars

-----------------------------------------------------------------------------
TypeOK ==
    /\ value \in [status : Statuses, state : 0 .. MaxCalls]
    /\ defaultAction \in BOOLEAN /\ running \in BOOLEAN /\ step \in Steps
    /\ flowAborted \in BOOLEAN /\ calls \in 0 .. MaxCalls
    /\ answer \in [status : Statuses, done : BOOLEAN, kept : BOOLEAN]
    /\ outside \in {"open", "ended", "overtaken"}

(* An answer is done exactly when its value is final, but for a step that  *)
(* was aborted: that is never done, also when return or throw ended the    *)
(* flow under its handler (flow 99-107, 157-186).                          *)
DoneIsFinal ==
    /\ answer.done => answer.status \in DoneStatuses
    /\ ~answer.done /\ answer.status \in DoneStatuses => answer.kept

(* A flow that said it is over stays over, unless return or throw said so  *)
(* while a handler was running: that handler's result takes its place      *)
(* (flow 99-102, 157-162, 191-204).                                        *)
StaysOver ==
    /\ answer.done /\ ~running => IsDone(value)
    /\ outside = "ended" => IsDone(value)
    /\ \A s \in started : ~s.ended /\ ~s.flow /\ s.outside # "ended"

GeneratorRight == TypeOK /\ DoneIsFinal /\ StaysOver

(* A step that is aborted leaves the flow as it was, and no call ends      *)
(* without the flow being over once the flow is aborted (flow 104-107,     *)
(* 119-123, 157-160, 172-184).                                             *)
AbortsHonoured ==
    /\ (step'.aborted /\ running /\ ~running') => value' = value
    /\ (flowAborted /\ answer' # answer /\ ~step'.aborted) => answer'.done
=============================================================================
