---------------------------- MODULE FlowCommit ----------------------------
(***************************************************************************)
(* The transitions of a run state document.                                *)
(*                                                                         *)
(* Every operator takes the runner's state and returns the next document   *)
(* it commits: the result of a node, a failure, a retry, an abort.  t is   *)
(* the instant of the transition and d[i] the delay getRetryDelay draws    *)
(* for the node of frame i.                                                *)
(***************************************************************************)
EXTENDS FlowTypes

IsReference(def) == def.kind \in {"call", "goto"} \/ (def.kind = "loop" /\ def.flow # None)

ReferenceCodes == {"missing_flow", "invalid_flow", "max_depth", "invalid_input"}

(* Failures of the run itself: no retry and no onError of the node.        *)
(* "invalid_value" stands for invalid_target too.                          *)
RunCodes == {"invalid_value", "invalid_suspend", "loop_exhausted"}

(* Nothing in flight, nothing pending. *)
Idle(r, status) == [r EXCEPT !.status = status, !.inFlight = None, !.pending = None]

(* The step and the invocation id an entry of a node draws. *)
Entered(r) == [r EXCEPT !.steps = @ + 1, !.invocation = @ + 1]

(* The attempt of the active node without its scheduled time. *)
Unscheduled(r) ==
    LET fr == Top(r) IN
    IF Own(fr, fr.node) = None THEN r
    ELSE SetTop(r, [fr EXCEPT !.attempts[fr.node].retryAt = None])

(* Mutant: a running run is left running. *)
AbortUnset(r) ==
    Unscheduled(Idle(r, IF r.status = "running" THEN "running" ELSE "aborted"))

(* Mutant: the scheduled retry stays. *)
AbortScheduled(r) == Idle(r, "aborted")

(* FlowRunner.abort. *)
Abort(r) == Unscheduled(Idle(r, "aborted"))

-----------------------------------------------------------------------------
(* Failures. *)

(* The frames above i are gone. *)
UnwindTo(r, i) == Idle([r EXCEPT !.frames = SubSeq(@, 1, i)], r.status)

ScheduleRetry(r, t, delay) ==
    LET fr == Top(r)
        at == Later(t, delay)
        after == DefOf(fr).policy.suspendAfter
        next == SetTop(r, [fr EXCEPT !.attempts[fr.node].retryAt = at])
    IN  IF after # None /\ delay > after
        THEN [Idle(next, "suspended") EXCEPT !.pending =
                [node |-> fr.node, reason |-> "retry", deadline |-> None, resumeAt |-> at]]
        ELSE Idle(next, "running")

RouteToOnError(r, target) ==
    LET fr == Top(r) IN
    Idle(SetTop(r, [fr EXCEPT !.node = target, !.attempts[fr.node] = None]), "running")

(* Mutant: the caller's attempts are not counted. *)
CallerRetriesUncounted(r, i, code, reason, t, delay) ==
    LET cont == r.frames[i + 1].cont
        a == Own(r.frames[i], cont.caller)
    IN  /\ code = "node_failed" /\ reason # "non_retryable"
        /\ cont.kind = "call" /\ a # None
        /\ ~Expired(a.deadline, t, delay)

(* Whether the caller in frame i re-runs its call when the frame above it  *)
(* fails with (code, reason): attempts are left and the next one starts    *)
(* before the deadline.                                                    *)
CallerRetries(r, i, code, reason, t, delay) ==
    LET cont == r.frames[i + 1].cont
        a == Own(r.frames[i], cont.caller)
    IN  /\ code = "node_failed" /\ reason # "non_retryable"
        /\ cont.kind = "call" /\ a # None
        /\ a.count < DefOf(r.frames[i]).policy.maxAttempts
        /\ ~Expired(a.deadline, t, delay)

(* The caller frames that take a failure of the top frame. *)
Handlers(r, code, reason, t, d) ==
    {i \in 1..(Depth(r) - 1) :
        /\ code \in WalkCodes
        /\ \/ CallerRetries(r, i, code, reason, t, d[i])
           \/ r.frames[i + 1].cont.onError # None}

(* No caller takes the failure: the run stops with its stack intact. *)
StopRun(r, code) ==
    LET idle == Unscheduled(Idle(r, "error"))
        fr == Top(idle)
    IN  [(IF code = "loop_exhausted" THEN SetTop(idle, [fr EXCEPT !.loops[fr.node] = 0])
                                     ELSE idle) EXCEPT !.error = code]

(* failRun: the nearest handling caller takes the failure. *)
FailRun(r, code, reason, t, d) ==
    LET handlers == Handlers(r, code, reason, t, d)
        i == CHOOSE h \in handlers : \A o \in handlers : o <= h
    IN  IF handlers = {} THEN StopRun(r, code)
        ELSE IF CallerRetries(r, i, code, reason, t, d[i])
             THEN ScheduleRetry(UnwindTo(r, i), t, d[i])
             ELSE RouteToOnError(UnwindTo(r, i), r.frames[i + 1].cont.onError)

(* Mutant: routes without looking whether the node has an onError. *)
FailNodeBlind(r, reason, t, d) == RouteToOnError(r, DefOf(Top(r)).onError)

(* failNode: the node's own onError comes before any caller. *)
FailNode(r, reason, t, d) ==
    LET def == DefOf(Top(r)) IN
    IF def.onError # None THEN RouteToOnError(r, def.onError)
    ELSE FailRun(r, "node_failed", reason, t, d)

(* failReference: a referenced flow could not be run; never retried. *)
FailReference(r, code, t, d) ==
    LET def == DefOf(Top(r)) IN
    IF def.onError # None THEN RouteToOnError(r, def.onError)
    ELSE FailRun(r, code, "non_retryable", t, d)

(* Mutant: the deadline is compared with now, not with the retry's time. *)
StopReasonLate(a, policy, retryable, t, delay) ==
    IF Expired(a.deadline, t, 0) THEN "total_timeout"
    ELSE IF ~retryable THEN "non_retryable"
    ELSE IF a.count >= policy.maxAttempts THEN "attempts"
    ELSE None

(* classifyRetry: why there is no further attempt, None when there is one. *)
StopReason(a, policy, retryable, t, delay) ==
    IF Expired(a.deadline, t, 0) THEN "total_timeout"
    ELSE IF ~retryable THEN "non_retryable"
    ELSE IF a.count >= policy.maxAttempts THEN "attempts"
    ELSE IF Expired(a.deadline, t, delay) THEN "total_timeout"
    ELSE None

(* What a node can throw: a code of the run, a code of a reference, or an  *)
(* error its kind retries ("retryable") or does not ("plain").             *)
Errors == RunCodes \cup ReferenceCodes \cup {"retryable", "plain"}

(* handleNodeError.  A node whose attempts are not checkpointed draws its  *)
(* step and id here, unless it was entered before it suspended.            *)
HandleNodeError(r0, resumed, err, t, d) ==
    LET def == DefOf(Top(r0))
        r == IF def.kind \in RetryKinds \/ resumed THEN r0 ELSE Entered(r0)
        a == Own(Top(r), Top(r).node)
        delay == d[Depth(r)]
        reason == StopReason(a, def.policy, err = "retryable", t, delay)
    IN  IF err \in RunCodes THEN FailRun(r, err, None, t, d)
        ELSE IF err \in ReferenceCodes /\ IsReference(def) THEN FailReference(r, err, t, d)
        ELSE IF a = None THEN FailNode(r, "non_retryable", t, d)
        ELSE IF reason # None THEN FailNode([r EXCEPT !.inFlight = None], reason, t, d)
        ELSE ScheduleRetry(r, t, delay)

-----------------------------------------------------------------------------
(* Results: applyResult, with loops the node's staged loop counters. *)

Applied(r, resumed, loops) ==
    LET fr == Top(r)
        entered == IF DefOf(fr).kind \in RetryKinds \/ resumed THEN r ELSE Entered(r)
    IN  Idle(SetTop(entered, [fr EXCEPT !.loops = loops]), "running")

Move(r, n) ==
    LET fr == Top(r) IN SetTop(r, [fr EXCEPT !.node = n, !.attempts[fr.node] = None])

(* The caller keeps the attempt of its call node, for retries. *)
Push(r, f, cont) == [r EXCEPT !.frames = Append(@, NewFrame(f, cont))]

(* goto: a fresh frame that keeps the continuation of the replaced one. *)
Replace(r, f) == SetTop(r, NewFrame(f, Top(r).cont))

(* popFrame: the callee's end and the pop are one commit. *)
Pop(r) ==
    LET cont == Top(r).cont
        below == [r EXCEPT !.frames = SubSeq(@, 1, Depth(r) - 1)]
        fr == Top(below)
    IN  SetTop(below, [fr EXCEPT !.node = cont.returnTo, !.attempts[cont.caller] = None])

End(r) == IF Depth(r) > 1 THEN Pop(r) ELSE [r EXCEPT !.status = "ended"]

Suspend(r, deadline) ==
    [r EXCEPT !.status = "suspended",
              !.pending = [node |-> Top(r).node, reason |-> "suspend",
                           deadline |-> deadline, resumeAt |-> None]]

-----------------------------------------------------------------------------
(* Checkpoints of a node whose attempts are durable. *)

(* Mutant: the attempts use the previous entry's id. *)
EnterStaleId(r, t) ==
    LET fr == Top(r)
        total == DefOf(fr).policy.total
        a == [inv |-> r.invocation, count |-> 0, interruptions |-> 0,
              deadline |-> IF total = None THEN None ELSE Later(t, total), retryAt |-> None]
    IN  Entered(SetTop(r, [fr EXCEPT !.attempts[fr.node] = a]))

(* The entry: an invocation id for all attempts, and their deadline. *)
Enter(r, t) ==
    LET fr == Top(r)
        total == DefOf(fr).policy.total
        a == [inv |-> r.invocation + 1, count |-> 0, interruptions |-> 0,
              deadline |-> IF total = None THEN None ELSE Later(t, total), retryAt |-> None]
    IN  Entered(SetTop(r, [fr EXCEPT !.attempts[fr.node] = a]))

(* Mutant: the interruption is not counted. *)
InterruptUncounted(r) == r

(* The attempt in flight was cut short: it will be run again. *)
Interrupt(r) ==
    LET fr == Top(r) IN SetTop(r, [fr EXCEPT !.attempts[fr.node].interruptions = @ + 1])

(* The next attempt is in flight before it runs. *)
BeginAttempt(r) ==
    LET fr == Top(r)
        a == Own(fr, fr.node)
        next == [a EXCEPT !.count = @ + 1, !.interruptions = 0, !.retryAt = None]
    IN  [SetTop(r, [fr EXCEPT !.attempts[fr.node] = next]) EXCEPT
            !.status = "running", !.pending = None,
            !.inFlight = [node |-> fr.node, attempt |-> next.count, inv |-> a.inv]]

(* A recovered run goes back to sleep until its scheduled retry. *)
Resuspend(r) ==
    LET fr == Top(r) IN
    [r EXCEPT !.status = "suspended",
              !.pending = [node |-> fr.node, reason |-> "retry", deadline |-> None,
                           resumeAt |-> Own(fr, fr.node).retryAt]]
=============================================================================
