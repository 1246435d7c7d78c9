------------------------------ MODULE FlowRun ------------------------------
(***************************************************************************)
(* One durable run: the drive loop of @sozai/flow-graph, the host that     *)
(* pulls it, and the crashes between them.                                 *)
(*                                                                         *)
(* The runner (run-drive.ts) is an async generator.  Each time it yields a *)
(* committed document the host persists it and pulls the next one, as the  *)
(* package README asks; the runner's own state is lost in a crash and the  *)
(* host recovers the run from the last document it persisted.  A step of   *)
(* the loop between two awaits is one action.                              *)
(***************************************************************************)
EXTENDS FlowCommit

CONSTANTS
    MaxCrashes,     \* bound on the crashes of one behaviour
    MaxSkew         \* how far behind the clock of the next segment's host may be

ASSUME HostAssumption == MaxCrashes \in Nat /\ MaxSkew \in Nat

VARIABLES
    run,        \* FlowRunner's state, always a committed document
    store,      \* the document the host persisted last
    pc,         \* where the drive loop is; "down" when no segment is live
    recovering, \* the segment recovers a run and has started no attempt yet
    event,      \* the resume event of the segment, None in the other modes
    aborted,    \* the segment's abort signal
    now,        \* the clock
    crashes,    \* crashes so far
    work        \* history: per invocation id, the node code started under it

vars == <<run, store, pc, recovering, event, aborted, now, crashes, work>>

Pcs == {"down", "top", "sleep", "launch", "exec", "yieldTop", "yieldLaunch"}

Events == {"value", "timeout", "decline", "retry"}

Active == DefOf(Top(run))
Retries == Active.kind \in RetryKinds
Progress == Own(Top(run), Top(run).node)

(* The delay a retry of frame i would wait. *)
DelayChoices == [1..Depth(run) -> Delays]

-----------------------------------------------------------------------------
Init ==
    /\ run = InitialRun /\ store = InitialRun
    /\ pc = "top" /\ recovering = FALSE /\ event = None /\ aborted = FALSE
    /\ now = 0 /\ crashes = 0
    /\ work = <<>>

(* The runner commits a document and yields it; next is where the loop     *)
(* goes on once the host pulls again.                                      *)
Yield(r, next) ==
    /\ run' = r
    /\ pc' = next
    /\ UNCHANGED <<store, event, aborted, now, crashes>>

Commit(r) == Yield(r, "yieldTop") /\ UNCHANGED <<recovering, work>>

-----------------------------------------------------------------------------
(* Host. *)

(* for await: the host stores the document it was given, then pulls.  A    *)
(* final document ends the segment.                                        *)
Persist ==
    /\ pc \in {"yieldTop", "yieldLaunch"}
    /\ store' = run
    /\ IF run.status \in Final
       THEN pc' = "down" /\ recovering' = FALSE /\ event' = None /\ aborted' = FALSE
       ELSE /\ pc' = IF pc = "yieldTop" THEN "top" ELSE "launch"
            /\ UNCHANGED <<recovering, event, aborted>>
    /\ UNCHANGED <<run, now, crashes, work>>

(* The process dies, next() rejects without a commit, or the host abandons *)
(* the segment with return().                                              *)
Crash ==
    /\ pc # "down" /\ crashes < MaxCrashes
    /\ crashes' = crashes + 1
    /\ run' = store /\ pc' = "down"
    /\ recovering' = FALSE /\ event' = None /\ aborted' = FALSE
    /\ UNCHANGED <<store, now, work>>

(* Another host may run the next segment, and its clock may be behind. *)
NextClock == now' \in {t \in Time : t <= now /\ now <= t + MaxSkew}

Recover ==
    /\ pc = "down" /\ store.status = "running"
    /\ NextClock
    /\ pc' = "top" /\ recovering' = TRUE
    /\ UNCHANGED <<run, store, event, aborted, crashes, work>>

(* validateResumeEvent: the event answers what the run waits for, and a    *)
(* retry or a timeout not before its time.                                 *)
Answers(e, pending, t) ==
    IF pending.reason = "retry"
    THEN e = "retry" /\ t >= pending.resumeAt
    ELSE e \in {"value", "decline"}
         \/ (e = "timeout" /\ pending.deadline # None /\ t >= pending.deadline)

Resume(e) ==
    /\ pc = "down" /\ store.status = "suspended"
    /\ NextClock /\ Answers(e, store.pending, now')
    /\ pc' = "top" /\ event' = e
    /\ UNCHANGED <<run, store, recovering, aborted, crashes, work>>

AbortRequest ==
    /\ pc # "down" /\ ~aborted
    /\ aborted' = TRUE
    /\ UNCHANGED <<run, store, pc, recovering, event, now, crashes, work>>

Tick ==
    /\ now < Horizon
    /\ now' = now + 1
    /\ UNCHANGED <<run, store, pc, recovering, event, aborted, crashes, work>>

-----------------------------------------------------------------------------
(* The drive loop. *)

Waiting == run.status = "suspended" /\ run.pending.reason = "suspend"

RetryPending == Progress # None /\ Progress.retryAt # None

(* The loop reads the signal on every turn and after a retry's wait. *)
DriveAbort ==
    /\ pc \in {"top", "sleep"} /\ aborted
    /\ Commit(Abort(run))

(* A recovered run whose retry is far away is suspended again. *)
LongWait ==
    LET after == Active.policy.suspendAfter IN
    recovering /\ after # None /\ Progress.retryAt > now + after

DriveResuspend ==
    /\ pc = "top" /\ ~aborted /\ ~Waiting /\ RetryPending
    /\ ~Expired(Progress.deadline, now, 0)
    /\ LongWait
    /\ Commit(Resuspend(run))

DriveSleep ==
    /\ pc = "top" /\ ~aborted /\ ~Waiting /\ RetryPending
    /\ ~Expired(Progress.deadline, now, 0)
    /\ ~LongWait /\ Progress.retryAt > now
    /\ pc' = "sleep" /\ recovering' = FALSE
    /\ UNCHANGED <<run, store, event, aborted, now, crashes, work>>

(* The loop reaches the active node: no retry to wait for, or its time has *)
(* come.                                                                   *)
AtNode ==
    /\ ~aborted /\ ~Waiting
    /\ \/ pc = "top" /\ ~RetryPending
       \/ pc = "top" /\ RetryPending /\ Progress.retryAt <= now
       \/ pc = "sleep" /\ Progress.retryAt <= now

(* The total deadline has passed: read at the top of a turn, even when the *)
(* retry is not due, and again before an attempt.                          *)
DriveExpire ==
    /\ ~aborted /\ ~Waiting /\ Retries /\ Progress # None
    /\ AtNode \/ (pc = "top" /\ RetryPending)
    /\ Expired(Progress.deadline, now, 0)
    /\ \E d \in DelayChoices : Commit(FailNode(run, "total_timeout", now, d))

DriveMaxSteps ==
    /\ AtNode /\ Progress = None /\ run.steps >= MaxSteps
    /\ \E d \in DelayChoices : Commit(FailRun(run, "max_steps", None, now, d))

DriveEnter ==
    /\ AtNode /\ Retries /\ Progress = None /\ run.steps < MaxSteps
    /\ Commit(Enter(run, now))

InTime == Retries /\ Progress # None /\ ~Expired(Progress.deadline, now, 0)

Replaying == recovering /\ run.inFlight # None

DriveInterrupted ==
    /\ AtNode /\ InTime /\ Replaying
    /\ Progress.interruptions >= Active.policy.maxInterruptions
    /\ \E d \in DelayChoices : Commit(FailNode(run, "interrupted", now, d))

DriveReplay ==
    /\ AtNode /\ InTime /\ Replaying
    /\ Progress.interruptions < Active.policy.maxInterruptions
    /\ Yield(Interrupt(run), "yieldLaunch")
    /\ recovering' = FALSE
    /\ UNCHANGED work

(* Mutant: the attempt starts before the host stored its checkpoint. *)
DriveAttemptUnsaved ==
    /\ AtNode /\ InTime /\ ~Replaying
    /\ Progress.count < Active.policy.maxAttempts
    /\ Yield(BeginAttempt(run), "launch")
    /\ recovering' = FALSE
    /\ UNCHANGED work

(* AttemptAvailable shows that the loop's own check of maxAttempts here    *)
(* never fires.                                                            *)
DriveAttempt ==
    /\ AtNode /\ InTime /\ ~Replaying
    /\ Progress.count < Active.policy.maxAttempts
    /\ Yield(BeginAttempt(run), "yieldLaunch")
    /\ recovering' = FALSE
    /\ UNCHANGED work

-----------------------------------------------------------------------------
(* NodeExecutor: the node's code runs under an invocation id and attempt.  *)

(* History of the starts under each id: who runs, the attempt and how many *)
(* times that attempt was started.                                         *)
Record(inv, attempt) ==
    LET site == <<Depth(run), Top(run).flow, Top(run).node>>
        again == inv \in DOMAIN work /\ work[inv].attempt = attempt
        entry == [site |-> site, attempt |-> attempt,
                  starts |-> IF again THEN work[inv].starts + 1 ELSE 1]
    IN  work' = [i \in DOMAIN work \cup {inv} |-> IF i = inv THEN entry ELSE work[i]]

Start(inv, attempt) ==
    /\ pc' = "exec"
    /\ Record(inv, attempt)
    /\ UNCHANGED <<run, store, recovering, event, aborted, now, crashes>>

(* A kind without retries runs straight from the loop, under the id its    *)
(* entry will draw when it is committed.                                   *)
DriveExecute ==
    /\ AtNode /\ ~Retries /\ run.steps < MaxSteps
    /\ Start(run.invocation + 1, 1)

(* The suspended node resumes under the latest id drawn. *)
DriveResumed ==
    /\ pc = "top" /\ ~aborted /\ Waiting
    /\ Start(run.invocation, 1)

(* raceAttempt refuses to start after an abort or the deadline. *)
LaunchAborted ==
    /\ pc = "launch" /\ aborted
    /\ Commit(Abort(run))

LaunchLate ==
    /\ pc = "launch" /\ ~aborted /\ Expired(Progress.deadline, now, 0)
    /\ \E d \in DelayChoices : Commit(HandleNodeError(run, FALSE, "plain", now, d))

(* Mutant: the start is not guarded again after the host's await. *)
LaunchUnchecked ==
    /\ pc = "launch"
    /\ Start(Progress.inv, Progress.count)

Launch ==
    /\ pc = "launch" /\ ~aborted /\ ~Expired(Progress.deadline, now, 0)
    /\ Start(Progress.inv, Progress.count)

-----------------------------------------------------------------------------
(* The outcome of the node's code. *)

Ran(kind) == pc = "exec" /\ Active.kind = kind

(* After its code has run, a kind without retries still checks the signal; *)
(* a retried attempt races it.                                             *)
Completes(r) == (Retries \/ ~aborted) /\ Commit(r)

Fails(resumed, err) ==
    /\ ~aborted
    /\ \E d \in DelayChoices : Commit(HandleNodeError(run, resumed, err, now, d))

ExecAborted ==
    /\ pc = "exec" /\ aborted
    /\ Commit(Abort(run))

Done(loops) == Applied(run, FALSE, loops)
Loops == Top(run).loops

FinishStep ==
    /\ Ran("step")
    /\ \/ \E n \in Active.targets : Completes(Move(Done(Loops), n))
       \/ \E err \in {"invalid_value", "plain"} : Fails(FALSE, err)

FinishAction ==
    /\ Ran("action")
    /\ \/ Completes(Move(Done(Loops), Active.next))
       \/ \E err \in {"invalid_value", "retryable", "plain"} : Fails(FALSE, err)

(* loop: `while` is false, the iterations are used up, or one more runs. *)
LoopExit ==
    LET n == Top(run).node IN
    Ran("loop") /\ Completes(Move(Done([Loops EXCEPT ![n] = 0]), Active.exit))

LoopExhausted ==
    LET n == Top(run).node IN
    /\ Ran("loop") /\ Loops[n] >= Active.max
    /\ IF Active.exhausted = None THEN Fails(FALSE, "loop_exhausted")
       ELSE Completes(Move(Done([Loops EXCEPT ![n] = 0]), Active.exhausted))

(* A flow that is referenced is resolved, checked and given its input      *)
(* before the frame is pushed or replaced.                                 *)
Unprepared == \E err \in {"missing_flow", "invalid_flow", "invalid_input"} : Fails(FALSE, err)

LoopBody ==
    LET n == Top(run).node
        next == Done([Loops EXCEPT ![n] = @ + 1])
        cont == [kind |-> "loopBody", caller |-> n, returnTo |-> n, onError |-> None]
    IN  /\ Ran("loop") /\ Loops[n] < Active.max
        /\ \/ Active.flow = None /\ Completes(Move(next, Active.body))
           \/ Active.flow # None /\ Depth(run) >= MaxDepth /\ Fails(FALSE, "max_depth")
           \/ Active.flow # None /\ Depth(run) < MaxDepth
              /\ (Unprepared \/ Completes(Push(next, Active.flow, cont)))

(* A call has no retryable failure of its own: only its callee's are       *)
(* retried, in FailRun.                                                    *)
FinishCall ==
    LET cont == [kind |-> "call", caller |-> Top(run).node,
                 returnTo |-> Active.next, onError |-> Active.onError]
    IN  /\ Ran("call")
        /\ \/ Depth(run) >= MaxDepth /\ Fails(FALSE, "max_depth")
           \/ Depth(run) < MaxDepth
              /\ (Unprepared \/ Completes(Push(Done(Loops), Active.flow, cont)))
           \/ Fails(FALSE, "plain")

FinishGoto ==
    /\ Ran("goto")
    /\ Unprepared \/ Completes(Replace(Done(Loops), Active.flow))

FinishInput ==
    LET deadline == IF Active.timeout = None THEN None ELSE Later(now, Active.timeout) IN
    /\ Ran("input") /\ ~Waiting
    /\ Completes(Suspend(Done(Loops), deadline))

(* input.resume: a timeout or a decline needs a branch of its own. *)
FinishResume ==
    LET target == CASE event = "timeout" -> Active.timeoutTo
                    [] event = "decline" -> Active.decline
                    [] OTHER -> Active.next
    IN  /\ Ran("input") /\ Waiting
        /\ IF target = None THEN Fails(TRUE, "invalid_suspend")
           ELSE Completes(Move(Applied(run, TRUE, Loops), target))

FinishEnd ==
    /\ Ran("end")
    /\ \/ Completes(End(Done(Loops)))
       \/ Fails(FALSE, "invalid_value")

-----------------------------------------------------------------------------
Drive ==
    \/ DriveAbort \/ DriveResuspend \/ DriveSleep \/ DriveExpire \/ DriveMaxSteps
    \/ DriveEnter \/ DriveInterrupted \/ DriveReplay \/ DriveAttempt
    \/ DriveExecute \/ DriveResumed \/ LaunchAborted \/ LaunchLate \/ Launch

Finish ==
    \/ ExecAborted \/ FinishStep \/ FinishAction
    \/ LoopExit \/ LoopExhausted \/ LoopBody
    \/ FinishCall \/ FinishGoto \/ FinishInput \/ FinishResume \/ FinishEnd

(* A run that is over stays as it is stored. *)
Stopped == pc = "down" /\ store.status \in Terminal /\ UNCHANGED vars

Next ==
    \/ Persist \/ Crash \/ Recover \/ AbortRequest \/ Tick
    \/ \E e \in Events : Resume(e)
    \/ Drive \/ Finish \/ Stopped

Spec == Init /\ [][Next]_vars

(* Node code settles, the event loop and the clock go on, and the host     *)
(* keeps pulling and recovers a run it lost.  Aborts, answers and crashes  *)
(* may never come.                                                         *)
Fairness == WF_vars(Persist) /\ WF_vars(Recover) /\ WF_vars(Drive)
            /\ WF_vars(Finish) /\ WF_vars(Tick)

FairSpec == Spec /\ Fairness
=============================================================================
