------------------------------- MODULE Retry -------------------------------
(***************************************************************************)
(* retry and raceAttempt of @sozai/async: attempts of a function, each     *)
(* raced against a timer and the caller's signal.  The function may ignore *)
(* its signal, so that an abandoned attempt runs on beside the next one.   *)
(***************************************************************************)
EXTENDS Naturals, FiniteSets

CONSTANTS None,
          MaxAttempts,  \* bound: the largest policy.maxAttempts
          Timeouts,     \* values of attemptTimeoutMs and totalTimeoutMs
          Delays,       \* what getRetryDelay may return
          Horizon       \* bound: the clock stops there, and all is due

VARIABLES
    policy,     \* the bounds of this run
    now,
    aborted,    \* the caller's signal
    pc,         \* where the loop is; cut and woken: the wait is over
    attempt,
    timer,      \* the timer of the race or of the wait: due, and its kind
    raced,      \* what decided the race of this attempt
    gave,       \* what became of the call of each attempt
    told,       \* attempts whose own signal is aborted
    how,        \* how retry ended
    reported    \* the number of attempts it reported

vars == <<policy, now, aborted, pc, attempt, timer, raced, gave, told, how, reported>>

Attempts == 1..policy.maxAttempts

Time == 0..Horizon

TypeOK ==
    /\ policy \in [maxAttempts : 1..MaxAttempts, attempt : Timeouts \cup {None},
                   total : Timeouts \cup {None}]
    /\ now \in Time /\ aborted \in BOOLEAN
    /\ pc \in {"top", "race", "racing", "waiting", "cut", "woken", "done"}
    /\ attempt \in Attempts
    /\ timer \in [due : Time, kind : {"attempt", "deadline", "wait"}] \cup {None}
    /\ raced \in {"none", "value", "error", "attempt", "deadline", "abort"}
    /\ gave \in [Attempts -> {"no", "queued", "pending", "value", "error"}]
    /\ told \subseteq Attempts
    /\ how \in {"none", "value", "error", "attempts", "total_timeout", "aborted"}
    /\ reported \in 0..policy.maxAttempts

(* The deadline: the run starts at time 0. *)
Deadline == policy.total

Passed(t) == Deadline # None /\ t >= Deadline

Later(t, d) == IF t + d > Horizon THEN Horizon ELSE t + d

Init ==
    /\ policy \in [maxAttempts : 1..MaxAttempts, attempt : Timeouts \cup {None},
                   total : Timeouts \cup {None}]
    /\ now = 0 /\ aborted \in BOOLEAN
    /\ pc = "top" /\ attempt = 1 /\ timer = None /\ raced = "none"
    /\ gave = [a \in Attempts |-> "no"] /\ told = {}
    /\ how = "none" /\ reported = 0

-----------------------------------------------------------------------------
Finish(outcome, count) ==
    /\ pc' = "done" /\ how' = outcome /\ reported' = count /\ timer' = None
    /\ UNCHANGED <<policy, now, attempt, raced, gave, told>>

(* The head of the loop. *)
Top ==
    /\ pc = "top"
    /\ IF aborted THEN Finish("aborted", 0)
       ELSE IF Passed(now) THEN Finish("total_timeout", attempt - 1)
       ELSE pc' = "race" /\ UNCHANGED <<policy, now, attempt, timer, raced, gave, told, how, reported>>
    /\ UNCHANGED aborted

(* Mutant: the deadline sets no timer. *)
TimerOfAttempt ==
    IF policy.attempt = None THEN None
    ELSE [due |-> Later(now, policy.attempt), kind |-> "attempt"]

(* The timer of an attempt: for the total deadline when that comes first.  *)
Timer ==
    LET first == Deadline # None /\
                 (policy.attempt = None \/ Deadline <= now + policy.attempt)
    IN  IF first THEN [due |-> Deadline, kind |-> "deadline"]
        ELSE IF policy.attempt = None THEN None
        ELSE [due |-> Later(now, policy.attempt), kind |-> "attempt"]

(* raceAttempt reads the clock once more, then queues the call. *)
Race ==
    /\ pc = "race" /\ pc' = "racing"
    /\ IF Passed(now)
       THEN raced' = "deadline" /\ timer' = None /\ UNCHANGED gave
       ELSE raced' = "none" /\ timer' = Timer /\ gave' = [gave EXCEPT ![attempt] = "queued"]
    /\ UNCHANGED <<policy, now, aborted, attempt, told, how, reported>>

Begin ==
    /\ gave[attempt] = "queued"
    /\ gave' = [gave EXCEPT ![attempt] = "pending"]
    /\ UNCHANGED <<policy, now, aborted, pc, attempt, timer, raced, told, how, reported>>

(* A call settles, of this attempt or of one that was abandoned. *)
Settle(a, what) ==
    /\ gave[a] = "pending"
    /\ gave' = [gave EXCEPT ![a] = what]
    /\ UNCHANGED <<policy, now, aborted, pc, attempt, timer, raced, told, how, reported>>

(* Its result takes some microtasks to reach the race. *)
Deliver ==
    /\ pc = "racing" /\ raced = "none" /\ gave[attempt] \in {"value", "error"}
    /\ raced' = gave[attempt]
    /\ UNCHANGED <<policy, now, aborted, pc, attempt, timer, gave, told, how, reported>>

Fire ==
    /\ pc = "racing" /\ raced = "none" /\ gave[attempt] = "pending"
    /\ timer # None /\ timer.due <= now
    /\ raced' = timer.kind /\ told' = told \cup {attempt}
    /\ UNCHANGED <<policy, now, aborted, pc, attempt, timer, gave, how, reported>>

(* The wait, unless onRetry aborts the caller's signal. *)
Wait(delay) ==
    \/ Finish("aborted", 0) /\ aborted' = TRUE
    \/ /\ pc' = "waiting" /\ timer' = [due |-> Later(now, delay), kind |-> "wait"]
       /\ UNCHANGED <<policy, now, aborted, attempt, raced, gave, told, how, reported>>

(* A failure that may be retried. *)
RetryAgain ==
    IF attempt >= policy.maxAttempts THEN Finish("attempts", attempt) /\ UNCHANGED aborted
    ELSE \E delay \in Delays :
            IF Passed(now + delay) THEN Finish("total_timeout", attempt) /\ UNCHANGED aborted
            ELSE Wait(delay)

(* The loop goes on once the race is decided; an abort may have come since.*)
Continue ==
    /\ pc = "racing" /\ raced # "none" /\ gave[attempt] # "queued"
    /\ IF raced = "value" THEN Finish("value", 0) /\ UNCHANGED aborted
       ELSE IF aborted THEN Finish("aborted", 0) /\ UNCHANGED aborted
       ELSE IF raced = "deadline" THEN Finish("total_timeout", attempt) /\ UNCHANGED aborted
       ELSE (Finish("error", 0) /\ UNCHANGED aborted) \/ RetryAgain

WaitOver ==
    /\ pc = "waiting" /\ timer.due <= now
    /\ pc' = "woken"
    /\ UNCHANGED <<policy, now, aborted, attempt, timer, raced, gave, told, how, reported>>

Woken ==
    /\ pc = "woken"
    /\ pc' = "top" /\ attempt' = attempt + 1 /\ raced' = "none" /\ timer' = None
    /\ UNCHANGED <<policy, now, aborted, gave, told, how, reported>>

Cut == pc = "cut" /\ Finish("aborted", 0) /\ UNCHANGED aborted

-----------------------------------------------------------------------------
(* The caller's signal, whenever the loop is at an await. *)
Abort ==
    /\ ~aborted /\ pc \in {"racing", "waiting", "woken"} /\ aborted' = TRUE
    /\ told' = IF pc = "racing" /\ gave[attempt] # "no" THEN told \cup {attempt} ELSE told
    /\ raced' = IF pc = "racing" /\ raced = "none" THEN "abort" ELSE raced
    /\ pc' = IF pc = "waiting" THEN "cut" ELSE pc
    /\ UNCHANGED <<policy, now, attempt, timer, gave, how, reported>>

Tick ==
    /\ now < Horizon /\ now' = now + 1 /\ pc # "done"
    /\ UNCHANGED <<policy, aborted, pc, attempt, timer, raced, gave, told, how, reported>>

Step ==
    \/ Top \/ Race \/ Begin \/ Deliver \/ Fire \/ Continue
    \/ WaitOver \/ Woken \/ Cut

Over == pc = "done" /\ UNCHANGED vars

Next ==
    \/ Step \/ Abort \/ Tick \/ Over
    \/ \E a \in Attempts, what \in {"value", "error"} : Settle(a, what)

Spec == Init /\ [][Next]_vars

(* The event loop and the clock go on.  A call may never settle. *)
Fairness == WF_vars(Step) /\ WF_vars(Tick)

FairSpec == Spec /\ Fairness

-----------------------------------------------------------------------------
Called == {a \in Attempts : gave[a] # "no"}

(* A run ends for the reason it gives: with the value of its last attempt, *)
(* never of one it abandoned; exhausted when every attempt was made or the *)
(* deadline is within a delay; aborted when it was.  The attempts reported *)
(* are those called, or one more, refused by the deadline at its start.    *)
EndsRightly ==
    /\ how = "value" => gave[attempt] = "value"
    /\ how \in {"attempts", "error"} => ~(raced \in {"none", "value", "abort"})
    /\ how = "attempts" => Called = Attempts
    /\ how = "total_timeout" =>
          /\ \E d \in Delays \cup {0} : Passed(now + d)
          /\ reported - Cardinality(Called) \in {0, 1}
    /\ how = "aborted" => aborted

(* Only one attempt is worth waiting for: every earlier call that still    *)
(* runs has been told to stop, and so has the last one when the run ends.  *)
LeftBehindTold ==
    \A a \in Called : gave[a] \in {"queued", "pending"} /\ (a < attempt \/ pc = "done")
        => a \in told

RetryRight == TypeOK /\ EndsRightly /\ LeftBehindTold

(* A run ends when its time is bounded, or it is aborted, even if the      *)
(* function never settles and ignores its signal.                          *)
Bounds == aborted \/ policy.attempt # None \/ policy.total # None

Quiet == Bounds => pc = "done"
=============================================================================
