----------------------------- MODULE Execution -----------------------------
(***************************************************************************)
(* A chain of executions of @sozai/execution: the first has the signal and *)
(* the timeout of the chain, each other one is made by next(), ifOK() or   *)
(* ifError() from the one before it.  Nothing runs before some link is     *)
(* awaited.  Executables may never end.                                    *)
(***************************************************************************)
EXTENDS Naturals, FiniteSets

CONSTANT Length  \* of the chain

Links == 1..Length

VARIABLES
    pc,          \* waiting: for the link before it; resolving: its context
    kind,        \* what the function of next() gave: an executable, null, an error
    controller,  \* the links whose own controller is aborted
    caller,      \* the signal of the chain
    chainTimer,  \* the timeout of the chain
    timer,       \* the timeout of each executable
    signals,     \* the links whose executable brings a signal that is aborted
    cleaned,     \* the links whose cleanup has been called
    queued,      \* the links whose executable is called in the next microtask
    called,      \* the links whose executable was called
    result,
    expired      \* the time of the chain, counted from its start, is over

vars == <<pc, kind, controller, caller, chainTimer, timer, signals, cleaned, queued, called, result,
          expired>>

Timer == {"none", "running", "fired", "cancelled"}

TypeOK ==
    /\ pc \in [Links -> {"idle", "waiting", "resolving", "running", "settled"}]
    /\ kind \in [Links -> {"none", "own", "null", "throw"}]
    /\ controller \subseteq Links /\ caller \in BOOLEAN /\ expired \in BOOLEAN
    /\ chainTimer \in Timer /\ timer \in [Links -> Timer]
    /\ signals \subseteq Links /\ cleaned \subseteq Links
    /\ queued \subseteq Links /\ called \subseteq Links
    /\ result \in [Links -> {"none", "ok", "error", "interrupted"}]

Init ==
    /\ pc = [i \in Links |-> "idle"] /\ kind = [i \in Links |-> "none"]
    /\ controller = {} /\ caller \in BOOLEAN /\ chainTimer = "none"
    /\ timer = [i \in Links |-> "none"] /\ signals = {}
    /\ cleaned = {} /\ queued = {} /\ called = {}
    /\ result = [i \in Links |-> "none"] /\ expired = FALSE

-----------------------------------------------------------------------------
(* Mutant: only nulls and errors hand on what they were given. *)
HeedsUnbroken(i) == {j \in 1..i : \A k \in (j + 1)..i : kind[k] \in {"null", "throw"}}

(* The links whose controller and timer are in the signal of i: its own,   *)
(* and those of each link before it that a null or an error came behind,   *)
(* which took all of its signal and passed it on with the one of the chain.*)
Heeds(i) == {i} \cup {j \in 1..(i - 1) : kind[j + 1] \in {"null", "throw"}}

(* The signal of a link that has started, from the sources given.  The     *)
(* signals of executables go down the whole chain.                         *)
Signalled(i, aborted, callers, chain, timers, brought) ==
    \/ callers \/ chain = "fired" \/ \E j \in 1..i : j \in brought
    \/ \E j \in Heeds(i) : j \in aborted \/ timers[j] = "fired"

Cancelled(t) == IF t = "running" THEN "cancelled" ELSE t

(* A cleanup calls the one of the link before it. *)
CleanupReaches(i) == 1..i

(* A link settles with what it has; what its cleanup reaches is cancelled. *)
SettleWith(i, how, chain, timers) ==
    /\ pc' = [pc EXCEPT ![i] = "settled"] /\ result' = [result EXCEPT ![i] = how]
    /\ cleaned' = cleaned \cup CleanupReaches(i)
    /\ chainTimer' = IF 1 \in CleanupReaches(i) THEN Cancelled(chain) ELSE chain
    /\ timer' = [j \in Links |-> IF j \in CleanupReaches(i) THEN Cancelled(timers[j])
                                                           ELSE timers[j]]

(* What an abort or a timer does to the link that runs, if it heeds it.    *)
Strike(aborted, callers, chain, timers, brought) ==
    LET struck == {i \in Links : /\ pc[i] = "running"
                                 /\ Signalled(i, aborted, callers, chain, timers, brought)} IN
    IF struck = {}
    THEN chainTimer' = chain /\ timer' = timers /\ UNCHANGED <<pc, result, cleaned>>
    ELSE SettleWith(CHOOSE i \in struck : TRUE, "interrupted", chain, timers)

-----------------------------------------------------------------------------
(* A link is awaited: it awaits the one before it, and so on. *)
Execute(i) ==
    /\ pc[i] = "idle"
    /\ pc' = [j \in Links |-> IF j > i \/ pc[j] # "idle" THEN pc[j]
                              ELSE IF j = 1 THEN "resolving" ELSE "waiting"]
    /\ kind' = [kind EXCEPT ![1] = "own"]
    /\ UNCHANGED <<controller, caller, chainTimer, timer, signals, cleaned, queued, called, result,
                   expired>>

(* The function of next() is called with the result before it. *)
Decide(i) ==
    /\ pc[i] = "waiting" /\ pc[i - 1] = "settled" /\ queued = {}
    /\ \E k \in {"own", "null", "throw"} : kind' = [kind EXCEPT ![i] = k]
    /\ pc' = [pc EXCEPT ![i] = "resolving"]
    /\ UNCHANGED <<controller, caller, chainTimer, timer, signals, cleaned, queued, called, result,
                   expired>>

(* The context is there: the timers start, and the call of the executable  *)
(* is queued unless the signal is aborted already.                         *)
Start(i) ==
    /\ pc[i] = "resolving"
    /\ \E own \in IF kind[i] = "own" THEN {"none", "running"} ELSE {"none"},
          chain \in IF i = 1 THEN {"none", "running"} ELSE {chainTimer} :
          LET timers == [timer EXCEPT ![i] = own] IN
          IF Signalled(i, controller, caller, chain, timers, signals)
          THEN SettleWith(i, "interrupted", chain, timers) /\ queued' = queued
          ELSE /\ pc' = [pc EXCEPT ![i] = "running"] /\ queued' = {i}
               /\ chainTimer' = chain /\ timer' = timers
               /\ UNCHANGED <<cleaned, result>>
    /\ UNCHANGED <<kind, controller, caller, signals, called, expired>>

(* The executable is called, though its link may be aborted by now.        *)
Call ==
    /\ queued # {} /\ called' = called \cup queued /\ queued' = {}
    /\ UNCHANGED <<pc, kind, controller, caller, chainTimer, timer, signals, cleaned, result,
                   expired>>

(* The executable ends; after null it is the result before it. *)
End(i) ==
    /\ pc[i] = "running" /\ i \in called
    /\ \E how \in CASE kind[i] = "own" -> {"ok", "error"}
                    [] kind[i] = "null" -> {result[i - 1]}
                    [] kind[i] = "throw" -> {"error"} :
          SettleWith(i, how, chainTimer, timer)
    /\ UNCHANGED <<kind, controller, caller, signals, queued, called, expired>>

(* abort() tells the links before it, back to one that is settled. *)
Reach(i) == {j \in 1..i : \A k \in j..i : pc[k] # "settled"}

(* abort(), cancel() or a disposal of a link.  The cleanup comes first: a  *)
(* timer that it cancels does not fire any more.                           *)
Abort(i) ==
    LET live == {j \in Reach(i) : pc[j] = "running"}
        touched == UNION {CleanupReaches(j) : j \in live}
        timers == [j \in Links |-> IF j \in touched THEN Cancelled(timer[j]) ELSE timer[j]]
        chain == IF 1 \in touched THEN Cancelled(chainTimer) ELSE chainTimer IN
    /\ pc[i] # "settled" /\ controller' = controller \cup Reach(i)
    /\ Strike(controller', caller, chain, timers, signals)
    /\ UNCHANGED <<kind, caller, signals, queued, called, expired>>

CallerAborts ==
    /\ ~caller /\ caller' = TRUE
    /\ Strike(controller, TRUE, chainTimer, timer, signals)
    /\ UNCHANGED <<kind, controller, signals, queued, called, expired>>

(* The signal that an executable brings, before its start or at any time.  *)
SignalAborts(i) ==
    /\ kind[i] = "own" /\ i \notin signals /\ signals' = signals \cup {i}
    /\ Strike(controller, caller, chainTimer, timer, signals')
    /\ UNCHANGED <<kind, controller, caller, queued, called, expired>>

(* Timers come behind all microtasks. *)
TimerFires(i) ==
    /\ timer[i] = "running" /\ queued = {}
    /\ Strike(controller, caller, chainTimer, [timer EXCEPT ![i] = "fired"], signals)
    /\ UNCHANGED <<kind, controller, caller, signals, queued, called, expired>>

(* The time of the chain is over; its timer fires if it was not cancelled. *)
Expire ==
    /\ ~expired /\ chainTimer # "none" /\ queued = {} /\ expired' = TRUE
    /\ IF chainTimer = "running" THEN Strike(controller, caller, "fired", timer, signals)
                                 ELSE UNCHANGED <<pc, result, cleaned, chainTimer, timer>>
    /\ UNCHANGED <<kind, controller, caller, signals, queued, called>>

Next ==
    \/ CallerAborts \/ Expire \/ Call
    \/ \E i \in Links :
          Execute(i) \/ Start(i) \/ End(i) \/ Abort(i) \/ SignalAborts(i) \/ TimerFires(i)
    \/ \E i \in Links \ {1} : Decide(i)

(* Microtasks run, contexts that are promises resolve, and timers fire. *)
Fairness ==
    /\ WF_vars(Call)
    /\ \A i \in Links : WF_vars(Start(i)) /\ WF_vars(i > 1 /\ Decide(i)) /\ WF_vars(TimerFires(i))

Spec == Init /\ [][Next]_vars /\ Fairness

-----------------------------------------------------------------------------
(* An aborted link has stopped, and so have all links before it.           *)
AbortReachesBack ==
    \A i \in controller : \A j \in 1..i : pc[j] # "running"

(* A link that settled was cleaned up, and no timer of it, or of a link    *)
(* before it, is left running.                                             *)
CleanedUp ==
    \A i \in Links : pc[i] = "settled" =>
        /\ 1..i \subseteq cleaned
        /\ \A j \in 1..i : timer[j] # "running"
        /\ chainTimer # "running"

(* A link runs after the one before it, and only one runs.                 *)
InTurn ==
    \A i \in Links : pc[i] \in {"resolving", "running", "settled"} =>
        \A j \in 1..(i - 1) : pc[j] = "settled"

(* An abort or a timeout that the next link does not answer with an        *)
(* executable of its own ends the chain: no later one is called, whatever  *)
(* the links behind bring.                                                 *)
InterruptionLasts ==
    \A j \in Links :
        (j \in controller \/ timer[j] = "fired") /\ j < Length /\ kind[j + 1] \in {"null", "throw"}
            => \A i \in Links : i > j => i \notin queued \cup called

ChainRight == AbortReachesBack /\ CleanedUp /\ InTurn /\ InterruptionLasts

(* No call of an executable is queued once its link, the chain, or the     *)
(* signal of an executable up to it is aborted.  (One that is queued is    *)
(* made, a microtask later.)                                               *)
NoLateCall ==
    /\ called' \ called \subseteq queued
    /\ \A i \in queued' \ queued : i \notin controller /\ ~caller /\ signals \cap (1..i) = {}

(* A link that is aborted settles, though its executable never ends.       *)
Quiet == \A i \in controller : pc[i] \in {"idle", "settled"}

(* The timeout of the chain bounds the whole chain, not just one step.     *)
ChainBounded == expired => \A i \in Links : pc[i] # "running"
=============================================================================
