------------------------------ MODULE MCAsync ------------------------------
(***************************************************************************)
(* What runs in one event loop, one component at a time: a call of one of  *)
(* the functions of concurrent.ts, a retry, callers of a yielder, an       *)
(* object to dispose of, a channel, a chain of executions, the listeners   *)
(* of an event, a consumer of an iterator, or the generator of a flow.     *)
(* They share no state: the others rest where nothing of theirs is due.    *)
(***************************************************************************)
EXTENDS MCConcurrent, FiniteSets

VARIABLE runs   \* the component that runs

concurrent == <<first, map, prefetch>>

ConcurrentOver == FirstOver /\ MapOver /\ PrefetchOver

-----------------------------------------------------------------------------
CONSTANTS None, MaxAttempts, Timeouts, Delays, Horizon

(* The clock reaches every timeout: what is due at the horizon is due.     *)
ASSUME RetryAssumption ==
    /\ MaxAttempts \in Nat \ {0} /\ Horizon \in Nat
    /\ Timeouts \subseteq 0..Horizon /\ Delays \subseteq Nat

VARIABLES policy, now, aborted, loop, attempt, timer, raced, gave, told, how, reported

retry == <<policy, now, aborted, loop, attempt, timer, raced, gave, told, how, reported>>

Retry == INSTANCE Retry WITH pc <- loop

RetryOver ==
    /\ policy = [maxAttempts |-> 1, attempt |-> None, total |-> None]
    /\ now = 0 /\ aborted = TRUE /\ loop = "done" /\ attempt = 1 /\ timer = None
    /\ raced = "none" /\ gave = <<"no">> /\ told = {} /\ how = "aborted" /\ reported = 0

-----------------------------------------------------------------------------
CONSTANTS Callers, Budget, Work, MaxUnits

(* Zero stands for the yielder itself among the microtasks. *)
ASSUME YielderAssumption ==
    /\ IsFiniteSet(Callers) /\ 0 \notin Callers
    /\ Budget \in Nat /\ Work \subseteq Nat /\ MaxUnits \in Nat

VARIABLES clock, lastTurn, waiters, marking, pumping, pump, micro, timers, units, waited, resumed

yielder ==
    <<clock, lastTurn, waiters, marking, pumping, pump, micro, timers, units, waited, resumed>>

Yielder == INSTANCE Yielder WITH now <- clock, turn <- pump

YielderOver ==
    /\ clock = 0 /\ lastTurn = 0 /\ waiters = <<>> /\ marking = FALSE /\ pumping = FALSE
    /\ pump = Yielder!NoTurn /\ micro = <<>> /\ timers = <<>>
    /\ units = [c \in Callers |-> 0] /\ waited = <<>> /\ resumed = <<>>

-----------------------------------------------------------------------------
CONSTANT HasCallback

ASSUME DisposerAssumption == HasCallback \subseteq BOOLEAN

VARIABLES hasCallback, outside, early, stage, deferred, latch, subscribed, reason, calls, callback,
          disposed

disposer ==
    <<hasCallback, outside, early, stage, deferred, latch, subscribed, reason, calls, callback,
      disposed>>

Disposer == INSTANCE Disposer WITH pc <- stage, runs <- calls

DisposerOver ==
    /\ hasCallback = FALSE /\ outside = "none" /\ early = FALSE /\ stage = "built"
    /\ deferred = FALSE /\ latch = "none" /\ subscribed = FALSE /\ reason = "none" /\ calls = 0
    /\ callback = "idle" /\ disposed = FALSE

-----------------------------------------------------------------------------
CONSTANTS HighWaters, Unbounded, MaxWrites

(* The mark may be left out. *)
ASSUME ChannelAssumption ==
    /\ Unbounded \in HighWaters /\ HighWaters \subseteq Nat \cup {Unbounded} /\ MaxWrites \in Nat

(* A buffer that one read empties, one that it does not, and no mark. *)
Marks == {1, 2, Unbounded}

VARIABLES highWater, rstate, buffer, reading, pulls, wstate, waiting, closing, writerAborted,
          shut, cancelled, current, write, fate, got

channel ==
    <<highWater, rstate, buffer, reading, pulls, wstate, waiting, closing, writerAborted,
      shut, cancelled, current, write, fate, got>>

Channel == INSTANCE Channel
    WITH queue <- buffer, signalled <- writerAborted, closed <- shut, failure <- cancelled,
         pc <- write

ChannelOver ==
    /\ highWater = Unbounded
    /\ rstate = "closed" /\ buffer = <<>> /\ reading = FALSE /\ pulls = FALSE
    /\ wstate = "closed" /\ waiting = <<>> /\ closing = FALSE /\ writerAborted = FALSE
    /\ shut = TRUE /\ cancelled = FALSE /\ current = 0 /\ write = "idle"
    /\ fate = [m \in 1..MaxWrites |-> "none"] /\ got = <<>>

-----------------------------------------------------------------------------
CONSTANT Length

ASSUME ExecutionAssumption == Length \in Nat \ {0}

VARIABLES step, kind, controller, caller, chainTimer, timeout, signals, cleaned, queued, called,
          gives, expired

execution ==
    <<step, kind, controller, caller, chainTimer, timeout, signals, cleaned, queued, called,
      gives, expired>>

Execution == INSTANCE Execution WITH pc <- step, timer <- timeout, result <- gives

ExecutionOver == Execution!Init /\ ~caller

-----------------------------------------------------------------------------
CONSTANTS MaxEvents, MaxDepth, MaxListeners, MaxReads

ASSUME EventsAssumption ==
    MaxEvents \in Nat /\ MaxDepth \in Nat /\ MaxListeners \in Nat /\ MaxReads \in Nat

VARIABLES listeners, place, stack, emitted, once, readable, closedIn, isDone, inbox, pending,
          reads, delivered, failures

events ==
    <<listeners, place, stack, emitted, once, readable, closedIn, isDone, inbox, pending,
      reads, delivered, failures>>

Events == INSTANCE Events WITH queue <- inbox

-----------------------------------------------------------------------------
CONSTANT MaxValues

ASSUME ConsumeAssumption == MaxValues \in Nat

VARIABLES pull, source, consumed, stopped, closed, returned, over

consume == <<pull, source, consumed, stopped, closed, returned, over>>

Consume == INSTANCE Consume
    WITH pc <- pull, given <- consumed, aborted <- stopped, ended <- over

ConsumeOver == Consume!Init /\ stopped

-----------------------------------------------------------------------------
CONSTANT MaxCalls

ASSUME GeneratorAssumption == MaxCalls \in Nat

VARIABLES value, defaultAction, handling, given, flowAborted, nexts, said, left, handlers

generator ==
    <<value, defaultAction, handling, given, flowAborted, nexts, said, left, handlers>>

Generator == INSTANCE FlowGenerator
    WITH running <- handling, step <- given, calls <- nexts, answer <- said, outside <- left,
         started <- handlers

GeneratorOver == Generator!Init /\ ~defaultAction /\ ~flowAborted

-----------------------------------------------------------------------------
Components ==
    {"concurrent", "retry", "yielder", "disposer", "channel", "execution", "events", "consume",
     "generator"}

Init ==
    /\ runs \in Components
    /\ IF runs = "concurrent" THEN ConcurrentInit ELSE ConcurrentOver
    /\ IF runs = "retry" THEN Retry!Init ELSE RetryOver
    /\ IF runs = "yielder" THEN Yielder!Init ELSE YielderOver
    /\ IF runs = "disposer" THEN Disposer!Init ELSE DisposerOver
    /\ IF runs = "channel" THEN Channel!Init ELSE ChannelOver
    /\ IF runs = "execution" THEN Execution!Init ELSE ExecutionOver
    /\ Events!Init
    /\ IF runs = "consume" THEN Consume!Init ELSE ConsumeOver
    /\ IF runs = "generator" THEN Generator!Init ELSE GeneratorOver

(* One component takes its steps; the rest stands still. *)
Next ==
    /\ UNCHANGED runs
    /\ \/ /\ runs = "concurrent" /\ ConcurrentNext
          /\ UNCHANGED <<retry, yielder, disposer, channel, execution, events, consume, generator>>
       \/ /\ runs = "retry" /\ Retry!Next
          /\ UNCHANGED <<concurrent, yielder, disposer, channel, execution, events, consume, generator>>
       \/ /\ runs = "yielder" /\ Yielder!Next
          /\ UNCHANGED <<concurrent, retry, disposer, channel, execution, events, consume, generator>>
       \/ /\ runs = "disposer" /\ Disposer!Next
          /\ UNCHANGED <<concurrent, retry, yielder, channel, execution, events, consume, generator>>
       \/ /\ runs = "channel" /\ Channel!Next
          /\ UNCHANGED <<concurrent, retry, yielder, disposer, execution, events, consume, generator>>
       \/ /\ runs = "execution" /\ Execution!Next
          /\ UNCHANGED <<concurrent, retry, yielder, disposer, channel, events, consume, generator>>
       \/ /\ runs = "events" /\ Events!Next
          /\ UNCHANGED <<concurrent, retry, yielder, disposer, channel, execution, consume, generator>>
       \/ /\ runs = "consume" /\ Consume!Next
          /\ UNCHANGED <<concurrent, retry, yielder, disposer, channel, execution, events, generator>>
       \/ /\ runs = "generator" /\ Generator!Next
          /\ UNCHANGED <<concurrent, retry, yielder, disposer, channel, execution, events, consume>>

vars ==
    <<runs, concurrent, retry, yielder, disposer, channel, execution, events, consume, generator>>

Spec ==
    /\ Init /\ [][Next]_vars
    /\ ConcurrentFairness /\ Retry!Fairness /\ Yielder!Fairness
    /\ Disposer!Fairness /\ Channel!Fairness /\ Execution!Fairness /\ Consume!Fairness

-----------------------------------------------------------------------------
(* Calls over a list give the promised answer, keep to their limit, and    *)
(* leave nothing behind: firstInOrder, mapConcurrent, prefetchOrdered.     *)
ConcurrentRight == FirstInOrderRight /\ MapConcurrentRight /\ PrefetchOrderedRight

(* A retry ends for the reason it gives and tells the calls it leaves      *)
(* behind; a yielder resumes its callers in turn and forgets none; an      *)
(* object is disposed of once, for the reason that came first.             *)
AsyncRight == Retry!RetryRight /\ Yielder!YielderRight /\ Disposer!DisposerRight

(* A channel keeps to its mark and delivers in order what was written.     *)
ChannelRight == Channel!ChannelRight

(* An abort reaches the links of a chain before it, every link that        *)
(* settled is cleaned up, and one link runs at a time; a flow that is over *)
(* stays over, and only a final answer says done.                          *)
ChainsRight == Execution!TypeOK /\ Execution!ChainRight /\ Generator!GeneratorRight

(* Each listener is called once for each event it was there for, a once    *)
(* with the first; an emission fails only when a listener did; reads of an *)
(* iterator get the events in order, and values given to consume arrive in *)
(* order, with its iterator closed once.                                   *)
EventsRight == Events!EventsRight /\ Consume!ConsumeRight

(* No call of concurrent.ts starts that cannot matter any more; no caller  *)
(* of a yielder goes on beyond the budget of its turn; no executable is    *)
(* put up to be called, no callback or handler starts, and no handler's    *)
(* result is taken, once what it is part of was aborted or closed.         *)
VainStep ==
    /\ ConcurrentVainStep /\ Yielder!KeepsToBudget /\ Execution!NoLateCall
    /\ Consume!NothingAfterClose /\ Generator!AbortsHonoured

NothingStartsInVain == [][VainStep]_vars

(* What began comes to its end: a call over a list settles, a bounded or   *)
(* aborted retry ends, callers of a yielder get through their work, an     *)
(* aborted object is disposed of, a write settles, an aborted link of a    *)
(* chain settles, a consumer of an iterator that ends is told.             *)
Quiet ==
    /\ ConcurrentQuiet /\ Retry!Quiet /\ Yielder!Quiet /\ Disposer!Quiet
    /\ Channel!Quiet /\ Execution!Quiet /\ Consume!Quiet

Settles == []<>Quiet
=============================================================================
