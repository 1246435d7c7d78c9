------------------------------ MODULE Yielder ------------------------------
(***************************************************************************)
(* async/yielder.ts: callers of maybeYield on one yielder.  The event loop *)
(* runs microtasks in order until there are none, then the first timer.  A *)
(* caller's turn is one unit of work, which takes time, and its next call. *)
(* Timers of no delay run in the order they were set.                      *)
(***************************************************************************)
EXTENDS Integers, SequencesExt

CONSTANTS Callers, Budget, Work, MaxUnits    \* Work: what a unit takes; MaxUnits: bound of them

VARIABLES now, lastTurn, waiters, marking, pumping,
          turn,      \* of pump: when it began, whom it has left, whether it resumed anybody
          micro,     \* microtasks: ResumeNext, or the caller that goes on
          timers,    \* "mark" and "pump"
          units,     \* how often each caller may still call
          waited, resumed   \* history: who waited, and who was resumed, in order

vars == <<now, lastTurn, waiters, marking, pumping, turn, micro, timers, units, waited, resumed>>

ResumeNext == 0

NoTurn == [start |-> 0, remaining |-> -1, resumed |-> FALSE]

(* Each caller is about to do its first unit of work.                      *)
Init ==
    /\ now = 0 /\ lastTurn = 0 /\ waiters = <<>> /\ marking = FALSE /\ pumping = FALSE
    /\ turn = NoTurn /\ timers = <<>>
    /\ micro \in SetToSeqs(Callers)
    /\ units = [c \in Callers |-> MaxUnits]
    /\ waited = <<>> /\ resumed = <<>>

-----------------------------------------------------------------------------
Mark == IF marking THEN <<>> ELSE <<"mark">>

Pump == IF pumping THEN <<>> ELSE <<"pump">>

(* The unit of work, and maybeYield, which resolves at once or waits.      *)
MaybeYield(c) ==
    /\ micro # <<>> /\ Head(micro) = c /\ units[c] > 0
    /\ \E work \in Work : now' = now + work
    /\ units' = [units EXCEPT ![c] = @ - 1]
    /\ marking' = TRUE
    /\ \/ /\ waiters = <<>> /\ now' - lastTurn < Budget
          /\ timers' = timers \o Mark /\ micro' = Append(Tail(micro), c)
          /\ UNCHANGED <<waiters, pumping, waited>>
       \/ /\ waiters # <<>> \/ now' - lastTurn >= Budget
          /\ timers' = timers \o Mark \o Pump /\ micro' = Tail(micro)
          /\ waiters' = Append(waiters, c) /\ pumping' = TRUE
          /\ waited' = Append(waited, c)
    /\ UNCHANGED <<lastTurn, turn, resumed>>

(* A caller that has no more work to do.                                   *)
Finish(c) ==
    /\ micro # <<>> /\ Head(micro) = c /\ units[c] = 0
    /\ \E work \in Work : now' = now + work
    /\ micro' = Tail(micro)
    /\ UNCHANGED <<lastTurn, waiters, marking, pumping, turn, timers, units, waited, resumed>>

(* resumeNext in turn t, with the microtasks in rest still to run.         *)
Resume(t, rest) ==
    IF t.remaining = 0 \/ (t.resumed /\ now - t.start >= Budget)
    THEN /\ turn' = NoTurn /\ micro' = rest
         /\ IF waiters # <<>>
            THEN timers' = Append(timers, "pump") /\ UNCHANGED pumping
            ELSE pumping' = FALSE /\ UNCHANGED timers
         /\ UNCHANGED <<waiters, resumed>>
    ELSE /\ turn' = [t EXCEPT !.remaining = @ - 1, !.resumed = TRUE]
         /\ micro' = rest \o <<Head(waiters), ResumeNext>>
         /\ waiters' = Tail(waiters) /\ resumed' = Append(resumed, Head(waiters))
         /\ UNCHANGED <<timers, pumping>>

GoOn ==
    /\ micro # <<>> /\ Head(micro) = ResumeNext
    /\ Resume(turn, Tail(micro))
    /\ UNCHANGED <<now, lastTurn, marking, units, waited>>

RunMark ==
    /\ micro = <<>> /\ timers # <<>> /\ Head(timers) = "mark"
    /\ lastTurn' = now /\ marking' = FALSE /\ timers' = Tail(timers)
    /\ UNCHANGED <<now, waiters, pumping, turn, micro, units, waited, resumed>>

(* pump, up to its first microtask.  Its first look never stops: a pump is *)
(* set with a waiter there, and only a pump takes waiters away.            *)
RunPump ==
    /\ micro = <<>> /\ timers # <<>> /\ Head(timers) = "pump"
    /\ lastTurn' = now
    /\ turn' = [start |-> now, remaining |-> Len(waiters) - 1, resumed |-> TRUE]
    /\ micro' = <<Head(waiters), ResumeNext>>
    /\ waiters' = Tail(waiters) /\ resumed' = Append(resumed, Head(waiters))
    /\ timers' = Tail(timers)
    /\ UNCHANGED <<now, marking, pumping, units, waited>>

Next == (\E c \in Callers : MaybeYield(c) \/ Finish(c)) \/ GoOn \/ RunMark \/ RunPump

(* The event loop goes on. *)
Fairness == WF_vars(Next)

Spec == Init /\ [][Next]_vars /\ Fairness

-----------------------------------------------------------------------------
TypeOK ==
    /\ now \in Nat /\ lastTurn \in 0 .. now
    /\ waiters \in Seq(Callers) /\ micro \in Seq(Callers \cup {ResumeNext})
    /\ marking \in BOOLEAN /\ pumping \in BOOLEAN
    /\ units \in [Callers -> 0 .. MaxUnits]

Count(seq, x) == Cardinality({i \in DOMAIN seq : seq[i] = x})

(* Whoever waits has a pump coming: it is set once, or in the middle of    *)
(* its turn, never both, and a mark is set exactly while one is expected   *)
(* (yielder 50-99).                                                        *)
Pumped ==
    /\ waiters # <<>> => pumping
    /\ Count(timers, "pump") + Count(micro, ResumeNext) = IF pumping THEN 1 ELSE 0
    /\ Count(timers, "mark") = IF marking THEN 1 ELSE 0
    /\ Count(timers, "pump") = 1 => waiters # <<>>

(* Callers are resumed in the order in which they began to wait, and each  *)
(* waits, goes on or is through: none is resumed twice (yielder 39-42).    *)
FirstComeFirstServed ==
    /\ resumed \o waiters = waited
    /\ \A c \in Callers :
          Count(waiters, c) + Count(micro, c) <= 1
          /\ (Count(waiters, c) + Count(micro, c) = 0 => units[c] = 0)

YielderRight == TypeOK /\ Pumped /\ FirstComeFirstServed

(* A caller goes on without waiting only within the budget of a turn of    *)
(* the event loop, and a turn goes on to another waiter only within it     *)
(* (yielder 66, 90).                                                       *)
KeepsToBudget ==
    \A c \in Callers :
       (Count(micro', c) > 0 /\ micro # <<>> /\ Head(micro) \in {c, ResumeNext} /\ micro' # Tail(micro))
          => now' - lastTurn < Budget

(* Every caller gets through its work.                                     *)
Quiet == micro = <<>> /\ timers = <<>> /\ \A c \in Callers : units[c] = 0
=============================================================================
