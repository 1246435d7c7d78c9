--------------------------- MODULE MapConcurrent ---------------------------
(***************************************************************************)
(* mapConcurrent of @sozai/async: workers take the items of a list in turn *)
(* and settle in any order; the first failure, or the caller's signal,     *)
(* stops them, and the promise waits for what is still in flight.          *)
(***************************************************************************)
EXTENDS ConcurrentBounds, Sequences, FiniteSets

VARIABLES
    items,      \* the length of the list
    limit,
    next,       \* the next item a worker takes
    running,    \* items whose call is in flight, one per worker at work
    results,    \* items whose result is recorded
    failure,    \* what stopped the workers: an item, "reason", or "none"
    signalled,  \* the signal of the calls is aborted
    answer,     \* "none" until the promise settles
    lost        \* history: the calls that rejected, and 0 for an abort, in order

vars == <<items, limit, next, running, results, failure, signalled, answer, lost>>

Item == 1..items
Reason == 0     \* the caller's signal, where an item stands for its error
NoFailure == MaxItems + 1

TypeOK ==
    /\ items \in 0..MaxItems /\ limit \in 1..MaxLimit
    /\ next \in 1..(items + 1)
    /\ running \subseteq Item /\ results \subseteq Item \ running
    /\ failure \in Item \cup {Reason, NoFailure}
    /\ signalled \in BOOLEAN /\ answer \in {"none", "results", "failure"}
    /\ lost \in Seq(Item \cup {Reason})

-----------------------------------------------------------------------------
(* fail: the first error is kept, and aborts the calls' signal. *)
Fail(error) ==
    /\ failure' = IF failure = NoFailure THEN error ELSE failure
    /\ signalled' = TRUE

Noted(error) == lost' = Append(lost, error)

Lost == {lost[i] : i \in DOMAIN lost}

Workers == IF items < limit THEN items ELSE limit

(* The call: the workers start one after the other, unless the signal is   *)
(* aborted already, or the start of a call aborts it.                      *)
Init ==
    /\ items \in 0..MaxItems /\ limit \in 1..MaxLimit
    /\ results = {} /\ answer = "none"
    /\ \/ failure = NoFailure /\ next = Workers + 1 /\ lost = <<>>
       \/ failure = Reason /\ next \in 1..(Workers + 1) /\ lost = <<Reason>>
    /\ signalled = (failure # NoFailure)
    /\ running = 1..(next - 1)

(* The worker's loop: the next item, while there is one and none failed. *)
Continue(rest) ==
    IF failure = NoFailure /\ next <= items
    THEN running' = rest \cup {next} /\ next' = next + 1
    ELSE running' = rest /\ UNCHANGED next

Resolve(i) ==
    /\ i \in running
    /\ results' = results \cup {i}
    /\ Continue(running \ {i})
    /\ UNCHANGED <<items, limit, failure, signalled, answer, lost>>

Reject(i) ==
    /\ i \in running
    /\ Fail(i) /\ Noted(i)
    /\ running' = running \ {i}
    /\ UNCHANGED <<items, limit, next, results, answer>>

(* The caller's signal, also between the last call and the answer. *)
Abort ==
    /\ answer = "none" /\ Reason \notin Lost
    /\ Fail(Reason) /\ Noted(Reason)
    /\ UNCHANGED <<items, limit, next, running, results, answer>>

(* Every worker has returned. *)
Answer ==
    /\ answer = "none" /\ running = {}
    /\ answer' = IF failure = NoFailure THEN "results" ELSE "failure"
    /\ UNCHANGED <<items, limit, next, running, results, failure, signalled, lost>>

Over == answer # "none" /\ running = {} /\ UNCHANGED vars

Next == (\E i \in Item : Resolve(i) \/ Reject(i)) \/ Abort \/ Answer \/ Over

Spec == Init /\ [][Next]_vars

(* Every call settles; an abort may never come. *)
Fairness == WF_vars(\E i \in Item : Resolve(i) \/ Reject(i)) /\ WF_vars(Answer)

FairSpec == Spec /\ Fairness

-----------------------------------------------------------------------------
(* It resolves with a result of every item, or rejects with the error that *)
(* came first, and only once no call is in flight.                         *)
RightAnswer ==
    /\ answer = "results" => results = Item
    /\ answer = "failure" => failure = lost[1]
    /\ answer # "none" => running = {}

(* There are never more than limit calls in flight, and every item that    *)
(* was started is in flight, recorded or lost: no worker drops one.        *)
Accounted ==
    /\ Cardinality(running) <= limit
    /\ 1..(next - 1) = running \cup results \cup (Lost \ {Reason})

(* No call starts after a failure or an abort, and those in flight hear of *)
(* it in the same step.                                                    *)
StopStep ==
    /\ running' \subseteq running \/ (failure = NoFailure /\ failure' = NoFailure)
    /\ lost' # lost => signalled'

Quiet == answer # "none"
=============================================================================
