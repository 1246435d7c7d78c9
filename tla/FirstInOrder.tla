---------------------------- MODULE FirstInOrder ----------------------------
(***************************************************************************)
(* firstInOrder of @sozai/async: hedged failover over a list of items.     *)
(* Calls run up to limit at a time and settle in any order, whether or not *)
(* they heed their signal; the earliest item that hits wins once all those *)
(* before it have missed.                                                  *)
(***************************************************************************)
EXTENDS ConcurrentBounds, FiniteSets

VARIABLES
    items,      \* the length of the list
    limit,
    slots,      \* what the settled calls gave, as recorded while undecided
    inflight,
    signalled,  \* calls in flight whose signal is aborted
    next,       \* the next item to start
    bound,      \* the lowest hit, items + 1 before there is one
    outcome,    \* "none", or how it was decided
    winner,     \* the item that won, 0 when there is none
    answered,   \* the promise has settled
    result      \* history: what each call gave, recorded or not

vars == <<items, limit, slots, inflight, signalled, next, bound, outcome, winner, answered, result>>

Item == 1..items
Results == {"miss", "hit", "error"}
Outcomes == {"hit", "null", "errors", "reason"}

TypeOK ==
    /\ items \in 0..MaxItems /\ limit \in 1..MaxLimit
    /\ slots \in [Item -> Results \cup {"pending"}]
    /\ result \in [Item -> Results \cup {"pending"}]
    /\ signalled \subseteq inflight /\ inflight \subseteq Item
    /\ next \in 1..(items + 1) /\ bound \in 1..(items + 1)
    /\ outcome \in Outcomes \cup {"none"} /\ winner \in 0..items
    /\ answered \in BOOLEAN

-----------------------------------------------------------------------------
(* advance: the items up to the first that is pending or hit have missed.  *)
Open(s) == {i \in DOMAIN s : s[i] \in {"pending", "hit"}}

First(s) == CHOOSE i \in Open(s) : \A j \in Open(s) : i <= j

(* Mutant: a hit wins before the items in front of it have settled. *)
VerdictEager(s) ==
    IF \E i \in DOMAIN s : s[i] = "hit" THEN "hit"
    ELSE IF Open(s) # {} THEN "none"
    ELSE IF DOMAIN s # {} /\ \A i \in DOMAIN s : s[i] = "error" THEN "errors" ELSE "null"

Verdict(s) ==
    IF Open(s) # {} THEN IF s[First(s)] = "hit" THEN "hit" ELSE "none"
    ELSE IF DOMAIN s # {} /\ \A i \in DOMAIN s : s[i] = "error" THEN "errors" ELSE "null"

Winner(s) == IF Verdict(s) = "hit" THEN First(s) ELSE 0

(* decide: every call in flight is signalled; the winner's has settled. *)
Decide(how, who, running) ==
    /\ outcome' = how /\ winner' = who
    /\ signalled' = running
    /\ inflight' = running

Lesser(i, j) == IF i <= j THEN i ELSE j

(* How many calls pump starts: below the limit, and below the lowest hit.  *)
Room(from, running, low) ==
    IF from >= low \/ Cardinality(running) >= limit THEN 0
    ELSE Lesser(limit - Cardinality(running), low - from)

(* pump, while nothing is decided.  A call may abort the caller's signal   *)
(* while it is being started, which decides before the next one starts.    *)
Pump(running, low, warned) ==
    LET room == Room(next, running, low)
        after(n) == running \cup next..(next + n - 1)
    IN  \/ /\ inflight' = after(room) /\ next' = next + room
           /\ signalled' = warned
           /\ UNCHANGED <<outcome, winner>>
        \/ \E n \in 1..room : Decide("reason", 0, after(n)) /\ next' = next + n

(* maybeFinish *)
Finish == answered' = (outcome' # "none" /\ inflight' = {})

-----------------------------------------------------------------------------
(* The call: it is decided for an empty list, or when the signal is        *)
(* aborted already or by one of the first calls; else these are running.   *)
Init ==
    /\ items \in 0..MaxItems /\ limit \in 1..MaxLimit
    /\ slots = [i \in Item |-> "pending"] /\ result = slots
    /\ bound = items + 1 /\ winner = 0
    /\ \/ /\ outcome = Verdict(slots) /\ next = 1 + Room(1, {}, bound) /\ signalled = {}
       \/ /\ outcome = "reason" /\ next \in 1..(1 + Room(1, {}, bound))
          /\ signalled = 1..(next - 1)
    /\ inflight = 1..(next - 1) /\ answered = (outcome # "none" /\ inflight = {})

(* The calls a new lowest hit leaves without a chance. *)
Beyond(i, low, running) == IF low = i THEN {j \in running : j > i} ELSE {}

(* settle, while nothing is decided: record, advance, pump, maybeFinish. *)
SettleOpen(i, what) ==
    LET running == inflight \ {i}
        seen == [slots EXCEPT ![i] = what]
        low == IF what = "hit" /\ i < bound THEN i ELSE bound
        warned == (signalled \ {i}) \cup Beyond(i, low, running)
    IN  /\ outcome = "none"
        /\ slots' = seen /\ bound' = low
        /\ IF Verdict(seen) # "none"
           THEN Decide(Verdict(seen), Winner(seen), running) /\ UNCHANGED next
           ELSE Pump(running, low, warned)

(* settle, once decided: only the count goes down. *)
SettleLate(i) ==
    /\ outcome # "none"
    /\ inflight' = inflight \ {i} /\ signalled' = signalled \ {i}
    /\ UNCHANGED <<slots, bound, next, outcome, winner>>

Settle(i, what) ==
    /\ i \in inflight
    /\ result' = [result EXCEPT ![i] = what]
    /\ SettleOpen(i, what) \/ SettleLate(i)
    /\ Finish
    /\ UNCHANGED <<items, limit>>

(* The caller's signal. *)
Abort ==
    /\ outcome = "none"
    /\ Decide("reason", 0, inflight)
    /\ Finish
    /\ UNCHANGED <<items, limit, slots, next, bound, result>>

Over == answered /\ UNCHANGED vars

Next == (\E i \in Item, what \in Results : Settle(i, what)) \/ Abort \/ Over

Spec == Init /\ [][Next]_vars

(* Every call settles; an abort may never come. *)
Fairness == WF_vars(\E i \in Item, what \in Results : Settle(i, what))

FairSpec == Spec /\ Fairness

-----------------------------------------------------------------------------
(* The promised answer, read off what the calls gave: the earliest hit     *)
(* with only misses before it; null after misses only; an error when every *)
(* item of a list that is not empty rejected.  The rest is an abort.       *)
Missed(i) == result[i] \in {"miss", "error"}

RightAnswer ==
    /\ outcome = "hit" => result[winner] = "hit" /\ \A j \in 1..(winner - 1) : Missed(j)
    /\ outcome = "null" => /\ \A i \in Item : Missed(i)
                           /\ items > 0 => \E i \in Item : result[i] = "miss"
    /\ outcome = "errors" => items > 0 /\ \A i \in Item : result[i] = "error"

(* No call outlives the promise, and there are never more than limit.      *)
Contained ==
    /\ Cardinality(inflight) <= limit
    /\ answered => inflight = {}

Beaten(i) == outcome # "none" \/ \E j \in 1..(i - 1) : slots[j] = "hit"

(* A call in flight is told to stop exactly when it can no longer win: a   *)
(* call that still could is never disturbed.                               *)
SignalsExact == signalled = {i \in inflight : Beaten(i)}

(* A call is only started while it can still win, each item once and in    *)
(* list order.                                                             *)
StartStep ==
    \A i \in inflight' \ inflight :
        /\ outcome = "none" /\ result[i] = "pending"
        /\ \A j \in Item : j < i => slots'[j] # "hit" /\ (j \in inflight' \/ result'[j] # "pending")

(* What comes: the promise settles, as an undecided hunt always has a call *)
(* in flight.                                                              *)
Quiet == answered
=============================================================================
