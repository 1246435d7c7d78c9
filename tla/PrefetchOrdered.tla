-------------------------- MODULE PrefetchOrdered --------------------------
(***************************************************************************)
(* prefetchOrdered of @sozai/async: a generator that yields the results of *)
(* fetches in order and keeps a window of them started ahead of its        *)
(* consumer.                                                               *)
(***************************************************************************)
EXTENDS ConcurrentBounds, FiniteSets

VARIABLES
    count, window,
    pc,         \* where the generator stands
    index,      \* the fetch it is at, from 0 on
    started,    \* fetches 0 .. started - 1 are started
    fetched,    \* what they gave
    outer,      \* the caller's signal is aborted
    signalled,  \* the signal of the fetches is aborted
    yielded,    \* history: values the consumer has got
    ended       \* how the generator ended, "none" before it does

vars == <<count, window, pc, index, started, fetched, outer, signalled, yielded, ended>>

Fetch == 0..(count - 1)
Running == {i \in 0..(started - 1) : fetched[i] = "pending"}

(* new: not pulled yet; got, cut: the race of the awaited fetch with the   *)
(* signal is decided, and the generator has not continued yet.             *)
Pcs == {"new", "await", "got", "cut", "yield", "closing", "done"}

TypeOK ==
    /\ count \in 0..MaxItems /\ window \in 1..MaxLimit
    /\ pc \in Pcs /\ index \in 0..count /\ started \in 0..count
    /\ fetched \in [Fetch -> {"pending", "value", "error"}]
    /\ outer \in BOOLEAN /\ signalled \in BOOLEAN
    /\ yielded \in 0..count
    /\ ended \in {"none", "complete", "error", "aborted", "returned"}

Init ==
    /\ count \in 0..MaxItems /\ window \in 1..MaxLimit
    /\ pc = "new" /\ index = 0 /\ started = 0
    /\ fetched = [i \in Fetch |-> "pending"]
    /\ outer \in BOOLEAN /\ signalled = FALSE
    /\ yielded = 0 /\ ended = "none"

-----------------------------------------------------------------------------
Lesser(i, j) == IF i <= j THEN i ELSE j

(* How many fetches are started once start(n) has filled the window.       *)
Filled(n) == Lesser(n + window, count)

(* The finally block: the fetches in flight are aborted and awaited. *)
Close(how) == pc' = "closing" /\ ended' = how /\ signalled' = TRUE

(* A fetch that is started may abort the caller's signal itself: the       *)
(* window is then filled no further.                                       *)
Turn(i, stopped) ==
    /\ index' = i
    /\ IF i = count THEN Close("complete") /\ UNCHANGED <<started, outer>>
       ELSE IF stopped THEN Close("aborted") /\ UNCHANGED <<started, outer>>
       ELSE \/ /\ started' = Filled(i)
               /\ pc' = IF fetched[i] = "pending" THEN "await" ELSE "got"
               /\ UNCHANGED <<ended, outer, signalled>>
            \/ /\ started' \in (started + 1)..Filled(i) /\ outer' = TRUE /\ signalled' = TRUE
               /\ pc' = IF fetched[i] = "pending" THEN "cut" ELSE "got"
               /\ UNCHANGED ended

(* The consumer pulls: the first time, or after a value. *)
Pull ==
    /\ \/ pc = "new" /\ Turn(0, outer)
       \/ pc = "yield" /\ Turn(index + 1, signalled)
    /\ UNCHANGED <<count, window, fetched, yielded>>

(* The consumer leaves; a generator that was never pulled ends at once. *)
Return ==
    /\ \/ pc = "new" /\ pc' = "done" /\ ended' = "returned" /\ UNCHANGED signalled
       \/ pc = "yield" /\ Close("returned")
    /\ UNCHANGED <<count, window, index, started, fetched, outer, yielded>>

(* A fetch settles, heeding its signal or not. *)
Settle(i, what) ==
    /\ i \in Running
    /\ fetched' = [fetched EXCEPT ![i] = what]
    /\ pc' = IF pc = "await" /\ i = index THEN "got" ELSE pc
    /\ UNCHANGED <<count, window, index, started, outer, signalled, yielded, ended>>

Subscribed == pc \notin {"new", "closing", "done"}

(* The caller's signal; the generator listens from its first pull on. *)
Abort ==
    /\ ~outer /\ outer' = TRUE
    /\ signalled' = (signalled \/ Subscribed)
    /\ pc' = IF pc = "await" THEN "cut" ELSE pc
    /\ UNCHANGED <<count, window, index, started, fetched, yielded, ended>>

(* The awaited value: the window moves on, unless aborted, and it is       *)
(* yielded.                                                                *)
Yield ==
    /\ pc = "got" /\ fetched[index] = "value"
    /\ pc' = "yield" /\ yielded' = yielded + 1
    /\ \/ /\ started' = IF signalled THEN started ELSE Filled(index + 1)
          /\ UNCHANGED <<outer, signalled>>
       \/ /\ ~signalled /\ started' \in (started + 1)..Filled(index + 1)
          /\ outer' = TRUE /\ signalled' = TRUE
    /\ UNCHANGED <<count, window, index, fetched, ended>>

Fail ==
    /\ \/ pc = "got" /\ fetched[index] = "error" /\ Close("error")
       \/ pc = "cut" /\ Close("aborted")
    /\ UNCHANGED <<count, window, index, started, fetched, outer, yielded>>

Closed ==
    /\ pc = "closing" /\ Running = {} /\ pc' = "done"
    /\ UNCHANGED <<count, window, index, started, fetched, outer, signalled, yielded, ended>>

Over == pc = "done" /\ UNCHANGED vars

Next ==
    \/ Pull \/ Return \/ Yield \/ Fail \/ Closed \/ Abort \/ Over
    \/ \E i \in Fetch, what \in {"value", "error"} : Settle(i, what)

Spec == Init /\ [][Next]_vars

(* Fetches settle, and the consumer pulls until it leaves. *)
Fairness ==
    /\ WF_vars(\E i \in Fetch, what \in {"value", "error"} : Settle(i, what))
    /\ WF_vars(Pull) /\ WF_vars(Yield) /\ WF_vars(Fail) /\ WF_vars(Closed)

FairSpec == Spec /\ Fairness

-----------------------------------------------------------------------------
(* No more than window fetches are started and not yet yielded, and the    *)
(* one that is awaited is among them.                                      *)
WindowKept ==
    /\ started <= yielded + window
    /\ pc \in {"await", "got", "cut"} => index < started

(* The consumer gets a value for each fetch up to the first that fails,    *)
(* whatever settled ahead of it; and all of them when it ends by itself.   *)
RightEnd ==
    /\ \A i \in 0..(yielded - 1) : fetched[i] = "value"
    /\ ended = "complete" => yielded = count
    /\ ended = "error" => yielded < count /\ fetched[yielded] = "error"
    /\ ended = "aborted" => outer

(* A generator that has ended leaves no fetch behind. *)
NothingLeft == pc = "done" => Running = {}

(* After the abort of a generator that listens, at most the value whose    *)
(* race was decided already comes, and nothing more is fetched.            *)
AbortStep ==
    signalled =>
        /\ started' = started
        /\ yielded' # yielded => pc = "got"
        /\ pc # "got" => pc' # "got"

Quiet == pc = "done"
=============================================================================
