------------------------------ MODULE Disposer ------------------------------
(***************************************************************************)
(* async/disposer.ts: an object that is disposed of by its own dispose and *)
(* abort, or by an outside signal that may have aborted before it is       *)
(* built.  The constructor of a subclass runs in the same turn as that of  *)
(* the class, and may call dispose; a microtask cannot come in between.    *)
(***************************************************************************)
EXTENDS Naturals

CONSTANT HasCallback    \* whether a dispose callback is given: a set of booleans

VARIABLES hasCallback,
          outside,     \* the outside signal: "none", "live", "aborted"
          early,       \* it was aborted before
          pc,          \* the subclass is being built, or was, or its constructor threw
          deferred,    \* the microtask that disposes is due
          latch,       \* the pending reason: "outside" or "none"
          subscribed,  \* to the outside signal
          reason,      \* of our own signal, or "none"
          runs,        \* how often the callback was called
          callback,    \* "idle", "running", "over"
          disposed     \* the promise is resolved

vars == <<hasCallback, outside, early, pc, deferred, latch, subscribed, reason, runs, callback, disposed>>

Aborted == reason # "none"

Init ==
    /\ hasCallback \in HasCallback
    /\ outside \in {"none", "live", "aborted"} /\ early = (outside = "aborted")
    /\ pc = "building"
    /\ deferred = early /\ latch = IF early THEN "outside" ELSE "none"
    /\ subscribed = (outside = "live")
    /\ reason = "none" /\ runs = 0 /\ callback = "idle" /\ disposed = FALSE

(* Our signal aborts for a reason: its listener, which runs once.          *)
AbortFor(r) ==
    /\ reason' = IF Aborted THEN reason ELSE r
    /\ IF Aborted
       THEN UNCHANGED <<latch, subscribed, runs, callback, disposed>>
       ELSE /\ latch' = "none" /\ subscribed' = FALSE
            /\ IF hasCallback
               THEN runs' = runs + 1 /\ callback' = "running" /\ UNCHANGED disposed
               ELSE disposed' = TRUE /\ UNCHANGED <<runs, callback>>

(* Mutant: the reason of a dispose without one is its own.                 *)
DisposeUnlatched(r) ==
    /\ AbortFor(IF r # "none" THEN r ELSE "dispose")
    /\ UNCHANGED <<hasCallback, outside, early, pc, deferred>>

(* dispose, with a reason or none.                                         *)
DisposeFor(r) ==
    /\ AbortFor(CASE r # "none" -> r
                  [] r = "none" /\ latch # "none" -> latch
                  [] OTHER -> "dispose")
    /\ UNCHANGED <<hasCallback, outside, early, pc, deferred>>

(* Called by the subclass's constructor or by whoever has the object.      *)
DisposeCall == pc # "threw" /\ \E r \in {"none", "given"} : DisposeFor(r)

(* abort of the controller itself, which knows no latch.                   *)
AbortCall == pc # "threw" /\ AbortFor("given") /\ UNCHANGED <<hasCallback, outside, early, pc, deferred>>

Built ==
    /\ pc = "building" /\ pc' \in {"built", "threw"}
    /\ UNCHANGED <<hasCallback, outside, early, deferred, latch, subscribed, reason, runs, callback, disposed>>

(* The microtask of a signal that had aborted.                             *)
Deferred ==
    /\ deferred /\ pc # "building"
    /\ deferred' = FALSE
    /\ AbortFor("outside")
    /\ UNCHANGED <<hasCallback, outside, early, pc>>

OutsideAborts ==
    /\ outside = "live" /\ outside' = "aborted"
    /\ IF subscribed
       THEN AbortFor("outside")
       ELSE UNCHANGED <<reason, latch, subscribed, runs, callback, disposed>>
    /\ UNCHANGED <<hasCallback, early, pc, deferred>>

(* The callback fulfils or rejects; a handler of its error may throw too:  *)
(* the promise resolves all the same.                                      *)
CallbackSettles ==
    /\ pc # "building" /\ callback = "running"
    /\ callback' = "over" /\ disposed' = TRUE
    /\ UNCHANGED <<hasCallback, outside, early, pc, deferred, latch, subscribed, reason, runs>>

Next == DisposeCall \/ AbortCall \/ Built \/ Deferred \/ OutsideAborts \/ CallbackSettles

(* The constructor returns, microtasks run and callbacks settle.           *)
Fairness == WF_vars(Built) /\ WF_vars(Deferred) /\ WF_vars(CallbackSettles)

Spec == Init /\ [][Next]_vars /\ Fairness

-----------------------------------------------------------------------------
TypeOK ==
    /\ hasCallback \in BOOLEAN /\ outside \in {"none", "live", "aborted"} /\ early \in BOOLEAN
    /\ pc \in {"building", "built", "threw"} /\ deferred \in BOOLEAN
    /\ latch \in {"none", "outside"} /\ subscribed \in BOOLEAN
    /\ reason \in {"none", "outside", "given", "dispose"}
    /\ callback \in {"idle", "running", "over"} /\ disposed \in BOOLEAN

(* The callback runs once at the most, as soon as the signal aborts, and   *)
(* the promise waits for it.                                               *)
DisposedOnce ==
    /\ runs = IF hasCallback /\ Aborted THEN 1 ELSE 0
    /\ disposed <=> Aborted /\ (hasCallback => callback = "over")

(* Whoever disposes of an object whose outside signal had aborted before   *)
(* it was built, the reason is the outside's, but for one given by the     *)
(* caller (disposer 26-30, 80-83, 93-95).                                  *)
ReasonKept == early /\ Aborted => reason \in {"outside", "given"}

DisposerRight == TypeOK /\ DisposedOnce /\ ReasonKept

(* An outside abort ends in disposal, also when the constructor threw.     *)
Quiet == outside = "aborted" \/ Aborted => disposed
=============================================================================
