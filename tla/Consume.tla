------------------------------ MODULE Consume ------------------------------
(***************************************************************************)
(* consume of generator/index.ts: an iterator's values go to a callback,   *)
(* one at a time, until the iterator ends, fails, the callback fails or    *)
(* the signal aborts.  A step is one reaction of the event loop; the abort *)
(* comes between any two of them.  Values are numbered.                    *)
(***************************************************************************)
EXTENDS Naturals

CONSTANT MaxValues    \* bound of the iterator

VARIABLES pc,         \* where pull stands
          source,     \* how many values the iterator gave
          given,      \* how many the callback was given
          aborted, closed,
          returned,   \* calls of the iterator's return
          ended       \* the promise, and what settled it

vars == <<pc, source, given, aborted, closed, returned, ended>>

(* next: the iterator's next is awaited; value, done, threw: it came to    *)
(* that and pull has not gone on yet; callback: it is awaited; called,     *)
(* failed: likewise.                                                       *)
Pcs == {"next", "value", "done", "threw", "callback", "called", "failed", "over"}

Settled(how) == ended' = IF ended = "pending" THEN how ELSE ended

Close == closed' = TRUE /\ returned' = IF closed THEN returned ELSE returned + 1

(* onAbort runs its callback at once when the signal is aborted already.   *)
Init ==
    /\ aborted \in BOOLEAN /\ closed = aborted
    /\ returned = IF aborted THEN 1 ELSE 0
    /\ ended = IF aborted THEN "aborted" ELSE "pending"
    /\ pc = IF aborted THEN "over" ELSE "next"
    /\ source = 0 /\ given = 0

(* The iterator's answer.                                                  *)
Answer ==
    /\ pc = "next"
    /\ \/ pc' \in {"done", "threw"} /\ UNCHANGED source
       \/ source < MaxValues /\ source' = source + 1 /\ pc' = "value"
    /\ UNCHANGED <<given, aborted, closed, returned, ended>>

(* pull, after the await of next.                                          *)
Continue ==
    /\ \/ /\ pc = "value" /\ ~aborted
          /\ pc' = "callback" /\ given' = given + 1
          /\ UNCHANGED <<closed, returned, ended>>
       \/ /\ pc = "done" \/ (pc = "value" /\ aborted)
          /\ IF aborted THEN UNCHANGED ended ELSE Settled("returned")
          /\ Close /\ pc' = "over" /\ UNCHANGED given
    /\ UNCHANGED <<source, aborted>>

CallbackSettles ==
    /\ pc = "callback"
    /\ pc' \in {"called", "failed"}
    /\ UNCHANGED <<source, given, aborted, closed, returned, ended>>

(* pull once more, up to its call of next.                                 *)
PullAgain ==
    /\ pc = "called"
    /\ pc' = IF aborted THEN "over" ELSE "next"
    /\ UNCHANGED <<source, given, aborted, closed, returned, ended>>

Catch ==
    /\ pc \in {"threw", "failed"}
    /\ Close /\ Settled(pc) /\ pc' = "over"
    /\ UNCHANGED <<source, given, aborted>>

(* The signal's listener, which close removes.                             *)
Abort ==
    /\ ~aborted /\ aborted' = TRUE
    /\ IF closed THEN UNCHANGED <<closed, returned, ended>> ELSE Close /\ Settled("aborted")
    /\ UNCHANGED <<pc, source, given>>

Next == Answer \/ Continue \/ CallbackSettles \/ PullAgain \/ Catch \/ Abort

(* The iterator and the callback answer; an abort need not come.           *)
Fairness == WF_vars(Answer) /\ WF_vars(Continue \/ CallbackSettles \/ PullAgain \/ Catch)

Spec == Init /\ [][Next]_vars /\ Fairness

-----------------------------------------------------------------------------
TypeOK ==
    /\ pc \in Pcs /\ source \in 0 .. MaxValues /\ given \in 0 .. MaxValues
    /\ aborted \in BOOLEAN /\ closed \in BOOLEAN
    /\ ended \in {"pending", "returned", "threw", "failed", "aborted"}

(* The iterator's clean-up runs once, and not after the promise settled    *)
(* with no clean-up: a settled promise has a closed iterator and the other *)
(* way round (generator 25-45, 64).                                        *)
ClosedOnce ==
    /\ returned = IF closed THEN 1 ELSE 0
    /\ closed <=> ended # "pending"
    /\ ended = "aborted" => aborted

(* The callback gets the values in turn, one at a time, and at most the    *)
(* last one is dropped, when an abort came between its arrival and the     *)
(* callback.                                                               *)
NoneSkipped ==
    /\ given <= source /\ source <= given + 1
    /\ source = given + 1 => pc = "value" \/ aborted

ConsumeRight == TypeOK /\ ClosedOnce /\ NoneSkipped

(* Nothing is asked of the iterator, and nothing given to the callback,    *)
(* once the iterator is closed.                                            *)
NothingAfterClose == (given' > given \/ (pc # "next" /\ pc' = "next")) => ~closed /\ ~aborted

(* The promise settles as soon as there is nothing to wait for; an abort   *)
(* settles it whatever is awaited.                                         *)
Quiet == aborted \/ source = MaxValues => ended # "pending"
=============================================================================
