---------------------------- MODULE MCConcurrent ----------------------------
(***************************************************************************)
(* One call of one of the three functions of concurrent.ts.  The other two *)
(* rest in the state of a call that is over.                               *)
(***************************************************************************)
EXTENDS ConcurrentBounds

VARIABLES items, limit, slots, inflight, signalled, next, bound, outcome, winner, answered, result

first ==
    <<items, limit, slots, inflight, signalled, next, bound, outcome, winner, answered, result>>

First == INSTANCE FirstInOrder

VARIABLES mItems, mLimit, mNext, running, results, failure, mSignalled, answer, lost

map == <<mItems, mLimit, mNext, running, results, failure, mSignalled, answer, lost>>

Map == INSTANCE MapConcurrent
    WITH items <- mItems, limit <- mLimit, next <- mNext, signalled <- mSignalled

VARIABLES count, window, pc, index, started, fetched, outer, pSignalled, yielded, ended

prefetch ==
    <<count, window, pc, index, started, fetched, outer, pSignalled, yielded, ended>>

Prefetch == INSTANCE PrefetchOrdered WITH signalled <- pSignalled

-----------------------------------------------------------------------------
FirstOver == First!Init /\ items = 0 /\ limit = 1 /\ outcome = "null"

MapOver ==
    /\ mItems = 0 /\ mLimit = 1 /\ mNext = 1 /\ running = {} /\ results = {} /\ lost = <<>>
    /\ failure = Map!NoFailure /\ mSignalled = FALSE /\ answer = "results"

PrefetchOver ==
    /\ count = 0 /\ window = 1 /\ pc = "done" /\ index = 0 /\ started = 0 /\ fetched = <<>>
    /\ outer = FALSE /\ pSignalled = FALSE /\ yielded = 0 /\ ended = "returned"

ConcurrentInit ==
    \/ First!Init /\ MapOver /\ PrefetchOver
    \/ Map!Init /\ FirstOver /\ PrefetchOver
    \/ Prefetch!Init /\ FirstOver /\ MapOver

ConcurrentNext ==
    \/ First!Next /\ UNCHANGED <<map, prefetch>>
    \/ Map!Next /\ UNCHANGED <<first, prefetch>>
    \/ Prefetch!Next /\ UNCHANGED <<first, map>>

ConcurrentFairness == First!Fairness /\ Map!Fairness /\ Prefetch!Fairness

-----------------------------------------------------------------------------
(* firstInOrder gives the promised answer, within its limit, and signals   *)
(* exactly the calls that cannot win any more.                             *)
FirstInOrderRight ==
    First!TypeOK /\ First!RightAnswer /\ First!Contained /\ First!SignalsExact

(* mapConcurrent gives every result, or what failed first, and drops no    *)
(* item.                                                                   *)
MapConcurrentRight == Map!TypeOK /\ Map!RightAnswer /\ Map!Accounted

(* prefetchOrdered yields in order, up to the first failure, keeps to its  *)
(* window and leaves no fetch behind.                                      *)
PrefetchOrderedRight ==
    Prefetch!TypeOK /\ Prefetch!WindowKept /\ Prefetch!RightEnd /\ Prefetch!NothingLeft

(* No call starts that cannot matter any more, in any of the three.        *)
ConcurrentVainStep == First!StartStep /\ Map!StopStep /\ Prefetch!AbortStep

(* Each of the three promises has settled. *)
ConcurrentQuiet == First!Quiet /\ Map!Quiet /\ Prefetch!Quiet
=============================================================================
