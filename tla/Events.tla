------------------------------- MODULE Events -------------------------------
(***************************************************************************)
(* One event of an emitter (event/index.ts) with its kinds of listener: a  *)
(* user's own, a once, a readable, and an iterator of fromEmitter          *)
(* (generator/index.ts) whose consumer may have several reads waiting.     *)
(*                                                                         *)
(* An emission calls its listeners one after the other in one turn; only a *)
(* user's listener can do something in between: emit again, subscribe,     *)
(* unsubscribe, abort, read.  An event is the number of its emission.      *)
(***************************************************************************)
EXTENDS Naturals, FiniteSets, Sequences

CONSTANTS MaxEvents, MaxDepth, MaxListeners, MaxReads    \* bounds: MaxDepth of nested emissions

(* Of a user's two listeners one does nothing but be there.                *)
Kinds == {"user", "idle", "once", "readable", "iterator"}

VARIABLES listeners,    \* the set
          place,        \* where in it each was put, which is once; 0 is not yet
          stack,        \* emissions in progress, the innermost last
          emitted,      \* how many emissions began
          once,         \* the promise: Pending, an event, or Over when it rejected
          readable,     \* the stream is "unset", "open" or "closed"
          closedIn,     \* history: the emissions that were going on when it closed
          isDone, queue, pending,    \* of the iterator
          reads,        \* what its reads came to, in order of the calls
          delivered,    \* history: the events each listener was called with
          failures      \* history: emissions with a listener that failed, and why

vars == <<listeners, place, stack, emitted, once, readable, closedIn, isDone,
          queue, pending, reads, delivered, failures>>

iterator == <<isDone, queue, pending, reads>>
streams == <<once, readable, closedIn>>

Events == 1 .. MaxEvents

(* What a promise is that has not settled, and one that settled without an *)
(* event.                                                                  *)
Pending == 0

Over == MaxEvents + 1

-----------------------------------------------------------------------------
Init ==
    /\ listeners = {} /\ place = [k \in Kinds |-> 0] /\ stack = <<>> /\ emitted = 0
    /\ once = Pending /\ readable = "unset" /\ closedIn = {}
    /\ isDone = FALSE /\ queue = <<>> /\ pending = <<>> /\ reads = <<>>
    /\ delivered = [k \in Kinds |-> <<>>]
    /\ failures = {}

Top == stack[Len(stack)]

Subscribed == {k \in Kinds : place[k] # 0}

(* User code runs: outside of any emission, or in a user's listener.       *)
UserRuns == stack # <<>> => Top.inside

Subscribe(k) ==
    /\ UserRuns /\ k \notin Subscribed /\ Cardinality(Subscribed) < MaxListeners
    /\ place' = [place EXCEPT ![k] = 1 + Cardinality(Subscribed)]
    /\ listeners' = listeners \cup {k}
    /\ readable' = IF k = "readable" THEN "open" ELSE readable
    /\ UNCHANGED <<stack, emitted, once, closedIn, iterator, delivered, failures>>

(* Mutant: an emission goes on through the live set of listeners.          *)
UnsubscribeLive ==
    /\ UserRuns /\ "idle" \in listeners
    /\ listeners' = listeners \ {"idle"}
    /\ stack' = [i \in DOMAIN stack |-> [stack[i] EXCEPT !.rest = @ \ {"idle"}]]
    /\ UNCHANGED <<place, emitted, streams, iterator, delivered, failures>>

(* off of a user's listener, and the abort of the signal it was given.     *)
Unsubscribe ==
    /\ UserRuns /\ "idle" \in listeners
    /\ listeners' = listeners \ {"idle"}
    /\ UNCHANGED <<place, stack, emitted, streams, iterator, delivered, failures>>

(* The signal of a once aborts: it rejects unless it has its event.        *)
AbortOnce ==
    /\ UserRuns /\ "once" \in Subscribed /\ once = Pending
    /\ once' = Over /\ listeners' = listeners \ {"once"}
    /\ UNCHANGED <<place, stack, emitted, readable, closedIn, iterator, delivered, failures>>

InProgress == {stack[i].event : i \in DOMAIN stack}

(* The signal of a readable aborts, or its reader cancels.                 *)
CloseReadable ==
    /\ UserRuns /\ readable = "open"
    /\ readable' = "closed" /\ listeners' = listeners \ {"readable"} /\ closedIn' = InProgress
    /\ UNCHANGED <<place, stack, emitted, once, iterator, delivered, failures>>

(* emit, up to the first call: it takes a copy of the set.                 *)
Emit ==
    /\ UserRuns /\ emitted < MaxEvents /\ Len(stack) < MaxDepth
    /\ emitted' = emitted + 1
    /\ stack' = Append(stack, [event |-> emitted + 1, rest |-> listeners, start |-> listeners,
                               inside |-> FALSE])
    /\ UNCHANGED <<listeners, place, streams, iterator, delivered, failures>>

-----------------------------------------------------------------------------
(* Of those that are left the one that was put in first.                   *)
Calls(k, inside) ==
    /\ stack # <<>> /\ ~Top.inside
    /\ k \in Top.rest /\ \A l \in Top.rest : place[k] <= place[l]
    /\ delivered' = [delivered EXCEPT ![k] = Append(@, Top.event)]
    /\ stack' = [stack EXCEPT ![Len(stack)].rest = @ \ {k}, ![Len(stack)].inside = inside]

CallUser ==
    /\ Calls("user", TRUE)
    /\ UNCHANGED <<listeners, place, emitted, streams, iterator, failures>>

CallIdle ==
    /\ Calls("idle", FALSE)
    /\ UNCHANGED <<listeners, place, emitted, streams, iterator, failures>>

(* The listener returns, and what it returned fulfils or fails.            *)
UserReturns ==
    /\ stack # <<>> /\ Top.inside
    /\ stack' = [stack EXCEPT ![Len(stack)].inside = FALSE]
    /\ failures' \in {failures, failures \cup {<<Top.event, "user">>}}
    /\ UNCHANGED <<listeners, place, emitted, streams, iterator, delivered>>

(* A promise that is settled stays as it is.                               *)
CallOnce ==
    /\ Calls("once", FALSE)
    /\ listeners' = listeners \ {"once"}
    /\ once' = IF once = Pending THEN Top.event ELSE once
    /\ UNCHANGED <<place, emitted, readable, closedIn, iterator, failures>>

(* enqueue throws on a stream that is closed.                              *)
CallReadable ==
    /\ Calls("readable", FALSE)
    /\ failures' = IF readable = "closed" THEN failures \cup {<<Top.event, "closed">>} ELSE failures
    /\ UNCHANGED <<listeners, place, emitted, streams, iterator>>

CallIterator ==
    /\ Calls("iterator", FALSE)
    /\ IF pending = <<>>
       THEN queue' = Append(queue, Top.event) /\ UNCHANGED <<pending, reads>>
       ELSE /\ reads' = [reads EXCEPT ![Head(pending)] = Top.event]
            /\ pending' = Tail(pending) /\ UNCHANGED queue
    /\ UNCHANGED <<listeners, place, emitted, streams, isDone, failures>>

EmissionEnds ==
    /\ stack # <<>> /\ ~Top.inside /\ Top.rest = {}
    /\ stack' = SubSeq(stack, 1, Len(stack) - 1)
    /\ UNCHANGED <<listeners, place, emitted, streams, iterator, delivered, failures>>

-----------------------------------------------------------------------------
(* next of the iterator.                                                   *)
Read ==
    /\ UserRuns /\ "iterator" \in Subscribed /\ Len(reads) < MaxReads
    /\ CASE isDone -> reads' = Append(reads, Over) /\ UNCHANGED <<queue, pending>>
         [] ~isDone /\ queue # <<>> ->
                reads' = Append(reads, Head(queue)) /\ queue' = Tail(queue) /\ UNCHANGED pending
         [] OTHER ->
                /\ reads' = Append(reads, Pending)
                /\ pending' = Append(pending, Len(reads) + 1) /\ UNCHANGED queue
    /\ UNCHANGED <<listeners, place, stack, emitted, streams, isDone, delivered, failures>>

(* stop: by return, throw, disposal or the signal.                         *)
Stop ==
    /\ UserRuns /\ "iterator" \in Subscribed /\ ~isDone
    /\ isDone' = TRUE /\ listeners' = listeners \ {"iterator"}
    /\ reads' = [i \in DOMAIN reads |-> IF reads[i] = Pending THEN Over ELSE reads[i]]
    /\ pending' = <<>>
    /\ UNCHANGED <<place, stack, emitted, streams, queue, delivered, failures>>

Next ==
    \/ \E k \in Kinds : Subscribe(k)
    \/ Unsubscribe \/ AbortOnce \/ CloseReadable \/ Emit
    \/ CallUser \/ CallIdle \/ UserReturns \/ CallOnce \/ CallReadable \/ CallIterator \/ EmissionEnds
    \/ Read \/ Stop

Spec == Init /\ [][Next]_vars

-----------------------------------------------------------------------------
TypeOK ==
    /\ listeners \subseteq Subscribed /\ place \in [Kinds -> Nat]
    /\ Len(stack) <= MaxDepth /\ emitted \in 0 .. MaxEvents
    /\ once \in Events \cup {Pending, Over}
    /\ readable \in {"unset", "open", "closed"} /\ isDone \in BOOLEAN
    /\ queue \in Seq(Events) /\ pending \in Seq(1 .. MaxReads)
    /\ reads \in Seq(Events \cup {Pending, Over}) /\ Len(reads) <= MaxReads

(* What a listener was called with.                                        *)
Got(k) == {delivered[k][i] : i \in DOMAIN delivered[k]}

(* A listener gets an event once, and every event that began while it was  *)
(* subscribed; one that subscribes or leaves during an emission does not    *)
(* change who gets it (event 151-162).                                     *)
EachOnce ==
    /\ \A k \in Kinds : \A i, j \in DOMAIN delivered[k] :
          delivered[k][i] = delivered[k][j] => i = j
    /\ \A i \in DOMAIN stack, k \in Kinds :
          stack[i].event \in Got(k) <=> k \in stack[i].start \ stack[i].rest

(* A once settles with the first event it was called with, which in nested *)
(* emissions need not be the first that began, and leaves the set          *)
(* (event 114-139).                                                        *)
OnceFirst ==
    /\ once \in Events => delivered["once"] # <<>> /\ once = delivered["once"][1]
    /\ once # Pending => "once" \notin listeners
    /\ once = Pending => delivered["once"] = <<>>

(* An emission fails only for a listener of a user, or for a readable that *)
(* was closed while that same emission was going on (event 141-168, 205).  *)
FailsForAReason ==
    \A f \in failures :
        f[2] = "closed" => readable = "closed" /\ f[1] \in closedIn

(* What the iterator's reads come to is what its listener was called with, *)
(* in that order, and nothing between two of them is lost; reads are       *)
(* answered in the order of the calls, and none waits while an event is    *)
(* there or the iterator is over (generator 81-137).                       *)
Answered == Cardinality({i \in DOMAIN reads : reads[i] \in Events})

ReadsInOrder ==
    /\ Len(delivered["iterator"]) = Answered + Len(queue)
    /\ \A i \in DOMAIN reads : reads[i] \in Events =>
          i <= Answered /\ reads[i] = delivered["iterator"][i]
    /\ \A i \in DOMAIN queue : queue[i] = delivered["iterator"][Answered + i]
    /\ pending # <<>> => queue = <<>> /\ ~isDone
    /\ {i \in DOMAIN reads : reads[i] = Pending} = {pending[i] : i \in DOMAIN pending}

EventsRight == TypeOK /\ EachOnce /\ OnceFirst /\ FailsForAReason /\ ReadsInOrder
=============================================================================
