----------------------------- MODULE FlowProps -----------------------------
(***************************************************************************)
(* What a durable run promises, stated over the behaviours of FlowRun.     *)
(***************************************************************************)
EXTENDS FlowRun

(* Types: the runner's and the stored document are run states, and the     *)
(* history describes node code by its place in the stack.                  *)
TypeOK ==
    /\ run \in RunState /\ store \in RunState
    /\ Depth(run) > 0 /\ Depth(store) > 0
    /\ pc \in Pcs /\ recovering \in BOOLEAN /\ aborted \in BOOLEAN
    /\ event \in Events \cup {None}
    /\ now \in Time /\ crashes \in Nat
    /\ DOMAIN work \subseteq Nat
    /\ \A i \in DOMAIN work :
          work[i] \in [site : Nat \X Flow \X Node, attempt : Nat, starts : Nat]

-----------------------------------------------------------------------------
(* The checks resume() and recover() make on a document they are handed    *)
(* (state.ts), without those on the JSON text.                             *)

AttemptOK(r, a, policy, active) ==
    LET inFlight == active /\ r.inFlight # None IN
    /\ a.count <= policy.maxAttempts
    /\ a.interruptions <= policy.maxInterruptions
    /\ a.count = 0 => a.interruptions = 0 /\ a.retryAt = None /\ ~inFlight
    /\ a.retryAt # None => a.count >= 1 /\ ~inFlight

(* assertStack *)
StackOK(r) ==
    /\ Depth(r) \in 1..MaxDepth
    /\ \A i \in 1..Depth(r) :
          LET fr == r.frames[i]
              a == Own(fr, fr.node)
          IN  /\ (fr.cont = None) = (i = 1)
              /\ \A n \in Node : Own(fr, n) # None => n = fr.node
              /\ a # None =>
                    /\ i < Depth(r) => a.retryAt = None
                    /\ AttemptOK(r, a, DefOf(fr).policy, i = Depth(r))
                    /\ a.inv \in 1..r.invocation
                    /\ \A j \in 1..(i - 1) :
                          LET below == r.frames[j] IN
                          Own(below, below.node) # None => Own(below, below.node).inv # a.inv

(* assertStatus *)
StatusOK(r) ==
    LET a == Own(Top(r), Top(r).node)
        scheduled == a # None /\ a.retryAt # None
    IN  /\ r.status \in Terminal => r.pending = None /\ r.inFlight = None /\ ~scheduled
        /\ r.status = "running" => r.pending = None /\ ~(scheduled /\ r.inFlight # None)
        /\ r.status = "suspended" => r.pending # None /\ r.inFlight = None
        /\ (r.status = "error") = (r.error # None)
        /\ r.pending # None =>
              IF r.pending.reason = "retry"
              THEN scheduled /\ a.retryAt = r.pending.resumeAt /\ r.pending.deadline = None
              ELSE ~scheduled /\ r.pending.resumeAt = None

(* assertRunStateShape *)
ShapeOK(r) ==
    LET fr == Top(r)
        a == Own(fr, fr.node)
    IN  /\ StackOK(r)
        /\ r.inFlight # None =>
              /\ a # None /\ r.inFlight.attempt >= 1
              /\ r.inFlight = [node |-> fr.node, attempt |-> a.count, inv |-> a.inv]
        /\ r.pending # None => r.pending.node = fr.node
        /\ StatusOK(r)

(* assertRunStateDefinitions *)
FitsDefinitions(r) ==
    \A i \in 1..Depth(r) :
        LET fr == r.frames[i]
            nodes == Def[fr.flow].node
            def == DefOf(fr)
            cont == r.frames[i + 1].cont
        IN  /\ fr.node \in DOMAIN nodes
            /\ Own(fr, fr.node) # None => def.kind \in RetryKinds
            /\ \A n \in Node : fr.loops[n] > 0 =>
                  n \in DOMAIN nodes /\ nodes[n].kind = "loop" /\ fr.loops[n] <= nodes[n].max
            /\ i < Depth(r) =>
                  /\ cont.caller = fr.node
                  /\ IF cont.kind = "call"
                     THEN def.kind = "call" /\ cont.returnTo = def.next /\ cont.onError = def.onError
                     ELSE def.kind = "loop" /\ def.flow # None
                          /\ cont.returnTo = fr.node /\ cont.onError = None

(* Every document the runner commits, on any path through results,         *)
(* failures, unwinding, retries and aborts, is one that resume() and       *)
(* recover() accept: a crash never leaves a run that cannot be continued.  *)
Recoverable == ShapeOK(run) /\ FitsDefinitions(run)

(* Node code only runs for what the host has stored.  A retried attempt    *)
(* runs under the inFlight record of the stored document, so that a crash  *)
(* at any point replays it under the same id and attempt; any other node   *)
(* is the active node of the stored document.                              *)
WriteAhead ==
    pc = "exec" =>
        /\ store = run
        /\ Retries => store.inFlight =
             [node |-> Top(store).node, attempt |-> Progress.count, inv |-> Progress.inv]

(* README: the idempotency key.  An invocation id names one entry of one   *)
(* node, whatever crashes, replays and retries happen: code is never       *)
(* started for another place under a used id, and the attempt number under *)
(* an id only moves on by one.                                             *)
KeyStep ==
    \A i \in DOMAIN work :
        /\ i \in DOMAIN work'
        /\ work'[i].site = work[i].site
        /\ work'[i].attempt \in {work[i].attempt, work[i].attempt + 1}

KeysNameOneEntry == [][KeyStep]_vars

(* README: maxInterruptions bounds how often a crash replays one attempt.  *)
ReplaysBounded ==
    \A i \in DOMAIN work :
        LET site == work[i].site
            def == Def[site[2]].node[site[3]]
        IN  def.kind \in RetryKinds =>
                /\ work[i].starts <= 1 + def.policy.maxInterruptions
                /\ work[i].attempt <= def.policy.maxAttempts

(* No attempt starts once its total deadline has passed or its segment is  *)
(* aborted, however long the loop was away at an await.                    *)
StartStep ==
    pc # "exec" /\ pc' = "exec" =>
        /\ ~aborted
        /\ Progress # None => ~Expired(Progress.deadline, now, 0)

StartsInTime == [][StartStep]_vars

(* A run only waits for a retry it can make: an attempt is left, and the   *)
(* retry is due before the deadline that would cancel it.  The loop's own  *)
(* check of maxAttempts before an attempt is then out of reach.            *)
AttemptAvailable ==
    AtNode /\ InTime /\ ~Replaying => Progress.count < Active.policy.maxAttempts

RetryWorthWaiting ==
    /\ AttemptAvailable
    /\ RetryPending =>
          /\ Progress.count < Active.policy.maxAttempts
          /\ Progress.deadline # None => Progress.retryAt < Progress.deadline

(* A call is retried only while its deadline leaves time for it, and a     *)
(* crash in the middle of nested calls loses nothing.                      *)
CallsRight == RetryWorthWaiting /\ Recoverable

(* A run that is stored as running, and is recovered when it crashes,      *)
(* settles: it ends, fails, aborts, or suspends on something outside.      *)
Settles == (store.status = "running") ~> (store.status # "running")

(* An abort always ends its segment, from the node code it interrupts, a   *)
(* retry's wait or between two nodes.                                      *)
AbortStops == aborted ~> pc = "down"
=============================================================================
