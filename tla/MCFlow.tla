------------------------------- MODULE MCFlow -------------------------------
(***************************************************************************)
(* Flow definitions that TLC runs FlowRun on.                              *)
(***************************************************************************)
EXTENDS FlowProps, TLC

CONSTANTS main, sub, leaf, nA, nB, nC, nE, nX     \* model values: flows and nodes

NoPolicy == [maxAttempts |-> 1, maxInterruptions |-> 3, total |-> None, suspendAfter |-> None]

Blank == [kind |-> "end", targets |-> {}, next |-> None, onError |-> None, policy |-> NoPolicy,
          decline |-> None, timeout |-> None, timeoutTo |-> None, flow |-> None, body |-> None,
          exit |-> None, exhausted |-> None, max |-> 0]

EndNode == Blank

(* An action with two attempts, one replay each, a deadline and an onError *)
(* branch; then an action with the default policy that fails the run.      *)
RetryDef ==
    (main :> [start |-> nA, node |->
        (nA :> [Blank EXCEPT !.kind = "action", !.next = nB, !.onError = nX,
                 !.policy = [maxAttempts |-> 2, maxInterruptions |-> 1,
                             total |-> 3, suspendAfter |-> 1]])
     @@ (nB :> [Blank EXCEPT !.kind = "action", !.next = nE])
     @@ (nX :> [Blank EXCEPT !.kind = "step", !.targets = {nA, nE}])
     @@ (nE :> EndNode)])

(* A call with retries and a deadline, whose callee has a loop with a flow *)
(* body; the body asks for input in a local loop, which may be declined,   *)
(* with no branch for it, or time out, which leads to an action; then, or  *)
(* when the loop is exhausted, it calls back, which is refused three       *)
(* frames deep.  The call's failure replaces the root flow.                *)
CallDef ==
    (main :> [start |-> nA, node |->
        (nA :> [Blank EXCEPT !.kind = "call", !.flow = sub, !.next = nE, !.onError = nX,
                 !.policy = [maxAttempts |-> 2, maxInterruptions |-> 0,
                             total |-> 3, suspendAfter |-> 1]])
     @@ (nX :> [Blank EXCEPT !.kind = "goto", !.flow = leaf])
     @@ (nE :> EndNode)])
 @@ (sub :> [start |-> nB, node |->
        (nB :> [Blank EXCEPT !.kind = "loop", !.flow = leaf, !.max = 1, !.exit = nE])
     @@ (nE :> EndNode)])
 @@ (leaf :> [start |-> nB, node |->
        (nB :> [Blank EXCEPT !.kind = "loop", !.body = nC, !.exit = nE, !.exhausted = nX, !.max = 1])
     @@ (nC :> [Blank EXCEPT !.kind = "input", !.next = nB, !.timeout = 1, !.timeoutTo = nA])
     @@ (nA :> [Blank EXCEPT !.kind = "action", !.next = nX])
     @@ (nX :> [Blank EXCEPT !.kind = "call", !.flow = sub, !.next = nE])
     @@ (nE :> EndNode)])
=============================================================================
