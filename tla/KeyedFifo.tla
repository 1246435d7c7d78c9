----------------------------- MODULE KeyedFifo -----------------------------
(***************************************************************************)
(* What a keyed queue promises its callers: on each key one caller at a    *)
(* time is inside, in the order they entered.  A caller waits for those    *)
(* that were on its key when it entered and have not left; it may leave    *)
(* without ever getting in, and its successors do not wait for it again.   *)
(***************************************************************************)
CONSTANTS Slot,     \* callers, each used once
          Key,
          None

VARIABLES on,       \* the key a caller is on, None before it enters
          left,     \* callers that have left
          ahead,    \* the callers each one still waits for
          inside

vars == <<on, left, ahead, inside>>

Here(k) == {s \in Slot : on[s] = k} \ left

Init ==
    /\ on = [s \in Slot |-> None] /\ left = {}
    /\ ahead = [s \in Slot |-> {}] /\ inside = {}

Enter(s, k) ==
    /\ on[s] = None
    /\ on' = [on EXCEPT ![s] = k]
    /\ ahead' = [ahead EXCEPT ![s] = Here(k)]
    /\ UNCHANGED <<left, inside>>

GetIn(s) ==
    /\ on[s] # None /\ s \notin left /\ ahead[s] = {}
    /\ inside' = inside \cup {s}
    /\ UNCHANGED <<on, left, ahead>>

Leave(s) ==
    /\ on[s] # None /\ s \notin left
    /\ left' = left \cup {s} /\ inside' = inside \ {s}
    /\ ahead' = [o \in Slot |-> ahead[o] \ {s}]
    /\ UNCHANGED on

Next == \E s \in Slot : GetIn(s) \/ Leave(s) \/ \E k \in Key : Enter(s, k)

Spec == Init /\ [][Next]_vars
=============================================================================
