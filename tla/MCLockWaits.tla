---------------------------- MODULE MCLockWaits ----------------------------
(***************************************************************************)
(* What a waiter for a file lock depends on, one at a time: what it makes  *)
(* of the holder's record when clocks, names and boots change; and whether *)
(* it gets through, behind a call of its own process and one of another.   *)
(* The two share no state: the other one rests as it began.                *)
(***************************************************************************)
EXTENDS LockLiveness, TLC

CONSTANTS Corrupt, Inode, c1, c2, c3, p1, p2

VARIABLE waits   \* what is looked at

VARIABLES up, restarts, pc, aborted, ahead, tmp, lock, seen, checked, aged, raced

pair == <<up, restarts, pc, aborted, ahead, tmp, lock, seen, checked, aged, raced>>

OwnerPair == c1 :> p1 @@ c2 :> p1 @@ c3 :> p2

Pair == INSTANCE FileLock
    WITH Call <- {c1, c2, c3}, Process <- {p1, p2}, Owner <- OwnerPair, TryLock <- {},
         MaxRestarts <- 0

-----------------------------------------------------------------------------
WaitsInit ==
    /\ waits \in {"record", "turn"}
    /\ Init /\ (waits # "record" => platform = "other" /\ bootedAt = 0 /\ where = "illegible")
    /\ Pair!Init /\ (waits # "turn" => lock = None)

(* The clocks and the holder of a record move, or the calls do. *)
WaitsNext ==
    /\ UNCHANGED waits
    /\ \/ waits = "record" /\ Next /\ UNCHANGED pair
       \/ waits = "turn" /\ Pair!Next /\ UNCHANGED vars

(* As PatientSpec of FileLock. *)
WaitsSpec ==
    /\ WaitsInit /\ [][WaitsNext]_<<waits, vars, pair>>
    /\ WF_pair(waits = "turn" /\ Pair!Age)
    /\ \A c \in {c1, c2, c3} : WF_pair(waits = "turn" /\ Pair!Step(c))

-----------------------------------------------------------------------------
(* A file whose writer has died does not outlive a waiter in the loop, and *)
(* every acquisition is answered soon after its deadline.                  *)
OrphansReaped == Pair!OrphansReaped

Answered == Pair!Answered
=============================================================================
