------------------------------ MODULE MCLocks ------------------------------
(***************************************************************************)
(* Calls of acquireFileLock on one path, in two settings, one at a time:   *)
(* three processes with a call each, which reap each other's files, crash  *)
(* and come back; and a process that queues three calls of its own, one of *)
(* them a try, against another.  The calls that a setting leaves out are   *)
(* never made.                                                             *)
(***************************************************************************)
EXTENDS FileLock, TLC

CONSTANTS c1, c2, c3, p1,    \* three calls of one process
          c4, p2, c5, p3     \* processes with one call each

VARIABLE tries   \* the setting that is tried

OwnerQueue == c1 :> p1 @@ c2 :> p1 @@ c3 :> p1 @@ c4 :> p2 @@ c5 :> p3

(* The calls that the setting makes, and the processes that make them. *)
Made == IF tries = "each" THEN {c1, c4, c5} ELSE {c1, c2, c3, c4}

Running == {Owner[c] : c \in Made}

-----------------------------------------------------------------------------
LocksInit == Init /\ tries \in {"each", "queue"}

(* Pids come back where each process has one call.  A call fails or is     *)
(* given up where others of its process stand behind it; elsewhere its end *)
(* is that of a process that dies.                                         *)
LocksNext ==
    /\ UNCHANGED tries
    /\ \/ \E c \in Made : Enter(c) \/ Step(c) \/ ReleaseCheck(c)
       \/ tries = "queue" /\ \E c \in {c1, c2, c3} : Deadline(c) \/ Throw(c)
       \/ \E p \in Running : Crash(p) \/ (tries = "each" /\ Restart(p))
       \/ Age

LocksSpec == LocksInit /\ [][LocksNext]_<<tries, vars>>

(* Inode numbers are alike. *)
Symmetry == Permutations(Inode)
=============================================================================
