------------------------------ MODULE FileLock ------------------------------
(***************************************************************************)
(* @sozai/lock: the calls of acquireFileLock of several processes on one   *)
(* path of a local file system, with boot IDs readable.                    *)
(*                                                                         *)
(* What one process does between two awaits is still several system calls, *)
(* and each is a step here: the file may change hands between writing a    *)
(* record and linking it, between a failed link and the read, between the  *)
(* read and the pid probe, between the check of a reap and its unlink.     *)
(* Only that last gap is one the code cannot close; raced tells whether    *)
(* somebody fell into it.                                                  *)
(***************************************************************************)
EXTENDS Naturals, FiniteSets

CONSTANTS Call,         \* calls of acquireFileLock, each made once
          Process,
          Owner,        \* the process of each call
          TryLock,      \* calls made with timeout 0
          Inode,        \* inode numbers, taken again as soon as they are free
          Corrupt,      \* the writer of a record that does not parse
          MaxRestarts,  \* bound: how often a pid is given to a new process
          None

ASSUME LockAssumption ==
    /\ Owner \in [Call -> Process] /\ TryLock \subseteq Call
    /\ Corrupt \notin Call /\ MaxRestarts \in Nat

VARIABLES
    up,         \* the pids that are taken
    restarts,
    pc,         \* where each call stands
    aborted,    \* calls whose deadline or signal fired
    ahead,      \* the calls of its process whose slots a call waits for
    tmp,        \* the inode of a call's temporary record
    lock,       \* the file at the path: its inode and who wrote it
    seen,       \* the entry a call holds: the one it read, then its own
    checked,    \* history: the file a reap found at the path
    aged,       \* the corrupt file is older than staleTimeout
    raced       \* history: a file was replaced between a reap's check and its unlink

vars == <<up, restarts, pc, aborted, ahead, tmp, lock, seen, checked, aged, raced>>

File == [inode : Inode, by : Call \cup {Corrupt}]

ASSUME FileAssumption == None \notin File /\ None \notin Inode

Pending == {"queued", "claim", "link", "look", "judge", "desync", "check", "unlink", "backoff"}
Holding == {"held", "drop"}
Ended == {"done", "failed", "gone"}

TypeOK ==
    /\ up \subseteq Process /\ restarts \in 0..MaxRestarts
    /\ pc \in [Call -> Pending \cup Holding \cup Ended \cup {"idle"}]
    /\ aborted \subseteq Call
    /\ ahead \in [Call -> SUBSET Call]
    /\ tmp \in [Call -> Inode \cup {None}]
    /\ lock \in File \cup {None}
    /\ seen \in [Call -> File \cup {None}]
    /\ checked \in [Call -> File \cup {None}]
    /\ aged \in BOOLEAN /\ raced \in BOOLEAN
    /\ \A c \in Call : pc[c] \in {"desync", "check", "unlink"} \cup Holding => seen[c] \in File

Init ==
    /\ up = Process /\ restarts = 0
    /\ pc = [c \in Call |-> "idle"] /\ aborted = {}
    /\ ahead = [c \in Call |-> {}] /\ tmp = [c \in Call |-> None]
    /\ lock = None \/ \E i \in Inode : lock = [inode |-> i, by |-> Corrupt]
    /\ seen = [c \in Call |-> None] /\ checked = [c \in Call |-> None]
    /\ aged = FALSE /\ raced = FALSE

-----------------------------------------------------------------------------
(* A call moves on.  The entry lives in one turn of the loop or in the     *)
(* lock that is held; a check is remembered up to its unlink.              *)
Go(c, there) ==
    /\ pc' = [pc EXCEPT ![c] = there]
    /\ seen' = [seen EXCEPT ![c] =
                    IF there \in {"claim", "backoff"} \cup Ended THEN None ELSE @]
    /\ checked' = [checked EXCEPT ![c] = IF there \in {"unlink", "drop"} THEN lock ELSE None]

Stay(c, there) == Go(c, there) /\ UNCHANGED <<ahead, aborted>>

(* Mutant: an exit path that keeps the slot. *)
EndKeepingSlot(c, there) == Go(c, there) /\ aborted' = aborted \ {c} /\ UNCHANGED ahead

(* slot.release(): the calls behind wait for one less. *)
End(c, there) ==
    /\ Go(c, there)
    /\ ahead' = [o \in Call |-> IF o = c THEN {} ELSE ahead[o] \ {c}]
    /\ aborted' = aborted \ {c}

(* Calls that have entered the queue of their process and not left it. *)
InQueue(p) == {c \in Call : Owner[c] = p /\ pc[c] \in Pending \cup Holding}

(* Mutant: a tryLock does not mind the calls of its own process. *)
EnterTryAhead(c) ==
    LET before == IF c \in TryLock THEN {} ELSE InQueue(Owner[c]) IN
    /\ pc[c] = "idle" /\ Owner[c] \in up
    /\ Go(c, "queued") /\ ahead' = [ahead EXCEPT ![c] = before]
    /\ UNCHANGED <<up, restarts, aborted, tmp, lock, aged, raced>>

(* acquireFileLock up to the wait for the turn. *)
Enter(c) ==
    LET before == InQueue(Owner[c]) IN
    /\ pc[c] = "idle" /\ Owner[c] \in up
    /\ IF c \in TryLock /\ before # {}
       THEN Go(c, "failed") /\ UNCHANGED ahead
       ELSE Go(c, "queued") /\ ahead' = [ahead EXCEPT ![c] = before]
    /\ UNCHANGED <<up, restarts, aborted, tmp, lock, aged, raced>>

(* The deadline or the caller's signal. *)
Deadline(c) ==
    /\ pc[c] \in Pending /\ c \notin aborted
    /\ aborted' = aborted \cup {c}
    /\ UNCHANGED <<up, restarts, pc, ahead, tmp, lock, seen, checked, aged, raced>>

(* Mutant: the wait for the turn cannot be given up. *)
GiveUpInLoop(c) ==
    /\ c \in aborted /\ pc[c] \in {"claim", "desync", "backoff"}
    /\ End(c, "failed")
    /\ UNCHANGED <<up, restarts, tmp, lock, aged, raced>>

(* An abort reaches a call at its awaits and at the head of the loop. *)
GiveUp(c) ==
    /\ c \in aborted /\ pc[c] \in {"queued", "claim", "desync", "backoff"}
    /\ End(c, "failed")
    /\ UNCHANGED <<up, restarts, tmp, lock, aged, raced>>

Turn(c) ==
    /\ pc[c] = "queued" /\ ahead[c] = {} /\ c \notin aborted
    /\ Stay(c, "claim")
    /\ UNCHANGED <<up, restarts, tmp, lock, aged, raced>>

InUse == {tmp[c] : c \in Call} \cup (IF lock = None THEN {} ELSE {lock.inode})

(* writeTempRecord: a new file takes any free inode number. *)
Write(c) ==
    /\ pc[c] = "claim" /\ c \notin aborted
    /\ \E i \in Inode \ InUse : tmp' = [tmp EXCEPT ![c] = i]
    /\ Stay(c, "link")
    /\ UNCHANGED <<up, restarts, lock, aged, raced>>

(* linkSync and what follows: the winner removes its temporary file and    *)
(* any of the others that are old enough.                                  *)
Link(c) ==
    LET own == [inode |-> tmp[c], by |-> c] IN
    /\ pc[c] = "link"
    /\ IF tmp[c] # None /\ lock = None
       THEN /\ lock' = own /\ seen' = [seen EXCEPT ![c] = own]
            /\ \E swept \in SUBSET {o \in Call : tmp[o] # None} :
                  tmp' = [o \in Call |-> IF o = c \/ o \in swept THEN None ELSE tmp[o]]
            /\ pc' = [pc EXCEPT ![c] = "held"] /\ aborted' = aborted \ {c}
            /\ UNCHANGED <<checked, ahead>>
       ELSE Stay(c, "look") /\ UNCHANGED <<tmp, lock>>
    /\ UNCHANGED <<up, restarts, aged, raced>>

(* readLockEntry of the file in the way, if it is still there. *)
Look(c) ==
    /\ pc[c] = "look" /\ pc' = [pc EXCEPT ![c] = "judge"]
    /\ seen' = [seen EXCEPT ![c] = lock]
    /\ tmp' = [tmp EXCEPT ![c] = None]
    /\ UNCHANGED <<up, restarts, aborted, ahead, lock, checked, aged, raced>>

(* An error that is no contention: thrown, without the lock. *)
Throw(c) ==
    /\ pc[c] \in {"claim", "link", "look"}
    /\ tmp' = [tmp EXCEPT ![c] = None]
    /\ End(c, "failed")
    /\ UNCHANGED <<up, restarts, lock, aged, raced>>

-----------------------------------------------------------------------------
(* isStale on this host and boot: the pid decides, and for a record that   *)
(* does not parse the age of the file.                                     *)
Stale(file) == IF file.by = Corrupt THEN aged ELSE Owner[file.by] \notin up

(* A vanished file, a live holder, or a reap that came too late. *)
Wait(c) == IF c \in TryLock THEN End(c, "failed") ELSE Stay(c, "backoff")

(* Mutant: a vanished file counts as stale. *)
JudgeVanished(c) ==
    /\ pc[c] = "judge"
    /\ IF seen[c] = None \/ Stale(seen[c])
       THEN Stay(c, IF c \in TryLock THEN "check" ELSE "desync")
       ELSE Wait(c)
    /\ UNCHANGED <<up, restarts, tmp, lock, aged, raced>>

Judge(c) ==
    /\ pc[c] = "judge"
    /\ IF seen[c] # None /\ Stale(seen[c])
       THEN Stay(c, IF c \in TryLock THEN "check" ELSE "desync")
       ELSE Wait(c)
    /\ UNCHANGED <<up, restarts, tmp, lock, aged, raced>>

(* A sleep ends: the one before a reap, or the one before the next claim. *)
Wake(c) ==
    /\ pc[c] \in {"desync", "backoff"} /\ c \notin aborted
    /\ Stay(c, IF pc[c] = "desync" THEN "check" ELSE "claim")
    /\ UNCHANGED <<up, restarts, tmp, lock, aged, raced>>

(* Mutant: a file that does not parse is never recognised again. *)
SameParsed(current, expected) ==
    /\ current # None /\ current.inode = expected.inode
    /\ current.by = expected.by /\ current.by # Corrupt

(* isSameLockFile: inode and nonce, which is one per call; an unparseable  *)
(* record goes by its mtime.                                               *)
SameLockFile(current, expected) ==
    current # None /\ current.inode = expected.inode /\ current.by = expected.by

(* The unlink takes whatever sits at the path. *)
Unlink(c) ==
    /\ lock' = None
    /\ raced' = (raced \/ (lock # None /\ lock # checked[c]))

(* reapLockFile by a waiter: the check, then the unlink. *)
ReapCheck(c) ==
    /\ pc[c] = "check"
    /\ IF SameLockFile(lock, seen[c]) THEN Stay(c, "unlink") ELSE Wait(c)
    /\ UNCHANGED <<up, restarts, tmp, lock, aged, raced>>

ReapUnlink(c) ==
    /\ pc[c] = "unlink"
    /\ IF lock = None THEN Wait(c) ELSE Stay(c, "claim")
    /\ Unlink(c)
    /\ UNCHANGED <<up, restarts, tmp, aged>>

(* release(), by the caller or by the exit hook. *)
ReleaseCheck(c) ==
    /\ pc[c] = "held"
    /\ IF SameLockFile(lock, seen[c]) THEN Stay(c, "drop") ELSE End(c, "done")
    /\ UNCHANGED <<up, restarts, tmp, lock, aged, raced>>

ReleaseUnlink(c) ==
    /\ pc[c] = "drop"
    /\ Unlink(c) /\ End(c, "done")
    /\ UNCHANGED <<up, restarts, tmp, aged>>

-----------------------------------------------------------------------------
(* A process dies, by a signal or after its exit hook; files stay. *)
Crash(p) ==
    LET lost == InQueue(p) IN
    /\ p \in up /\ up' = up \ {p}
    /\ pc' = [c \in Call |-> IF c \in lost THEN "gone" ELSE pc[c]]
    /\ ahead' = [c \in Call |-> IF c \in lost THEN {} ELSE ahead[c]]
    /\ seen' = [c \in Call |-> IF c \in lost THEN None ELSE seen[c]]
    /\ checked' = [c \in Call |-> IF c \in lost THEN None ELSE checked[c]]
    /\ aborted' = aborted \ lost
    /\ UNCHANGED <<restarts, tmp, lock, aged, raced>>

(* A new process gets the pid of a dead one. *)
Restart(p) ==
    /\ p \notin up /\ restarts < MaxRestarts
    /\ up' = up \cup {p} /\ restarts' = restarts + 1
    /\ UNCHANGED <<pc, aborted, ahead, tmp, lock, seen, checked, aged, raced>>

Age ==
    /\ lock # None /\ lock.by = Corrupt /\ ~aged /\ aged' = TRUE
    /\ UNCHANGED <<up, restarts, pc, aborted, ahead, tmp, lock, seen, checked, raced>>

(* What a live call does by itself. *)
Step(c) ==
    \/ GiveUp(c) \/ Turn(c) \/ Write(c) \/ Link(c) \/ Look(c) \/ Judge(c)
    \/ Wake(c) \/ ReapCheck(c) \/ ReapUnlink(c) \/ ReleaseUnlink(c)

Next ==
    \/ \E c \in Call : Enter(c) \/ Deadline(c) \/ Throw(c) \/ Step(c) \/ ReleaseCheck(c)
    \/ \E p \in Process : Crash(p) \/ Restart(p)
    \/ Age

Spec == Init /\ [][Next]_vars

(* Live calls proceed; timeouts may be long, and holders may hold forever. *)
PatientSpec == Spec /\ WF_vars(Age) /\ \A c \in Call : WF_vars(Step(c))

-----------------------------------------------------------------------------
(* Outside the window no unlink takes the file of a live holder: whoever   *)
(* holds the lock owns the file at the path, so there is one holder.       *)
HoldersOwnTheFile ==
    ~raced => \A c \in Call : pc[c] \in Holding =>
                  lock = seen[c] /\ seen[c].by = c

(* A file found stale stays so until it is reaped: its holder has ended,   *)
(* even when the file has since been replaced, or its pid recycled.        *)
VerdictStands ==
    \A c \in Call : pc[c] \in {"desync", "check", "unlink"} =>
        (seen[c].by # Corrupt => pc[seen[c].by] \in Ended)

(* Outside the window of a reap no live holder loses its file, and a file  *)
(* that was found stale stays so until it is reaped.                       *)
ReapsRight == TypeOK /\ HoldersOwnTheFile /\ VerdictStands

(* Every exit path hands the slot on: a call waits only for calls of its   *)
(* own process that still wait for the lock or hold it.                    *)
SlotsHandedOn ==
    \A c \in Call : \A o \in ahead[c] :
        o # c /\ Owner[o] = Owner[c] /\ pc[o] \in Pending \cup Holding

(* In one process two calls never hold the lock at once, not even when     *)
(* another process fell into the window and unlinked its file.             *)
SoleHolderStep ==
    \A c \in Call : pc[c] # "held" /\ pc'[c] = "held" =>
        \A o \in Call : Owner[o] = Owner[c] /\ o # c => pc[o] \notin Holding

OneHolderPerProcess == [][SoleHolderStep]_vars

(* A file whose writer has died does not outlive a waiter that goes on     *)
(* waiting in the loop.                                                    *)
Orphan(file) == file # None /\ (file.by # Corrupt => Owner[file.by] \notin up)

OrphansReaped ==
    \A c \in Call : (Orphan(lock) /\ pc[c] \in Pending \ {"queued"})
        ~> (~Orphan(lock) \/ pc[c] \notin Pending)

(* Every acquisition is answered: with the lock, or soon after its         *)
(* deadline, wherever it waits and however long the others hold the lock.  *)
Answered ==
    \A c \in Call : (c \in aborted /\ pc[c] \in Pending) ~> pc[c] \notin Pending
=============================================================================
