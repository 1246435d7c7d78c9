---------------------------- MODULE LockLiveness ----------------------------
(***************************************************************************)
(* lock/liveness.ts and lock/record.ts: whether a waiter may take a lock   *)
(* from the holder that a record describes.  One lock file, claimed at     *)
(* time 0, and one waiter after another, on a machine whose wall clock     *)
(* steps, whose uptime may run backwards, which may be renamed and may     *)
(* reboot.                                                                 *)
(*                                                                         *)
(* The order of system calls around the file is FileLock's; there the      *)
(* verdict is right at once, here it is what the clocks say.               *)
(***************************************************************************)
EXTENDS Integers

CONSTANTS None,        \* null: no boot id for this process
          Unset,       \* undefined: not read yet
          MaxReads,    \* MAX_BOOT_ID_READ_ATTEMPTS
          Ttl,         \* staleTimeout
          Tolerance,   \* BOOT_TOLERANCE_MS
          ClockSteps,  \* by how much a wall clock steps, either way
          Drifts,      \* by how much an uptime runs backwards
          Horizon,     \* bound of the true time
          MaxBoots     \* bound of the boots

ASSUME LivenessAssumption ==
    /\ {MaxReads, Ttl, Tolerance, Horizon, MaxBoots} \subseteq Nat
    /\ MaxReads > 0 /\ MaxBoots > 0
    /\ ClockSteps \subseteq Nat /\ Drifts \subseteq Nat
    /\ None \notin 0 .. MaxBoots /\ Unset \notin 0 .. MaxBoots /\ None # Unset

VARIABLES platform,    \* of the machine
          time,        \* true time, which nobody can read
          boot,        \* the present boot
          bootedAt,    \* when it began
          wall,        \* what the wall clock is ahead of the true time
          drift,       \* what the uptime has lost since the boot
          hostname,    \* the machine's present name
          where,       \* who wrote the file: a process here, elsewhere, or nobody legible
          record,      \* what the file holds
          alive,       \* the holder lives
          reused,      \* a later process here has the holder's pid
          cachedBootID, failedReads   \* of the waiter

vars == <<platform, time, boot, bootedAt, wall, drift, hostname, where, record, alive, reused,
          cachedBootID, failedReads>>

machine == <<boot, bootedAt, wall, drift, hostname>>
holder == <<where, record, alive>>
waiter == <<cachedBootID, failedReads>>

-----------------------------------------------------------------------------
Abs(n) == IF n < 0 THEN -n ELSE n

(* uptime() never falls below zero. *)
Elapsed == time - bootedAt - drift

UptimeAt == IF Elapsed < 0 THEN 0 ELSE Elapsed

Now == time + wall

BootAt == Now - UptimeAt

Platforms == {"linux", "darwin", "other"}

BootIDs == 0 .. MaxBoots

(* The outcomes of a read, and what a process that settles on one has.     *)
BootIDRead == IF platform = "other" THEN {"unsupported"} ELSE {"ok", "failed"}

Names == {"first", "second", "foreign"}

LockRecord ==
    [hostname : Names, bootID : BootIDs \cup {None}, bootAt : Int, startedAt : Int, uptimeAt : Int]

(* What a holder on this machine writes, with or without a boot id.        *)
CreateLockRecord(bootID) ==
    [hostname |-> hostname, bootID |-> bootID, bootAt |-> BootAt, startedAt |-> Now,
     uptimeAt |-> UptimeAt]

Init ==
    /\ platform \in Platforms
    /\ time = 0 /\ boot = 1 /\ bootedAt \in {-1, 0} /\ wall = 0 /\ drift = 0 /\ hostname = "first"
    /\ \/ /\ where = "here"
          /\ record \in {CreateLockRecord(id) :
                            id \in IF platform = "other" THEN {None} ELSE {None, boot}}
       \/ /\ where = "elsewhere"
          /\ record \in [hostname : {"foreign"}, bootID : {0, None}, bootAt : {0},
                         startedAt : {Now}, uptimeAt : {0, Ttl}]
       \/ /\ where = "illegible" /\ record = CreateLockRecord(None)
    /\ alive = TRUE /\ reused = FALSE
    /\ cachedBootID = Unset /\ failedReads = 0

-----------------------------------------------------------------------------
(* getBootID, one read of the source.  The second that fails settles.      *)
ReadBootID ==
    /\ cachedBootID = Unset
    /\ \E status \in BootIDRead :
          /\ cachedBootID' = CASE status = "ok" -> boot
                               [] status = "unsupported" -> None
                               [] OTHER -> IF failedReads + 1 >= MaxReads THEN None ELSE Unset
          /\ failedReads' = IF status = "failed" THEN failedReads + 1 ELSE failedReads
    /\ UNCHANGED <<platform, time, machine, holder, reused>>

(* The next acquisition of the same process: a source that failed is read  *)
(* again, and no other.                                                    *)
RetryBootIDRead ==
    /\ cachedBootID = None /\ failedReads > 0
    /\ cachedBootID' = Unset /\ failedReads' = 0
    /\ UNCHANGED <<platform, time, machine, holder, reused>>

-----------------------------------------------------------------------------
SameBoot ==
    IF cachedBootID # None /\ record.bootID # None
    THEN record.bootID = cachedBootID
    ELSE Abs(record.bootAt - BootAt) <= Tolerance

SameBootAndPIDNamespace ==
    IF cachedBootID # None /\ record.bootID # None
    THEN record.bootID = cachedBootID /\ (platform = "darwin" \/ record.hostname = hostname)
    ELSE record.hostname = hostname /\ SameBoot

(* A pid answers while its holder lives, or another process has it.  That  *)
(* of a holder elsewhere means nothing here: it answers or not.            *)
PidAnswers == (where = "here" /\ alive) \/ reused

CheckLiveness ==
    CASE ~SameBootAndPIDNamespace -> "unknown"
      [] SameBootAndPIDNamespace /\ PidAnswers -> "alive"
      [] OTHER -> "dead"

(* Mutant: an uptime that ran backwards is taken for a reboot.             *)
StaleBackwards == TRUE

(* A record from a later uptime than ours: the wall clock must agree.      *)
StaleByWallClock == Now < record.startedAt \/ Now - record.startedAt > Ttl

StaleUnknown ==
    LET age == UptimeAt - record.uptimeAt
    IN  CASE record.hostname # hostname -> Now - record.startedAt > Ttl
          [] record.hostname = hostname /\ age < 0 -> StaleByWallClock
          [] OTHER -> age > Ttl

(* isStale.  An illegible file is dated by its modification time, for      *)
(* which startedAt stands.                                                 *)
Stale ==
    IF where = "illegible"
    THEN Now - record.startedAt > Ttl
    ELSE \/ CheckLiveness = "dead"
         \/ CheckLiveness = "unknown" /\ StaleUnknown

-----------------------------------------------------------------------------
Tick ==
    /\ time < Horizon
    /\ time' = time + 1
    /\ UNCHANGED <<platform, machine, holder, reused, waiter>>

(* The wall clock is set; it stays within Horizon of the true time.        *)
StepClock ==
    /\ \E step \in ClockSteps : wall' \in {wall - step, wall + step}
    /\ Abs(wall') <= Horizon
    /\ UNCHANGED <<platform, time, boot, bootedAt, drift, hostname, holder, reused, waiter>>

(* On darwin the uptime is the wall clock less a boot time that the kernel *)
(* adjusts.                                                                *)
LoseUptime ==
    /\ platform = "darwin" /\ drift = 0
    /\ drift' \in Drifts
    /\ UNCHANGED <<platform, time, boot, bootedAt, wall, hostname, holder, reused, waiter>>

Rename ==
    /\ hostname' = IF hostname = "first" THEN "second" ELSE "first"
    /\ UNCHANGED <<platform, time, boot, bootedAt, wall, drift, holder, reused, waiter>>

Die ==
    /\ alive /\ alive' = FALSE
    /\ UNCHANGED <<platform, time, machine, where, record, reused, waiter>>

(* A new process gets the pid: of a dead holder, or of one in another      *)
(* place.                                                                  *)
ReusePid ==
    /\ ~reused /\ (where # "here" \/ ~alive)
    /\ reused' = TRUE
    /\ UNCHANGED <<platform, time, machine, holder, waiter>>

Reboot ==
    /\ boot < MaxBoots
    /\ boot' = boot + 1 /\ bootedAt' = time /\ drift' = 0 /\ reused' = FALSE
    /\ alive' = (alive /\ where # "here")
    /\ cachedBootID' = Unset /\ failedReads' = 0
    /\ UNCHANGED <<platform, time, wall, hostname, where, record>>

(* Another process waits, with a boot id of its own to read.               *)
NewWaiter ==
    /\ waiter # <<Unset, 0>>
    /\ cachedBootID' = Unset /\ failedReads' = 0
    /\ UNCHANGED <<platform, time, machine, holder, reused>>

Next ==
    \/ ReadBootID \/ RetryBootIDRead \/ NewWaiter
    \/ Tick \/ StepClock \/ LoseUptime \/ Rename
    \/ Die \/ ReusePid \/ Reboot

Spec == Init /\ [][Next]_vars

-----------------------------------------------------------------------------
TypeOK ==
    /\ platform \in Platforms
    /\ time \in Nat /\ boot \in BootIDs /\ bootedAt \in Int /\ wall \in Int /\ drift \in Nat
    /\ hostname \in Names
    /\ where \in {"here", "elsewhere", "illegible"}
    /\ record \in LockRecord
    /\ alive \in BOOLEAN /\ reused \in BOOLEAN
    /\ cachedBootID \in BootIDs \cup {None, Unset} /\ failedReads \in 0 .. MaxReads

Judged == cachedBootID # Unset

IDsKnown == cachedBootID # None /\ record.bootID # None

(* A holder here that lives keeps its lock however long it holds, whatever *)
(* the clocks do, if both boot ids were read and, where the name counts,   *)
(* the machine kept its name; without ids, if the two estimates of the     *)
(* boot time agree as well (liveness.ts 11-45, 75-80).                     *)
LiveNeverStale ==
    (Judged /\ where = "here" /\ alive) =>
        \/ IDsKnown /\ platform # "darwin" /\ record.hostname # hostname
        \/ ~IDsKnown /\ (record.hostname # hostname \/ Abs(record.bootAt - BootAt) > Tolerance)
        \/ ~Stale

(* A holder whose liveness nobody can prove has its TTL: a rename, a clock *)
(* step on a machine whose uptime runs on, or an uptime that runs backwards *)
(* under a steady clock does not shorten it (liveness.ts 95-108).          *)
FreshNeverStale ==
    (Judged /\ alive /\ time <= Ttl /\
        (wall = 0 \/ (where = "here" /\ record.hostname = hostname /\ drift = 0)))
        => ~Stale

(* No lock is held by a dead holder for ever: once both clocks are past    *)
(* the TTL, or the uptime and the wall clock both show that the record is  *)
(* not of this boot, it may be taken, unless a process here has the pid    *)
(* (liveness.ts 75-80, 102-107).                                           *)
PastTtl == Now - record.startedAt > Ttl /\ UptimeAt - record.uptimeAt > Ttl

FromTheFuture ==
    where = "here" /\ record.hostname = hostname /\ UptimeAt < record.uptimeAt /\ Now < record.startedAt

DeadGoesStale ==
    (Judged /\ ~alive /\ ~reused /\ (PastTtl \/ FromTheFuture)) => Stale

(* A process that settles on having no boot id has been refused by its     *)
(* source as often as it tries in one acquisition, or has no source, so a  *)
(* read that fails once does not put a record on the fallback for the life *)
(* of the hold (record.ts 74-118).                                         *)
NoIDForAReason == cachedBootID = None => platform = "other" \/ failedReads = MaxReads

StalenessRight ==
    TypeOK /\ LiveNeverStale /\ FreshNeverStale /\ DeadGoesStale /\ NoIDForAReason
=============================================================================
