------------------------ MODULE LockLiveness_proofs ------------------------
(***************************************************************************)
(* The promises of liveness.ts about stale locks, for every TTL, tolerance *)
(* and number of reads, every step of a clock and every run of reboots.    *)
(*                                                                         *)
(* The verdict looks at a record and at three clocks; what the argument    *)
(* needs to know of the record is when it was written (time 0), and that   *)
(* the boot it was written in is still the present one while its holder    *)
(* lives: only a reboot changes the boot, and a reboot kills the holder.   *)
(***************************************************************************)
EXTENDS LockLiveness, TLAPS

(* What is known of the record. *)
RecordInv ==
    /\ record.startedAt = 0
    /\ where = "here" /\ alive =>
          record.bootID \in {None, boot} /\ bootedAt <= 0 /\ record.uptimeAt = 0 - bootedAt
    /\ where = "elsewhere" => record.hostname = "foreign" /\ record.bootID \in {0, None}

(* What is known of the machine and of the waiter. *)
MachineInv ==
    /\ boot >= 1 /\ bootedAt <= time /\ hostname \in {"first", "second"}

WaiterInv ==
    /\ cachedBootID \in {None, Unset, boot}
    /\ cachedBootID = Unset => failedReads < MaxReads
    /\ NoIDForAReason

(* TypeOK, but for the two Booleans, which a step of the proof has for     *)
(* itself.                                                                 *)
ClocksTyped ==
    /\ platform \in Platforms
    /\ time \in Nat /\ boot \in BootIDs /\ bootedAt \in Int /\ wall \in Int /\ drift \in Nat
    /\ hostname \in Names /\ where \in {"here", "elsewhere", "illegible"}
    /\ record \in LockRecord
    /\ cachedBootID \in BootIDs \cup {None, Unset} /\ failedReads \in 0 .. MaxReads

IInv == TypeOK /\ RecordInv /\ MachineInv /\ WaiterInv

-----------------------------------------------------------------------------
(* The assumption, constant by constant. *)
LEMMA Constants ==
    /\ MaxReads \in Nat /\ Ttl \in Nat /\ Tolerance \in Nat /\ MaxBoots \in Nat
    /\ MaxReads > 0 /\ MaxBoots > 0
    /\ ClockSteps \subseteq Nat /\ Drifts \subseteq Nat
    /\ None \notin 0 .. MaxBoots /\ Unset \notin 0 .. MaxBoots /\ None # Unset
    BY LivenessAssumption

(* The initial states have the types and the inductive invariant: a record *)
(* is written in the present boot, and nothing was read yet.               *)
LEMMA InitIInv == Init => IInv
<1> SUFFICES ASSUME Init PROVE IInv
    OBVIOUS
<1> USE Constants
<1>1. /\ platform \in Platforms /\ time = 0 /\ boot = 1 /\ bootedAt \in {-1, 0}
      /\ wall = 0 /\ drift = 0 /\ hostname = "first" /\ alive = TRUE /\ reused = FALSE
      /\ cachedBootID = Unset /\ failedReads = 0
    BY DEF Init
<1>2. Now = 0 /\ UptimeAt = 0 - bootedAt /\ BootAt \in Int /\ UptimeAt \in Int
    BY <1>1 DEF Now, UptimeAt, Elapsed, BootAt
<1>3. 0 \in BootIDs /\ 1 \in BootIDs /\ boot \in BootIDs
    BY <1>1 DEF BootIDs
<1>3a. MachineInv /\ WaiterInv
    BY <1>1 DEF MachineInv, WaiterInv, NoIDForAReason
<1>4. CASE where = "here" /\ record \in {CreateLockRecord(id) :
              id \in IF platform = "other" THEN {None} ELSE {None, boot}}
    <2>1. PICK id \in {None, boot} : record = CreateLockRecord(id)
        BY <1>4
    <2>2. record = [hostname |-> "first", bootID |-> id, bootAt |-> BootAt, startedAt |-> 0,
                    uptimeAt |-> UptimeAt]
        BY <2>1, <1>1, <1>2 DEF CreateLockRecord
    <2>3. record \in LockRecord
        BY <2>2, <1>2, <1>3 DEF LockRecord, Names
    <2>4. ClocksTyped
        BY <1>1, <1>2, <1>3, <1>4, <2>2, <2>3 DEF ClocksTyped, Names
    <2>5. TypeOK
        BY <1>1, <2>4, Zenon DEF TypeOK, ClocksTyped
    <2>6. RecordInv
        BY <1>1, <1>2, <1>3, <1>4, <2>2, <2>3 DEF RecordInv
    <2> QED
        BY <1>3a, <2>5, <2>6 DEF IInv
<1>5. CASE where = "elsewhere" /\ record \in [hostname : {"foreign"}, bootID : {0, None},
              bootAt : {0}, startedAt : {Now}, uptimeAt : {0, Ttl}]
    <2>1. record \in LockRecord /\ record.startedAt = 0 /\ record.hostname = "foreign"
              /\ record.bootID \in {0, None}
        BY <1>2, <1>3, <1>5 DEF LockRecord, Names
    <2>2. ClocksTyped
        BY <1>1, <1>3, <1>5, <2>1 DEF ClocksTyped, Names
    <2>3. TypeOK
        BY <1>1, <2>2, Zenon DEF TypeOK, ClocksTyped
    <2>4. RecordInv
        BY <1>1, <1>3, <1>5, <2>1 DEF RecordInv
    <2> QED
        BY <1>3a, <2>3, <2>4 DEF IInv
<1>6. CASE where = "illegible" /\ record = CreateLockRecord(None)
    <2>1. record = [hostname |-> "first", bootID |-> None, bootAt |-> BootAt, startedAt |-> 0,
                    uptimeAt |-> UptimeAt]
        BY <1>6, <1>1, <1>2 DEF CreateLockRecord
    <2>2. record \in LockRecord
        BY <2>1, <1>2 DEF LockRecord, Names
    <2>4. ClocksTyped
        BY <1>1, <1>3, <1>6, <2>1, <2>2 DEF ClocksTyped, Names
    <2>5. TypeOK
        BY <1>1, <2>4, Zenon DEF TypeOK, ClocksTyped
    <2>6. RecordInv
        BY <1>1, <1>3, <1>6, <2>1, <2>2 DEF RecordInv
    <2> QED
        BY <1>3a, <2>5, <2>6 DEF IInv
<1> QED
    BY <1>4, <1>5, <1>6 DEF Init

-----------------------------------------------------------------------------
(* The waiter's steps: each read of the boot id gives the present boot's,  *)
(* or counts one failure, and the last one that is allowed settles.        *)
LEMMA WaiterStep ==
    IInv /\ (ReadBootID \/ RetryBootIDRead \/ NewWaiter) => IInv'
<1> SUFFICES ASSUME IInv, ReadBootID \/ RetryBootIDRead \/ NewWaiter PROVE IInv'
    OBVIOUS
<1> USE Constants
<1>1. UNCHANGED <<platform, time, boot, bootedAt, wall, drift, hostname, where, record, alive,
                  reused>>
    BY DEF ReadBootID, RetryBootIDRead, NewWaiter, machine, holder
<1>2. RecordInv' /\ MachineInv'
    BY <1>1 DEF IInv, RecordInv, MachineInv
<1>3. cachedBootID' \in {None, Unset, boot} /\ failedReads' \in 0 .. MaxReads
          /\ (cachedBootID' = Unset => failedReads' < MaxReads)
          /\ (cachedBootID' = None => platform = "other" \/ failedReads' = MaxReads)
    <2>1. CASE ReadBootID
        <3>1. PICK status \in BootIDRead :
                 /\ cachedBootID' = CASE status = "ok" -> boot
                                      [] status = "unsupported" -> None
                                      [] OTHER -> IF failedReads + 1 >= MaxReads THEN None ELSE Unset
                 /\ failedReads' = IF status = "failed" THEN failedReads + 1 ELSE failedReads
            BY <2>1 DEF ReadBootID
        <3>2. failedReads \in 0 .. MaxReads /\ failedReads < MaxReads /\ boot \in 0 .. MaxBoots
            BY <2>1 DEF IInv, TypeOK, WaiterInv, ReadBootID, BootIDs
        <3>3. status \in {"ok", "failed", "unsupported"}
                  /\ (status = "unsupported" => platform = "other")
            BY DEF BootIDRead
        <3>4. CASE status = "ok"
            BY <3>1, <3>2, <3>4
        <3>5. CASE status = "unsupported"
            BY <3>1, <3>2, <3>3, <3>5
        <3>6. CASE status = "failed"
            BY <3>1, <3>2, <3>6
        <3> QED
            BY <3>3, <3>4, <3>5, <3>6
    <2>2. CASE RetryBootIDRead \/ NewWaiter
        BY <2>2 DEF RetryBootIDRead, NewWaiter
    <2> QED
        BY <2>1, <2>2
<1> QED
    BY <1>1, <1>2, <1>3 DEF IInv, TypeOK, WaiterInv, NoIDForAReason

(* The machine's clocks and its name: none of them touches the boot, the   *)
(* record or the waiter.                                                   *)
LEMMA ClockStep == IInv /\ (Tick \/ StepClock \/ LoseUptime \/ Rename) => IInv'
<1> SUFFICES ASSUME IInv, Tick \/ StepClock \/ LoseUptime \/ Rename PROVE IInv'
    OBVIOUS
<1>1. UNCHANGED <<platform, boot, bootedAt, where, record, alive, reused, cachedBootID,
                  failedReads>>
    BY DEF Tick, StepClock, LoseUptime, Rename, machine, holder, waiter
<1> USE Constants
<1>2. time' \in Nat /\ bootedAt <= time' /\ wall' \in Int /\ drift' \in Nat
          /\ hostname' \in {"first", "second"}
    <2> USE DEF IInv, TypeOK, MachineInv
    <2>1. CASE Tick
        BY <2>1 DEF Tick, machine
    <2>2. CASE StepClock
        BY <2>2 DEF StepClock
    <2>3. CASE LoseUptime
        BY <2>3 DEF LoseUptime
    <2>4. CASE Rename
        BY <2>4 DEF Rename
    <2> QED
        BY <2>1, <2>2, <2>3, <2>4
<1>3. TypeOK'
    BY <1>1, <1>2 DEF IInv, TypeOK, Names
<1>4. RecordInv' /\ MachineInv' /\ WaiterInv'
    BY <1>1, <1>2 DEF IInv, RecordInv, MachineInv, WaiterInv, NoIDForAReason
<1> QED
    BY <1>3, <1>4 DEF IInv

(* A holder's death and a reboot, after which no holder here is alive and  *)
(* every process reads its boot id anew.                                   *)
LEMMA DeathStep == IInv /\ (Die \/ ReusePid \/ Reboot) => IInv'
<1> SUFFICES ASSUME IInv, Die \/ ReusePid \/ Reboot PROVE IInv'
    OBVIOUS
<1> USE Constants
<1>1. CASE Die \/ ReusePid
    <2>1. UNCHANGED <<platform, time, boot, bootedAt, wall, drift, hostname, where, record,
                      cachedBootID, failedReads>>
        <3>1. CASE Die
            BY <3>1 DEF Die, machine, waiter
        <3>2. CASE ReusePid
            BY <3>2 DEF ReusePid, machine, holder, waiter
        <3> QED
            BY <1>1, <3>1, <3>2
    <2>1a. alive' \in BOOLEAN /\ reused' \in BOOLEAN /\ (alive' => alive)
        <3>1. CASE Die
            <4>1. alive /\ alive' = FALSE /\ reused' = reused
                BY <3>1, Zenon DEF Die
            <4> QED
                BY <4>1, Zenon DEF IInv, TypeOK
        <3>2. CASE ReusePid
            <4>1. reused' = TRUE /\ alive' = alive
                BY <3>2 DEF ReusePid, holder
            <4> QED
                BY <4>1, Zenon DEF IInv, TypeOK
        <3> QED
            BY <1>1, <3>1, <3>2
    <2>2. ClocksTyped'
        BY <2>1 DEF IInv, TypeOK, ClocksTyped
    <2>3. TypeOK'
        BY <2>1a, <2>2, Zenon DEF TypeOK, ClocksTyped
    <2>4. RecordInv'
        BY <2>1, <2>1a, Zenon DEF IInv, RecordInv
    <2>5. MachineInv' /\ WaiterInv'
        BY <2>1 DEF IInv, MachineInv, WaiterInv, NoIDForAReason
    <2> QED
        BY <2>3, <2>4, <2>5 DEF IInv
<1>2. CASE Reboot
    <2>1. /\ boot < MaxBoots /\ boot' = boot + 1 /\ bootedAt' = time /\ drift' = 0
          /\ reused' = FALSE /\ alive' = (alive /\ where # "here")
          /\ cachedBootID' = Unset /\ failedReads' = 0
          /\ UNCHANGED <<platform, time, wall, hostname, where, record>>
        BY <1>2 DEF Reboot
    <2>2. boot \in 0 .. MaxBoots /\ boot >= 1
        BY DEF IInv, TypeOK, MachineInv, BootIDs
    <2>3. boot' \in BootIDs /\ boot' >= 1
        BY <2>1, <2>2 DEF BootIDs
    <2>4. alive' \in BOOLEAN /\ ~(where' = "here" /\ alive')
        BY <2>1 DEF IInv, TypeOK
    <2>5. TypeOK'
        <3>1. ClocksTyped'
            BY <2>1, <2>3 DEF IInv, TypeOK, ClocksTyped
        <3>2. reused' \in BOOLEAN
            BY <2>1
        <3> QED
            BY <3>1, <3>2, <2>4, Zenon DEF TypeOK, ClocksTyped
    <2>6. RecordInv'
        BY <2>1, <2>4 DEF IInv, RecordInv
    <2>7. MachineInv' /\ WaiterInv'
        BY <2>1, <2>3 DEF IInv, TypeOK, MachineInv, WaiterInv, NoIDForAReason
    <2> QED
        BY <2>5, <2>6, <2>7 DEF IInv
<1> QED
    BY <1>1, <1>2

(* The invariant is kept by every step of clocks, holder and waiters.      *)
LEMMA NextIInv == IInv /\ [Next]_vars => IInv'
<1> SUFFICES ASSUME IInv, [Next]_vars PROVE IInv'
    OBVIOUS
<1>1. CASE ReadBootID \/ RetryBootIDRead \/ NewWaiter
    BY <1>1, WaiterStep
<1>2. CASE Tick \/ StepClock \/ LoseUptime \/ Rename
    BY <1>2, ClockStep
<1>3. CASE Die \/ ReusePid \/ Reboot
    BY <1>3, DeathStep
<1>4. CASE UNCHANGED vars
    <2>1. UNCHANGED <<platform, time, boot, bootedAt, wall, drift, hostname, where, record, alive,
                      reused, cachedBootID, failedReads>>
        BY <1>4 DEF vars
    <2> QED
        BY <2>1 DEF IInv, TypeOK, RecordInv, MachineInv, WaiterInv, NoIDForAReason
<1> QED
    BY <1>1, <1>2, <1>3, <1>4 DEF Next

-----------------------------------------------------------------------------
(* What the clocks show of a holder here that has not been rebooted away:  *)
(* its boot id is this boot's or missing.                                  *)
LEMMA LiveHolders == IInv => LiveNeverStale
<1> SUFFICES ASSUME IInv, Judged, where = "here", alive,
                    ~(IDsKnown /\ platform # "darwin" /\ record.hostname # hostname),
                    ~(~IDsKnown /\ (record.hostname # hostname
                                        \/ Abs(record.bootAt - BootAt) > Tolerance))
             PROVE  ~Stale
    BY DEF LiveNeverStale
<1>1. PidAnswers
    BY DEF PidAnswers
<1>2. SameBootAndPIDNamespace
    <2>1. CASE IDsKnown
        <3>1. record.bootID = cachedBootID
            BY <2>1 DEF IInv, RecordInv, WaiterInv, Judged, IDsKnown
        <3>2. platform = "darwin" \/ record.hostname = hostname
            BY <2>1
        <3> QED
            BY <2>1, <3>1, <3>2 DEF IDsKnown, SameBootAndPIDNamespace
    <2>2. CASE ~IDsKnown
        <3>1. record.hostname = hostname /\ ~(Abs(record.bootAt - BootAt) > Tolerance)
            BY <2>2
        <3>2. Abs(record.bootAt - BootAt) \in Int /\ Tolerance \in Int
            BY Constants DEF IInv, TypeOK, LockRecord, Abs, BootAt, Now, UptimeAt, Elapsed
        <3>3. SameBoot
            BY <2>2, <3>1, <3>2 DEF SameBoot, IDsKnown
        <3> QED
            BY <2>2, <3>1, <3>3 DEF IDsKnown, SameBootAndPIDNamespace
    <2> QED
        BY <2>1, <2>2
<1>3. CheckLiveness = "alive"
    BY <1>1, <1>2 DEF CheckLiveness
<1> QED
    BY <1>3 DEF Stale

(* Within the TTL neither clock has come so far that a record of time 0    *)
(* looks old.                                                              *)
LEMMA FreshRecords == IInv => FreshNeverStale
<1> SUFFICES ASSUME IInv, Judged, alive, time <= Ttl,
                    wall = 0 \/ (where = "here" /\ record.hostname = hostname /\ drift = 0)
             PROVE  ~Stale
    BY DEF FreshNeverStale
<1> USE Constants
<1>1. /\ time \in Nat /\ wall \in Int /\ drift \in Nat /\ bootedAt \in Int
      /\ record.startedAt = 0 /\ record.uptimeAt \in Int /\ bootedAt <= time
    BY DEF IInv, TypeOK, RecordInv, MachineInv, LockRecord
<1>2. wall = 0 => Now = time /\ ~(Now - record.startedAt > Ttl) /\ ~(Now < record.startedAt)
    BY <1>1 DEF Now
<1>3. CASE where = "illegible"
    BY <1>2, <1>3 DEF Stale
<1>4. CASE where = "elsewhere"
    <2>1. record.hostname # hostname /\ wall = 0
        BY <1>4 DEF IInv, RecordInv, MachineInv
    <2>2. ~SameBootAndPIDNamespace
        BY <1>4, <2>1, Constants
        DEF SameBootAndPIDNamespace, IInv, RecordInv, MachineInv, WaiterInv, Judged
    <2>3. CheckLiveness = "unknown"
        BY <2>2 DEF CheckLiveness
    <2>4. ~StaleUnknown
        BY <1>2, <2>1 DEF StaleUnknown
    <2> QED
        BY <1>4, <2>3, <2>4 DEF Stale
<1>5. CASE where = "here"
    <2>1. bootedAt <= 0 /\ record.uptimeAt = 0 - bootedAt
        BY <1>5 DEF IInv, RecordInv
    <2>2. UptimeAt \in Nat /\ ~(UptimeAt - record.uptimeAt > Ttl)
        BY <1>1, <2>1 DEF UptimeAt, Elapsed
    <2>3. drift = 0 => ~(UptimeAt - record.uptimeAt < 0)
        BY <1>1, <2>1 DEF UptimeAt, Elapsed
    <2>4. ~StaleUnknown
        BY <1>2, <2>2, <2>3 DEF StaleUnknown, StaleByWallClock
    <2>5. CheckLiveness # "dead"
        BY <1>5 DEF CheckLiveness, PidAnswers
    <2> QED
        BY <1>5, <2>4, <2>5 DEF Stale
<1> QED
    BY <1>3, <1>4, <1>5 DEF IInv, TypeOK

(* When both clocks show that the TTL is over, or both that the record is  *)
(* of another boot, no branch of the verdict keeps it.                     *)
LEMMA DeadHolders == IInv => DeadGoesStale
<1> SUFFICES ASSUME IInv, Judged, ~alive, ~reused, PastTtl \/ FromTheFuture
             PROVE  Stale
    BY DEF DeadGoesStale
<1> USE Constants
<1>1. UptimeAt \in Int /\ record.uptimeAt \in Int /\ Now \in Int /\ record.startedAt \in Int
    BY DEF IInv, TypeOK, LockRecord, UptimeAt, Elapsed, Now
<1>2. CASE where = "illegible"
    BY <1>2 DEF Stale, PastTtl, FromTheFuture
<1>3. CASE where # "illegible"
    <2>1. CheckLiveness \in {"unknown", "dead"}
        BY DEF CheckLiveness, PidAnswers
    <2>2. StaleUnknown
        <3>1. CASE PastTtl
            BY <1>1, <3>1 DEF PastTtl, StaleUnknown
        <3>2. CASE FromTheFuture
            BY <1>1, <3>2 DEF FromTheFuture, StaleUnknown, StaleByWallClock
        <3> QED
            BY <3>1, <3>2
    <2> QED
        BY <1>3, <2>1, <2>2 DEF Stale
<1> QED
    BY <1>2, <1>3

(* A live holder keeps its lock, a holder nobody can judge has its TTL, a  *)
(* dead one loses its lock in the end, and the fallback for a missing boot *)
(* id is taken for a reason (liveness.ts 75-111, record.ts 52-118).        *)
THEOREM Staleness == Spec => []StalenessRight
<1>1. Init => IInv
    BY InitIInv
<1>2. IInv /\ [Next]_vars => IInv'
    BY NextIInv
<1>3. IInv => StalenessRight
    BY LiveHolders, FreshRecords, DeadHolders DEF StalenessRight, IInv, WaiterInv
<1> QED
    BY <1>1, <1>2, <1>3, PTL DEF Spec
=============================================================================
