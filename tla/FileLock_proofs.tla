-------------------------- MODULE FileLock_proofs --------------------------
(***************************************************************************)
(* Proofs about FileLock for any calls, processes, inode numbers and any   *)
(* number of restarts, with files that vanish, change hands or are         *)
(* unlinked under the wrong check.                                         *)
(***************************************************************************)
EXTENDS FileLock, TLAPS

Active == Pending \cup Holding

(* Only a call whose turn has not come waits for others. *)
TurnsTaken == \A c \in Call : pc[c] # "queued" => ahead[c] = {}

(* Of two calls in the queue of a process the later waits for the earlier. *)
InOrder ==
    \A c, o \in Call :
        c # o /\ Owner[c] = Owner[o] /\ pc[c] \in Active /\ pc[o] \in Active =>
            c \in ahead[o] \/ o \in ahead[c]

QueueInv == SlotsHandedOn /\ TurnsTaken /\ InOrder

(* The calls of a dead process have ended, or were never made. *)
DeadAreEnded == \A c \in Call : Owner[c] \notin up => pc[c] \in Ended \cup {"idle"}

(* A record is written by a call that has been made. *)
Written(file) == file # None /\ file.by # Corrupt => pc[file.by] # "idle"

AllWritten == Written(lock) /\ \A c \in Call : Written(seen[c])

(* The unlink of a reap follows a check that found the file judged stale. *)
CheckedIsSeen == \A c \in Call : pc[c] = "unlink" => checked[c] = seen[c]

EntryInv == VerdictStands /\ DeadAreEnded /\ AllWritten /\ CheckedIsSeen

IInv == TypeOK /\ QueueInv /\ EntryInv /\ HoldersOwnTheFile

-----------------------------------------------------------------------------
(* The part of TypeOK that a call which moves on disturbs. *)
CallsTyped ==
    /\ pc \in [Call -> Pending \cup Holding \cup Ended \cup {"idle"}]
    /\ seen \in [Call -> File \cup {None}]
    /\ checked \in [Call -> File \cup {None}]
    /\ \A c \in Call : pc[c] \in {"desync", "check", "unlink"} \cup Holding => seen[c] \in File

(* A call that moves on to a place of its own keeps the types, as long as  *)
(* it has an entry where it needs one.                                     *)
LEMMA GoTypes ==
    ASSUME TypeOK, NEW c \in Call, NEW there \in Active \cup Ended, Go(c, there),
           there \in {"desync", "check", "unlink"} \cup Holding => seen[c] \in File
    PROVE  CallsTyped'
<1>1. pc' \in [Call -> Pending \cup Holding \cup Ended \cup {"idle"}]
  BY DEF TypeOK, Go, Active
<1>2. seen' \in [Call -> File \cup {None}] /\ checked' \in [Call -> File \cup {None}]
  BY DEF TypeOK, Go
<1>3. ASSUME NEW o \in Call, pc'[o] \in {"desync", "check", "unlink"} \cup Holding
      PROVE  seen'[o] \in File
  <2>1. CASE o = c
    BY <1>3, <2>1 DEF TypeOK, Go, Holding, Ended
  <2>2. CASE o # c
    BY <1>3, <2>2 DEF TypeOK, Go
  <2> QED BY <2>1, <2>2
<1> QED BY <1>1, <1>2, <1>3 DEF CallsTyped

LEMMA EndTypes ==
    ASSUME TypeOK, NEW c \in Call, NEW there \in Ended, End(c, there)
    PROVE  CallsTyped' /\ ahead' \in [Call -> SUBSET Call] /\ aborted' \subseteq Call
<1>1. ahead' \in [Call -> SUBSET Call] /\ aborted' \subseteq Call
  BY DEF TypeOK, End
<1>2. Go(c, there) /\ there \in Active \cup Ended /\ there \notin {"desync", "check", "unlink"} \cup Holding
  BY DEF End, Ended, Holding
<1> QED BY <1>1, <1>2, GoTypes

LEMMA StayTypes ==
    ASSUME TypeOK, NEW c \in Call, NEW there \in Active, Stay(c, there),
           there \in {"desync", "check", "unlink"} \cup Holding => seen[c] \in File
    PROVE  CallsTyped' /\ ahead' \in [Call -> SUBSET Call] /\ aborted' \subseteq Call
<1>1. ahead' \in [Call -> SUBSET Call] /\ aborted' \subseteq Call
  BY DEF TypeOK, Stay
<1>2. Go(c, there)
  BY DEF Stay
<1> QED BY <1>1, <1>2, GoTypes

LEMMA WaitTypes ==
    ASSUME TypeOK, NEW c \in Call, Wait(c)
    PROVE  CallsTyped' /\ ahead' \in [Call -> SUBSET Call] /\ aborted' \subseteq Call
<1>1. CASE c \in TryLock
  BY <1>1, EndTypes DEF Wait, Ended
<1>2. CASE c \notin TryLock
  BY <1>2, StayTypes DEF Wait, Active, Pending, Holding
<1> QED BY <1>1, <1>2

-----------------------------------------------------------------------------
(* The initial state and every step keep the types. *)
LEMMA InitTypeOK == Init => TypeOK
<1> SUFFICES ASSUME Init PROVE TypeOK
  OBVIOUS
<1>1. lock \in File \cup {None}
  BY DEF Init, File
<1>2. restarts \in 0..MaxRestarts
  BY LockAssumption DEF Init
<1> QED BY <1>1, <1>2 DEF Init, TypeOK, Holding

LEMMA StepTypeOK ==
    ASSUME TypeOK, [Next]_vars
    PROVE  TypeOK'
<1> USE DEF TypeOK, CallsTyped
<1>1. ASSUME NEW c \in Call, Enter(c) PROVE TypeOK'
  <2>1. CallsTyped'
    BY <1>1, GoTypes DEF Enter, Active, Pending, Ended, Holding
  <2>2. ahead' \in [Call -> SUBSET Call]
    BY <1>1 DEF Enter, InQueue
  <2> QED BY <1>1, <2>1, <2>2 DEF Enter
<1>2. ASSUME NEW c \in Call, Deadline(c) PROVE TypeOK'
  BY <1>2 DEF Deadline
<1>3. ASSUME NEW c \in Call, Throw(c) PROVE TypeOK'
  BY <1>3, EndTypes DEF Throw, Ended
<1>4. ASSUME NEW c \in Call, ReleaseCheck(c) PROVE TypeOK'
  <2>1. seen[c] \in File
    BY <1>4 DEF ReleaseCheck, Holding
  <2> QED BY <1>4, <2>1, StayTypes, EndTypes DEF ReleaseCheck, Active, Holding, Ended
<1>5. ASSUME NEW c \in Call, Step(c) PROVE TypeOK'
  <2>1. CASE GiveUp(c)
    BY <2>1, EndTypes DEF GiveUp, Ended
  <2>2. CASE Turn(c)
    BY <2>2, StayTypes DEF Turn, Active, Pending, Holding
  <2>3. CASE Write(c)
    <3>1. CallsTyped' /\ ahead' \in [Call -> SUBSET Call] /\ aborted' \subseteq Call
      BY <2>3, StayTypes DEF Write, Active, Pending, Holding
    <3> QED BY ZenonT(40), <2>3, <3>1 DEF Write
  <2>4. CASE Link(c)
    <3>1. CASE tmp[c] # None /\ lock = None
      <4> DEFINE own == [inode |-> tmp[c], by |-> c]
      <4>1. own \in File
        BY <3>1 DEF File
      <4>2. /\ lock' = own /\ seen' = [seen EXCEPT ![c] = own] /\ pc' = [pc EXCEPT ![c] = "held"]
            /\ checked' = checked /\ ahead' = ahead /\ aborted' = aborted \ {c}
        BY <2>4, <3>1 DEF Link
      <4>3. tmp' \in [Call -> Inode \cup {None}]
        BY <2>4, <3>1 DEF Link
      <4>4. CallsTyped'
        BY <4>1, <4>2 DEF Holding
      <4> QED BY <2>4, <4>1, <4>2, <4>3, <4>4 DEF Link
    <3>2. CASE ~(tmp[c] # None /\ lock = None)
      BY <2>4, <3>2, StayTypes DEF Link, Active, Pending, Holding
    <3> QED BY <3>1, <3>2
  <2>5. CASE Look(c)
    BY <2>5 DEF Look, Pending, Holding
  <2>6. CASE Judge(c)
    <3>1. CallsTyped' /\ ahead' \in [Call -> SUBSET Call] /\ aborted' \subseteq Call
      BY <2>6, StayTypes, WaitTypes DEF Judge, Active, Pending, Holding
    <3> QED BY <2>6, <3>1 DEF Judge
  <2>7. CASE Wake(c)
    <3>1. CallsTyped' /\ ahead' \in [Call -> SUBSET Call] /\ aborted' \subseteq Call
      BY <2>7, StayTypes DEF Wake, Active, Pending, Holding
    <3> QED BY <2>7, <3>1 DEF Wake
  <2>8. CASE ReapCheck(c)
    <3>1. CallsTyped' /\ ahead' \in [Call -> SUBSET Call] /\ aborted' \subseteq Call
      BY <2>8, StayTypes, WaitTypes DEF ReapCheck, Active, Pending, Holding
    <3> QED BY <2>8, <3>1 DEF ReapCheck
  <2>9. CASE ReapUnlink(c)
    <3>1. CallsTyped' /\ ahead' \in [Call -> SUBSET Call] /\ aborted' \subseteq Call
      BY <2>9, StayTypes, WaitTypes DEF ReapUnlink, Active, Pending, Holding
    <3> QED BY <2>9, <3>1 DEF ReapUnlink, Unlink
  <2>10. CASE ReleaseUnlink(c)
    BY <2>10, EndTypes DEF ReleaseUnlink, Unlink, Ended
  <2> QED BY <1>5, <2>1, <2>2, <2>3, <2>4, <2>5, <2>6, <2>7, <2>8, <2>9, <2>10 DEF Step
<1>6. ASSUME NEW p \in Process, Crash(p) PROVE TypeOK'
  <2>1. CallsTyped'
    BY <1>6 DEF Crash, Ended, Holding, Pending
  <2> QED BY <1>6, <2>1 DEF Crash
<1>7. ASSUME NEW p \in Process, Restart(p) PROVE TypeOK'
  BY <1>7, LockAssumption DEF Restart
<1>8. CASE Age
  BY <1>8 DEF Age
<1>9. CASE UNCHANGED vars
  BY <1>9 DEF vars
<1> QED BY <1>1, <1>2, <1>3, <1>4, <1>5, <1>6, <1>7, <1>8, <1>9 DEF Next

-----------------------------------------------------------------------------
(* The queue of a process sees a call enter, advance without being queued  *)
(* again, or leave.                                                        *)
Advances(c) ==
    /\ pc[c] \in Active /\ ahead[c] = {} /\ ahead' = ahead
    /\ \E there \in Active \ {"queued"} : pc' = [pc EXCEPT ![c] = there]

Leaves(c) ==
    /\ \E there \in Ended : pc' = [pc EXCEPT ![c] = there]
    /\ ahead' = [o \in Call |-> IF o = c THEN {} ELSE ahead[o] \ {c}]

LEMMA AdvanceKeepsQueue ==
    ASSUME TypeOK, QueueInv, NEW c \in Call, Advances(c)
    PROVE  QueueInv'
<1>1. PICK there \in Active \ {"queued"} : pc' = [pc EXCEPT ![c] = there]
  BY DEF Advances
<1>2. \A o \in Call : pc'[o] \in Active <=> pc[o] \in Active
  BY <1>1 DEF Advances, TypeOK
<1>3. SlotsHandedOn'
  BY <1>2 DEF QueueInv, SlotsHandedOn, Advances, TypeOK, Active
<1>4. TurnsTaken'
  BY <1>1 DEF QueueInv, TurnsTaken, Advances, TypeOK
<1>5. InOrder'
  BY <1>2 DEF QueueInv, InOrder, Advances
<1> QED BY <1>3, <1>4, <1>5 DEF QueueInv

LEMMA LeaveKeepsQueue ==
    ASSUME TypeOK, QueueInv, NEW c \in Call, Leaves(c)
    PROVE  QueueInv'
<1>1. PICK there \in Ended : pc' = [pc EXCEPT ![c] = there]
  BY DEF Leaves
<1>2. pc'[c] \notin Active /\ \A o \in Call \ {c} : pc'[o] = pc[o]
  BY <1>1 DEF TypeOK, Active, Pending, Holding, Ended
<1>3. ahead' = [o \in Call |-> IF o = c THEN {} ELSE ahead[o] \ {c}]
  BY DEF Leaves
<1>4. SlotsHandedOn'
  BY <1>2, <1>3 DEF QueueInv, SlotsHandedOn, TypeOK, Active
<1>5. TurnsTaken'
  BY <1>2, <1>3 DEF QueueInv, TurnsTaken
<1>6. InOrder'
  BY <1>2, <1>3 DEF QueueInv, InOrder
<1> QED BY <1>4, <1>5, <1>6 DEF QueueInv

LEMMA EnterKeepsQueue ==
    ASSUME TypeOK, QueueInv, NEW c \in Call, Enter(c)
    PROVE  QueueInv'
<1> DEFINE before == InQueue(Owner[c])
<1>1. pc[c] = "idle" /\ pc[c] \notin Active
  BY DEF Enter, Active, Pending, Holding
<1>2. c \notin before /\ before = {o \in Call : Owner[o] = Owner[c] /\ pc[o] \in Active}
  BY <1>1 DEF InQueue, Active
<1>3. CASE c \in TryLock /\ before # {}
  <2>1. pc' = [pc EXCEPT ![c] = "failed"] /\ ahead' = ahead
    BY <1>3 DEF Enter, Go
  <2>2. ahead[c] = {} /\ \A o \in Call : c \notin ahead[o]
    BY <1>1 DEF QueueInv, TurnsTaken, SlotsHandedOn, Active
  <2>3. ahead' = [o \in Call |-> IF o = c THEN {} ELSE ahead[o] \ {c}]
    BY <2>1, <2>2 DEF TypeOK
  <2> QED BY <2>1, <2>3, LeaveKeepsQueue DEF Leaves, Ended
<1>4. CASE ~(c \in TryLock /\ before # {})
  <2>1. pc' = [pc EXCEPT ![c] = "queued"] /\ ahead' = [ahead EXCEPT ![c] = before]
    BY <1>4 DEF Enter, Go
  <2>2. pc'[c] = "queued" /\ ahead'[c] = before
    BY <2>1 DEF TypeOK
  <2>3. \A o \in Call \ {c} : pc'[o] = pc[o] /\ ahead'[o] = ahead[o]
    BY <2>1 DEF TypeOK
  <2>4. SlotsHandedOn'
    BY <1>1, <1>2, <2>2, <2>3 DEF QueueInv, SlotsHandedOn, TypeOK, Active
  <2>5. TurnsTaken'
    BY <2>2, <2>3 DEF QueueInv, TurnsTaken
  <2>6. InOrder'
    <3> SUFFICES ASSUME NEW a \in Call, NEW o \in Call, a # o, Owner[a] = Owner[o],
                        pc'[a] \in Active, pc'[o] \in Active
                 PROVE  a \in ahead'[o] \/ o \in ahead'[a]
      BY DEF InOrder, Active
    <3>1. CASE a = c
      BY <3>1, <1>2, <2>2, <2>3
    <3>2. CASE o = c
      BY <3>2, <1>2, <2>2, <2>3
    <3>3. CASE a # c /\ o # c
      BY <3>3, <2>3 DEF QueueInv, InOrder
    <3> QED BY <3>1, <3>2, <3>3
  <2> QED BY <2>4, <2>5, <2>6 DEF QueueInv
<1> QED BY <1>3, <1>4

LEMMA CrashKeepsQueue ==
    ASSUME TypeOK, QueueInv, NEW p \in Process, Crash(p)
    PROVE  QueueInv'
<1>1. InQueue(p) = {c \in Call : Owner[c] = p /\ pc[c] \in Active}
  BY DEF InQueue, Active
<1>2. \A c \in Call : c \in InQueue(p) => pc'[c] = "gone" /\ ahead'[c] = {}
  BY DEF Crash
<1>3. \A c \in Call : c \notin InQueue(p) => pc'[c] = pc[c] /\ ahead'[c] = ahead[c]
  BY DEF Crash
<1>4. "gone" \notin Active
  BY DEF Active, Pending, Holding
<1>5. SlotsHandedOn'
  <2> SUFFICES ASSUME NEW c \in Call, NEW o \in ahead'[c]
               PROVE  o # c /\ Owner[o] = Owner[c] /\ pc'[o] \in Active
    BY DEF SlotsHandedOn, Active
  <2>1. c \notin InQueue(p) /\ o \in ahead[c] /\ o \in Call
    BY <1>2, <1>3 DEF TypeOK
  <2>2. o # c /\ Owner[o] = Owner[c] /\ pc[o] \in Active /\ pc[c] = "queued"
    BY <2>1 DEF QueueInv, SlotsHandedOn, TurnsTaken, Active
  <2>3. Owner[c] # p
    BY <1>1, <2>1, <2>2 DEF Active, Pending
  <2> QED BY <1>1, <1>3, <2>1, <2>2, <2>3
<1>6. TurnsTaken'
  BY <1>2, <1>3 DEF QueueInv, TurnsTaken
<1>7. InOrder'
  BY <1>2, <1>3, <1>4 DEF QueueInv, InOrder
<1> QED BY <1>5, <1>6, <1>7 DEF QueueInv

LEMMA StepQueueInv ==
    ASSUME TypeOK, QueueInv, [Next]_vars
    PROVE  QueueInv'
<1>1. ASSUME NEW c \in Call, NEW there \in Active \ {"queued"}, Stay(c, there),
             pc[c] \in Active, pc[c] # "queued" \/ ahead[c] = {}
      PROVE  QueueInv'
  <2>1. ahead[c] = {}
    BY <1>1 DEF QueueInv, TurnsTaken
  <2> QED BY <1>1, <2>1, AdvanceKeepsQueue DEF Stay, Go, Advances
<1>2. ASSUME NEW c \in Call, NEW there \in Ended, End(c, there)
      PROVE  QueueInv'
  BY <1>2, LeaveKeepsQueue DEF End, Go, Leaves
<1>3. ASSUME NEW c \in Call, Wait(c), pc[c] \in Active, pc[c] # "queued"
      PROVE  QueueInv'
  BY <1>1, <1>2, <1>3 DEF Wait, Active, Pending, Holding, Ended
<1>4. ASSUME UNCHANGED <<pc, ahead>>
      PROVE  QueueInv'
  BY <1>4 DEF QueueInv, SlotsHandedOn, TurnsTaken, InOrder
<1>5. ASSUME NEW c \in Call, Enter(c) PROVE QueueInv'
  BY <1>5, EnterKeepsQueue
<1>6. ASSUME NEW c \in Call, Deadline(c) PROVE QueueInv'
  BY <1>4, <1>6 DEF Deadline
<1>7. ASSUME NEW c \in Call, Throw(c) PROVE QueueInv'
  BY <1>2, <1>7 DEF Throw, Ended
<1>8. ASSUME NEW c \in Call, ReleaseCheck(c) PROVE QueueInv'
  BY <1>1, <1>2, <1>8 DEF ReleaseCheck, Active, Pending, Holding, Ended
<1>9. ASSUME NEW c \in Call, Step(c) PROVE QueueInv'
  <2>1. CASE GiveUp(c)
    BY <2>1, <1>2 DEF GiveUp, Ended
  <2>2. CASE Turn(c)
    BY <2>2, <1>1 DEF Turn, Active, Pending, Holding
  <2>3. CASE Write(c)
    BY <2>3, <1>1 DEF Write, Active, Pending, Holding
  <2>4. CASE Link(c)
    <3>1. CASE tmp[c] # None /\ lock = None
      <4>1. pc' = [pc EXCEPT ![c] = "held"] /\ ahead' = ahead /\ pc[c] = "link"
        BY <2>4, <3>1 DEF Link
      <4>2. ahead[c] = {}
        BY <4>1 DEF QueueInv, TurnsTaken
      <4> QED BY <4>1, <4>2, AdvanceKeepsQueue DEF Advances, Active, Pending, Holding
    <3>2. CASE ~(tmp[c] # None /\ lock = None)
      BY <2>4, <3>2, <1>1 DEF Link, Active, Pending, Holding
    <3> QED BY <3>1, <3>2
  <2>5. CASE Look(c)
    <3>1. pc' = [pc EXCEPT ![c] = "judge"] /\ ahead' = ahead /\ pc[c] = "look"
      BY <2>5 DEF Look
    <3>2. ahead[c] = {}
      BY <3>1 DEF QueueInv, TurnsTaken
    <3> QED BY <3>1, <3>2, AdvanceKeepsQueue DEF Advances, Active, Pending, Holding
  <2>6. CASE Judge(c)
    BY <2>6, <1>1, <1>3 DEF Judge, Active, Pending, Holding
  <2>7. CASE Wake(c)
    BY <2>7, <1>1 DEF Wake, Active, Pending, Holding
  <2>8. CASE ReapCheck(c)
    BY <2>8, <1>1, <1>3 DEF ReapCheck, Active, Pending, Holding
  <2>9. CASE ReapUnlink(c)
    BY <2>9, <1>1, <1>3 DEF ReapUnlink, Active, Pending, Holding
  <2>10. CASE ReleaseUnlink(c)
    BY <2>10, <1>2 DEF ReleaseUnlink, Ended
  <2> QED BY <1>9, <2>1, <2>2, <2>3, <2>4, <2>5, <2>6, <2>7, <2>8, <2>9, <2>10 DEF Step
<1>10. ASSUME NEW p \in Process, Crash(p) PROVE QueueInv'
  BY <1>10, CrashKeepsQueue
<1>11. ASSUME NEW p \in Process, Restart(p) PROVE QueueInv'
  BY <1>4, <1>11 DEF Restart
<1>12. CASE Age
  BY <1>4, <1>12 DEF Age
<1>13. CASE UNCHANGED vars
  BY <1>4, <1>13 DEF vars
<1> QED BY <1>5, <1>6, <1>7, <1>8, <1>9, <1>10, <1>11, <1>12, <1>13 DEF Next

-----------------------------------------------------------------------------
(* A call whose turn to hold has come has no holder beside it. *)
LEMMA HoldsAlone ==
    ASSUME TypeOK, QueueInv, [Next]_vars
    PROVE  SoleHolderStep
<1> SUFFICES ASSUME NEW c \in Call, pc[c] # "held", pc'[c] = "held",
                    NEW o \in Call, Owner[o] = Owner[c], o # c
             PROVE  pc[o] \notin Holding
  BY DEF SoleHolderStep
<1>1. pc[c] = "link"
  <2>1. \A d \in Call, there \in (Ended \cup Active) \ {"held"} : Go(d, there) => pc'[c] # "held" \/ pc'[c] = pc[c]
    BY DEF Go, TypeOK, Ended
  <2>2. \A d \in Call, there \in (Ended \cup Active) \ {"held"} :
            Stay(d, there) \/ End(d, there) => pc'[c] # "held" \/ pc'[c] = pc[c]
    BY <2>1 DEF Stay, End
  <2>3. \A d \in Call : Wait(d) => pc'[c] # "held" \/ pc'[c] = pc[c]
    BY <2>2 DEF Wait, Active, Pending, Holding, Ended
  <2>4. ASSUME NEW d \in Call, Enter(d) \/ Deadline(d) \/ Throw(d) \/ ReleaseCheck(d)
        PROVE  pc'[c] # "held" \/ pc'[c] = pc[c]
    BY <2>1, <2>2, <2>4 DEF Enter, Deadline, Throw, ReleaseCheck, Active, Pending, Holding, Ended
  <2>5. ASSUME NEW d \in Call, GiveUp(d) \/ Turn(d) \/ Write(d) \/ Wake(d) \/ ReleaseUnlink(d)
        PROVE  pc'[c] # "held" \/ pc'[c] = pc[c]
    BY <2>2, <2>5 DEF GiveUp, Turn, Write, Wake, ReleaseUnlink, Active, Pending, Holding, Ended
  <2>6. ASSUME NEW d \in Call, Judge(d) \/ ReapCheck(d) \/ ReapUnlink(d)
        PROVE  pc'[c] # "held" \/ pc'[c] = pc[c]
    BY <2>2, <2>3, <2>6 DEF Judge, ReapCheck, ReapUnlink, Active, Pending, Holding, Ended
  <2>7. ASSUME NEW d \in Call, Look(d)
        PROVE  pc'[c] # "held" \/ pc'[c] = pc[c]
    BY <2>7 DEF Look, TypeOK
  <2>8. ASSUME NEW d \in Call, Link(d)
        PROVE  pc'[c] # "held" \/ pc'[c] = pc[c] \/ (d = c /\ pc[d] = "link")
    <3>1. CASE tmp[d] # None /\ lock = None
      BY <2>8, <3>1 DEF Link, TypeOK
    <3>2. CASE ~(tmp[d] # None /\ lock = None)
      BY <2>8, <3>2, <2>2 DEF Link, Active, Pending, Holding
    <3> QED BY <3>1, <3>2
  <2>9. ASSUME NEW p \in Process, Crash(p) \/ Restart(p)
        PROVE  pc'[c] # "held" \/ pc'[c] = pc[c]
    BY <2>9 DEF Crash, Restart
  <2>10. Age \/ UNCHANGED vars => pc'[c] = pc[c]
    BY DEF Age, vars
  <2> QED BY <2>4, <2>5, <2>6, <2>7, <2>8, <2>9, <2>10 DEF Next, Step
<1>2. ASSUME pc[o] \in Holding PROVE FALSE
  <2>1. pc[o] # "queued" /\ pc[o] \in Active /\ pc[c] \in Active
    BY <1>1, <1>2 DEF Active, Pending, Holding
  <2>2. ahead[o] = {} /\ ahead[c] = {}
    BY <1>1, <2>1 DEF QueueInv, TurnsTaken
  <2> QED BY <2>1, <2>2 DEF QueueInv, InOrder
<1> QED BY <1>2

-----------------------------------------------------------------------------
(* Calls that have ended stay so, and none comes back to its beginning. *)
PcOnward ==
    \A c \in Call : /\ pc[c] \in Ended => pc'[c] = pc[c]
                    /\ pc[c] # "idle" => pc'[c] # "idle"

LEMMA StepPcOnward ==
    ASSUME TypeOK, [Next]_vars
    PROVE  PcOnward
<1>1. ASSUME NEW c \in Call, NEW there \in Active \cup Ended,
             pc[c] \notin Ended, pc' = [pc EXCEPT ![c] = there]
      PROVE  PcOnward
  BY <1>1 DEF PcOnward, TypeOK, Active, Pending, Holding, Ended
<1>2. ASSUME NEW c \in Call, NEW there \in Active \cup Ended,
             pc[c] \notin Ended, Go(c, there) \/ Stay(c, there) \/ End(c, there)
      PROVE  PcOnward
  BY <1>1, <1>2 DEF Go, Stay, End
<1>3. ASSUME NEW c \in Call, pc[c] \notin Ended, Wait(c)
      PROVE  PcOnward
  BY <1>2, <1>3 DEF Wait, Active, Pending, Ended
<1>4. ASSUME UNCHANGED pc
      PROVE  PcOnward
  BY <1>4 DEF PcOnward
<1>5. ASSUME NEW c \in Call, Enter(c) \/ Deadline(c) \/ Throw(c) \/ ReleaseCheck(c)
      PROVE  PcOnward
  <2>1. CASE Enter(c)
    BY <2>1, <1>2 DEF Enter, Active, Pending, Ended
  <2>2. CASE Deadline(c)
    BY <2>2, <1>4 DEF Deadline
  <2>3. CASE Throw(c)
    BY <2>3, <1>2 DEF Throw, Ended
  <2>4. CASE ReleaseCheck(c)
    BY <2>4, <1>2 DEF ReleaseCheck, Active, Holding, Ended
  <2> QED BY <1>5, <2>1, <2>2, <2>3, <2>4
<1>6. ASSUME NEW c \in Call, Step(c)
      PROVE  PcOnward
  <2>1. CASE GiveUp(c)
    BY <2>1, <1>2 DEF GiveUp, Ended
  <2>2. CASE Turn(c) \/ Write(c) \/ Wake(c)
    BY <2>2, <1>2 DEF Turn, Write, Wake, Active, Pending, Ended
  <2>3. CASE Link(c)
    <3>1. CASE tmp[c] # None /\ lock = None
      BY <2>3, <3>1, <1>1 DEF Link, Active, Holding, Ended
    <3>2. CASE ~(tmp[c] # None /\ lock = None)
      BY <2>3, <3>2, <1>2 DEF Link, Active, Pending, Ended
    <3> QED BY <3>1, <3>2
  <2>4. CASE Look(c)
    BY <2>4, <1>1 DEF Look, Active, Pending, Ended
  <2>5. CASE Judge(c) \/ ReapCheck(c) \/ ReapUnlink(c)
    BY <2>5, <1>2, <1>3 DEF Judge, ReapCheck, ReapUnlink, Active, Pending, Ended
  <2>6. CASE ReleaseUnlink(c)
    BY <2>6, <1>2 DEF ReleaseUnlink, Ended
  <2> QED BY <1>6, <2>1, <2>2, <2>3, <2>4, <2>5, <2>6 DEF Step
<1>7. ASSUME NEW p \in Process, Crash(p) \/ Restart(p)
      PROVE  PcOnward
  <2>1. \A c \in Call : pc'[c] = pc[c] \/ (pc[c] \in Active /\ pc'[c] = "gone")
    BY <1>7 DEF Crash, Restart, InQueue, Active
  <2> QED BY <2>1 DEF PcOnward, Active, Pending, Holding, Ended
<1>8. CASE Age \/ UNCHANGED vars
  BY <1>8, <1>4 DEF Age, vars
<1> QED BY <1>5, <1>6, <1>7, <1>8 DEF Next

-----------------------------------------------------------------------------
(* A call that waits gets no entry, and one that stays keeps the entries   *)
(* of the others. *)
LEMMA EntriesKept ==
    ASSUME TypeOK, NEW c \in Call, NEW there \in Active \cup Ended,
           Go(c, there) \/ Stay(c, there) \/ End(c, there)
    PROVE  /\ pc'[c] = there
           /\ seen'[c] = IF there \in {"claim", "backoff"} \cup Ended THEN None ELSE seen[c]
           /\ checked'[c] = IF there \in {"unlink", "drop"} THEN lock ELSE None
           /\ \A o \in Call \ {c} : pc'[o] = pc[o] /\ seen'[o] = seen[o] /\ checked'[o] = checked[o]
BY DEF Go, Stay, End, TypeOK

LEMMA WaitKeeps ==
    ASSUME TypeOK, NEW c \in Call, Wait(c)
    PROVE  /\ pc'[c] \in {"failed", "backoff"} /\ seen'[c] = None /\ checked'[c] = None
           /\ \A o \in Call \ {c} : pc'[o] = pc[o] /\ seen'[o] = seen[o] /\ checked'[o] = checked[o]
<1>1. CASE c \in TryLock
  BY <1>1, EntriesKept DEF Wait, Ended
<1>2. CASE c \notin TryLock
  BY <1>2, EntriesKept DEF Wait, Active, Pending
<1> QED BY <1>1, <1>2

-----------------------------------------------------------------------------
Others(c) ==
    \A o \in Call \ {c} : pc'[o] = pc[o] /\ seen'[o] = seen[o] /\ checked'[o] = checked[o]

(* A step of a call c: the file stays, is taken away or becomes c's own,   *)
(* and c reaps only what it has found stale, or has just found stale.      *)
StepOf(c) ==
    /\ Others(c) /\ up' = up
    /\ pc[c] \in Active \/ Owner[c] \in up
    /\ lock' \in {lock, None} \/ (lock' # None /\ lock'.by = c /\ pc'[c] # "idle")
    /\ seen'[c] \in {seen[c], lock, lock', None}
    /\ pc'[c] \in {"desync", "check", "unlink"} =>
          /\ seen'[c] = seen[c] /\ seen[c] \in File
          /\ \/ pc[c] \in {"desync", "check", "unlink"}
             \/ seen[c].by # Corrupt => pc[seen[c].by] \in Ended
    /\ pc'[c] = "unlink" => checked'[c] = seen'[c]

LEMMA WrittenStays ==
    ASSUME NEW file \in File \cup {None}, Written(file), PcOnward
    PROVE  file # None /\ file.by # Corrupt => pc'[file.by] # "idle"
BY DEF Written, PcOnward, File

LEMMA CallStep ==
    ASSUME TypeOK, EntryInv, PcOnward, NEW c \in Call, StepOf(c)
    PROVE  EntryInv'
<1>1. \A o \in Call : seen[o] \in File \cup {None}
  BY DEF TypeOK
<1>2. VerdictStands'
  <2> SUFFICES ASSUME NEW o \in Call, pc'[o] \in {"desync", "check", "unlink"},
                      seen'[o].by # Corrupt
               PROVE  pc'[seen'[o].by] \in Ended
    BY DEF VerdictStands
  <2>1. seen'[o] = seen[o] /\ pc[seen[o].by] \in Ended
    BY DEF StepOf, Others, EntryInv, VerdictStands
  <2>2. o # c => pc[o] \in {"desync", "check", "unlink"}
    BY DEF StepOf, Others
  <2>3. pc[seen[o].by] # "idle"
    BY <2>1 DEF Ended
  <2>4. seen'[o] \in File
    <3>1. CASE o # c
      BY <3>1, <2>1, <2>2 DEF TypeOK
    <3>2. CASE o = c
      BY <3>2, <2>1 DEF StepOf
    <3> QED BY <3>1, <3>2
  <2>5. seen[o].by \in Call
    BY <2>1, <2>4 DEF File
  <2> QED BY <2>1, <2>5 DEF PcOnward
<1>3. DeadAreEnded'
  BY DEF StepOf, Others, EntryInv, DeadAreEnded, PcOnward, Active, Pending, Holding, Ended
<1>4. AllWritten'
  <2>1. lock \in File \cup {None}
    BY DEF TypeOK
  <2>2. Written(lock)'
    BY <2>1, WrittenStays DEF StepOf, Written, EntryInv, AllWritten
  <2>3. ASSUME NEW o \in Call PROVE Written(seen[o])'
    <3>1. seen'[o] \in {seen[o], lock, lock', None}
      BY DEF StepOf, Others
    <3>2. Written(seen[o]) /\ Written(lock)
      BY DEF EntryInv, AllWritten
    <3> QED BY <1>1, <2>1, <2>2, <3>1, <3>2, WrittenStays DEF Written
  <2> QED BY <2>2, <2>3 DEF AllWritten
<1>5. CheckedIsSeen'
  BY DEF StepOf, Others, EntryInv, CheckedIsSeen
<1> QED BY <1>2, <1>3, <1>4, <1>5 DEF EntryInv

LEMMA WaitStep ==
    ASSUME TypeOK, NEW c \in Call, Wait(c), pc[c] \in Active, up' = up, lock' \in {lock, None}
    PROVE  StepOf(c)
BY WaitKeeps DEF StepOf, Others

LEMMA GoStep ==
    ASSUME TypeOK, EntryInv, NEW c \in Call, NEW there \in Active \cup Ended,
           Go(c, there) \/ Stay(c, there) \/ End(c, there),
           pc[c] \in Active \/ Owner[c] \in up, up' = up, lock' \in {lock, None},
           there \in {"desync", "check", "unlink"} =>
              /\ seen[c] \in File
              /\ \/ pc[c] \in {"desync", "check", "unlink"}
                 \/ seen[c].by # Corrupt => pc[seen[c].by] \in Ended,
           there = "unlink" => lock = seen[c]
    PROVE  StepOf(c)
BY EntriesKept DEF StepOf, Others, Ended

LEMMA StepEntryInv ==
    ASSUME TypeOK, EntryInv, [Next]_vars
    PROVE  EntryInv'
<1>1. PcOnward
  BY StepPcOnward
<1>2. ASSUME UNCHANGED <<pc, seen, checked, lock, up>>
      PROVE  EntryInv'
  BY <1>2 DEF EntryInv, VerdictStands, DeadAreEnded, AllWritten, Written, CheckedIsSeen
<1>3. ASSUME NEW c \in Call, Enter(c) PROVE StepOf(c)
  BY <1>3, GoStep DEF Enter, Active, Pending, Ended
<1>4. ASSUME NEW c \in Call, Throw(c) PROVE StepOf(c)
  BY <1>4, GoStep DEF Throw, Active, Pending, Ended
<1>5. ASSUME NEW c \in Call, ReleaseCheck(c) PROVE StepOf(c)
  BY <1>5, GoStep DEF ReleaseCheck, Active, Holding, Ended
<1>6. ASSUME NEW c \in Call, Step(c) PROVE StepOf(c)
  <2>1. CASE GiveUp(c)
    BY <2>1, GoStep DEF GiveUp, Active, Pending, Ended
  <2>2. CASE Turn(c) \/ Write(c)
    BY <2>2, GoStep DEF Turn, Write, Active, Pending
  <2>3. CASE Link(c)
    <3>1. CASE tmp[c] # None /\ lock = None
      <4>1. /\ pc' = [pc EXCEPT ![c] = "held"] /\ checked' = checked /\ up' = up
            /\ lock' = [inode |-> tmp[c], by |-> c] /\ seen' = [seen EXCEPT ![c] = lock']
            /\ pc[c] = "link"
        BY <2>3, <3>1 DEF Link
      <4>2. lock' # None
        BY <3>1, <4>1, FileAssumption DEF TypeOK, File
      <4> QED BY <4>1, <4>2 DEF StepOf, Others, TypeOK, Active, Pending
    <3>2. CASE ~(tmp[c] # None /\ lock = None)
      BY <2>3, <3>2, GoStep DEF Link, Active, Pending
    <3> QED BY <3>1, <3>2
  <2>4. CASE Look(c)
    BY <2>4 DEF Look, StepOf, Others, TypeOK, Active, Pending
  <2>5. CASE Judge(c)
    <3>1. CASE seen[c] # None /\ Stale(seen[c])
      <4>1. seen[c] \in File
        BY <3>1 DEF TypeOK
      <4>2. seen[c].by # Corrupt => Owner[seen[c].by] \notin up /\ seen[c].by \in Call
        BY <3>1, <4>1 DEF Stale, File
      <4>3. seen[c].by # Corrupt => pc[seen[c].by] \in Ended
        BY <3>1, <4>2 DEF EntryInv, DeadAreEnded, AllWritten, Written
      <4> QED BY <2>5, <3>1, <4>1, <4>3, GoStep DEF Judge, Active, Pending
    <3>2. CASE ~(seen[c] # None /\ Stale(seen[c]))
      BY <2>5, <3>2, WaitStep DEF Judge, Active, Pending
    <3> QED BY <3>1, <3>2
  <2>6. CASE Wake(c)
    BY <2>6, GoStep DEF Wake, Active, Pending, TypeOK
  <2>7. CASE ReapCheck(c)
    <3>1. CASE SameLockFile(lock, seen[c])
      <4>1. lock \in File /\ seen[c] \in File
        BY <2>7, <3>1 DEF ReapCheck, SameLockFile, TypeOK
      <4>2. lock = seen[c]
        BY <3>1, <4>1 DEF SameLockFile, File
      <4> QED BY <2>7, <3>1, <4>1, <4>2, GoStep DEF ReapCheck, Active, Pending
    <3>2. CASE ~SameLockFile(lock, seen[c])
      BY <2>7, <3>2, WaitStep DEF ReapCheck, Active, Pending
    <3> QED BY <3>1, <3>2
  <2>8. CASE ReapUnlink(c)
    BY <2>8, GoStep, WaitStep DEF ReapUnlink, Unlink, Active, Pending
  <2>9. CASE ReleaseUnlink(c)
    BY <2>9, GoStep DEF ReleaseUnlink, Unlink, Active, Holding, Ended
  <2> QED BY <1>6, <2>1, <2>2, <2>3, <2>4, <2>5, <2>6, <2>7, <2>8, <2>9 DEF Step
<1>7. ASSUME NEW p \in Process, Crash(p) PROVE EntryInv'
  <2> DEFINE lost == InQueue(p)
  <2>1. \A c \in Call : c \in lost => pc'[c] = "gone" /\ seen'[c] = None /\ checked'[c] = None
    BY <1>7 DEF Crash
  <2>2. \A c \in Call : c \notin lost => pc'[c] = pc[c] /\ seen'[c] = seen[c] /\ checked'[c] = checked[c]
    BY <1>7 DEF Crash
  <2>3. lock' = lock /\ up' = up \ {p}
    BY <1>7 DEF Crash
  <2> HIDE DEF lost
  <2>4. VerdictStands'
    <3> SUFFICES ASSUME NEW c \in Call, pc'[c] \in {"desync", "check", "unlink"},
                        seen'[c].by # Corrupt
                 PROVE  pc'[seen'[c].by] \in Ended
      BY DEF VerdictStands
    <3>1. c \notin lost /\ seen'[c] = seen[c] /\ pc[c] = pc'[c]
      BY <2>1, <2>2
    <3>2. seen[c].by \in Call /\ pc[seen[c].by] \in Ended
      BY <3>1 DEF EntryInv, VerdictStands, TypeOK, File
    <3> QED BY <1>1, <3>1, <3>2 DEF PcOnward
  <2>5. DeadAreEnded'
    <3> SUFFICES ASSUME NEW c \in Call, Owner[c] \notin up' PROVE pc'[c] \in Ended \cup {"idle"}
      BY DEF DeadAreEnded
    <3>1. CASE c \in lost
      BY <3>1, <2>1 DEF Ended
    <3>2. CASE c \notin lost /\ Owner[c] = p
      BY <3>2, <2>2 DEF lost, InQueue, TypeOK
    <3>3. CASE Owner[c] # p
      BY <3>3, <2>1, <2>2, <2>3 DEF EntryInv, DeadAreEnded, Ended
    <3> QED BY <3>1, <3>2, <3>3
  <2>6. AllWritten'
    <3>1. Written(lock)'
      BY <1>1, <2>3, WrittenStays DEF EntryInv, AllWritten, Written, TypeOK
    <3>2. ASSUME NEW c \in Call PROVE Written(seen[c])'
      BY <1>1, <2>1, <2>2, WrittenStays DEF EntryInv, AllWritten, Written, TypeOK
    <3> QED BY <3>1, <3>2 DEF AllWritten
  <2>7. CheckedIsSeen'
    BY <2>1, <2>2 DEF EntryInv, CheckedIsSeen
  <2> QED BY <2>4, <2>5, <2>6, <2>7 DEF EntryInv
<1>8. ASSUME NEW p \in Process, Restart(p) PROVE EntryInv'
  BY <1>8 DEF Restart, EntryInv, VerdictStands, DeadAreEnded, AllWritten, Written, CheckedIsSeen
<1>9. ASSUME NEW c \in Call, Deadline(c) PROVE EntryInv'
  BY <1>2, <1>9 DEF Deadline
<1>10. CASE Age \/ UNCHANGED vars
  BY <1>2, <1>10 DEF Age, vars
<1> QED BY CallStep, <1>1, <1>3, <1>4, <1>5, <1>6, <1>7, <1>8, <1>9, <1>10 DEF Next

-----------------------------------------------------------------------------
(* The holders keep their file as long as no unlink takes it, and an       *)
(* unlink takes it unnoticed only from a call that has ended.              *)
LEMMA HoldersKept ==
    ASSUME HoldersOwnTheFile, lock' = lock, raced' = raced,
           \A c \in Call : pc'[c] \in Holding => pc[c] \in Holding /\ seen'[c] = seen[c]
    PROVE  HoldersOwnTheFile'
BY DEF HoldersOwnTheFile

LEMMA UnlinkKeepsHolders ==
    ASSUME TypeOK, HoldersOwnTheFile, NEW c \in Call, Unlink(c),
           \A o \in Call : pc'[o] \in Holding => pc[o] \in Holding /\ o # c,
           ~raced /\ lock # None /\ lock = checked[c] /\ lock.by \in Call \ {c}
              => pc[lock.by] \notin Holding
    PROVE  HoldersOwnTheFile'
<1> SUFFICES ASSUME ~raced', NEW o \in Call, pc'[o] \in Holding PROVE FALSE
  BY DEF HoldersOwnTheFile
<1>1. ~raced /\ (lock = None \/ lock = checked[c])
  BY DEF Unlink
<1>2. pc[o] \in Holding /\ o # c
  OBVIOUS
<1>3. lock = seen[o] /\ seen[o].by = o /\ seen[o] \in File
  BY <1>1, <1>2 DEF HoldersOwnTheFile, TypeOK
<1> QED BY <1>1, <1>2, <1>3, FileAssumption

LEMMA StepHolders ==
    ASSUME TypeOK, EntryInv, HoldersOwnTheFile, [Next]_vars
    PROVE  HoldersOwnTheFile'
<1>1. ASSUME NEW c \in Call, NEW there \in Active \cup Ended, there # "held",
             Go(c, there) \/ Stay(c, there) \/ End(c, there),
             there = "drop" => pc[c] = "held"
      PROVE  \A o \in Call : pc'[o] \in Holding => pc[o] \in Holding /\ seen'[o] = seen[o]
  BY <1>1, EntriesKept DEF Holding, Ended
<1>2. ASSUME NEW c \in Call, Wait(c)
      PROVE  \A o \in Call : pc'[o] \in Holding => pc[o] \in Holding /\ o # c /\ seen'[o] = seen[o]
  BY <1>2, WaitKeeps DEF Holding
<1>3. ASSUME NEW c \in Call, Enter(c) PROVE HoldersOwnTheFile'
  BY <1>3, <1>1, HoldersKept DEF Enter, Active, Pending, Ended
<1>4. ASSUME NEW c \in Call, Deadline(c) PROVE HoldersOwnTheFile'
  BY <1>4, HoldersKept DEF Deadline
<1>5. ASSUME NEW c \in Call, Throw(c) PROVE HoldersOwnTheFile'
  BY <1>5, <1>1, HoldersKept DEF Throw, Ended
<1>6. ASSUME NEW c \in Call, ReleaseCheck(c) PROVE HoldersOwnTheFile'
  BY <1>6, <1>1, HoldersKept DEF ReleaseCheck, Active, Holding, Ended
<1>7. ASSUME NEW c \in Call, Step(c) PROVE HoldersOwnTheFile'
  <2>1. CASE GiveUp(c)
    BY <2>1, <1>1, HoldersKept DEF GiveUp, Ended
  <2>2. CASE Turn(c) \/ Write(c) \/ Wake(c)
    BY <2>2, <1>1, HoldersKept DEF Turn, Write, Wake, Active, Pending
  <2>3. CASE Link(c)
    <3>1. CASE tmp[c] # None /\ lock = None
      <4>1. /\ pc' = [pc EXCEPT ![c] = "held"] /\ raced' = raced
            /\ lock' = [inode |-> tmp[c], by |-> c] /\ seen' = [seen EXCEPT ![c] = lock']
        BY <2>3, <3>1 DEF Link
      <4>2. ~raced => \A o \in Call : pc[o] \notin Holding
        BY <3>1, FileAssumption DEF HoldersOwnTheFile, TypeOK
      <4>3. pc'[c] = "held" /\ seen'[c] = lock' /\ \A o \in Call \ {c} : pc'[o] = pc[o]
        BY <4>1 DEF TypeOK
      <4> QED BY <4>1, <4>2, <4>3 DEF HoldersOwnTheFile
    <3>2. CASE ~(tmp[c] # None /\ lock = None)
      BY <2>3, <3>2, <1>1, HoldersKept DEF Link, Active, Pending
    <3> QED BY <3>1, <3>2
  <2>4. CASE Look(c)
    BY <2>4, HoldersKept DEF Look, TypeOK, Holding
  <2>5. CASE Judge(c)
    BY <2>5, <1>1, <1>2, HoldersKept DEF Judge, Active, Pending
  <2>6. CASE ReapCheck(c)
    BY <2>6, <1>1, <1>2, HoldersKept DEF ReapCheck, Active, Pending
  <2>7. CASE ReapUnlink(c)
    <3>1. \A o \in Call : pc'[o] \in Holding => pc[o] \in Holding /\ o # c
      <4>1. CASE lock = None
        BY <2>7, <4>1, <1>2 DEF ReapUnlink
      <4>2. CASE lock # None
        BY <2>7, <4>2, <1>1, EntriesKept DEF ReapUnlink, Active, Pending, Holding
      <4> QED BY <4>1, <4>2
    <3>2. ASSUME lock # None, lock = checked[c], lock.by \in Call
          PROVE  pc[lock.by] \notin Holding
      <4>1. lock = seen[c] /\ pc[c] = "unlink"
        BY <2>7, <3>2 DEF ReapUnlink, EntryInv, CheckedIsSeen
      <4>2. lock.by # Corrupt
        BY <3>2, LockAssumption
      <4>3. pc[lock.by] \in Ended
        BY <4>1, <4>2 DEF EntryInv, VerdictStands
      <4> QED BY <4>3 DEF Ended, Holding
    <3> QED BY <2>7, <3>1, <3>2, UnlinkKeepsHolders DEF ReapUnlink
  <2>8. CASE ReleaseUnlink(c)
    <3>1. \A o \in Call : pc'[o] \in Holding => pc[o] \in Holding /\ o # c
      BY <2>8, EntriesKept DEF ReleaseUnlink, Holding, Ended
    <3>2. ~raced => lock.by = c
      BY <2>8 DEF ReleaseUnlink, HoldersOwnTheFile, Holding
    <3> QED BY <2>8, <3>1, <3>2, UnlinkKeepsHolders DEF ReleaseUnlink
  <2> QED BY <1>7, <2>1, <2>2, <2>3, <2>4, <2>5, <2>6, <2>7, <2>8 DEF Step
<1>8. ASSUME NEW p \in Process, Crash(p) PROVE HoldersOwnTheFile'
  <2>1. \A o \in Call : pc'[o] \in Holding => pc[o] \in Holding /\ seen'[o] = seen[o]
    BY <1>8 DEF Crash, Holding
  <2> QED BY <1>8, <2>1, HoldersKept DEF Crash
<1>9. ASSUME NEW p \in Process, Restart(p) PROVE HoldersOwnTheFile'
  BY <1>9, HoldersKept DEF Restart
<1>10. CASE Age \/ UNCHANGED vars
  BY <1>10, HoldersKept DEF Age, vars
<1> QED BY <1>3, <1>4, <1>5, <1>6, <1>7, <1>8, <1>9, <1>10 DEF Next

-----------------------------------------------------------------------------
(* Who waits for whom, who owns the file and what the calls know of it     *)
(* hold in every behaviour.                                                *)
LEMMA Invariance == Spec => []IInv
<1>1. Init => IInv
  <2> SUFFICES ASSUME Init PROVE IInv
    OBVIOUS
  <2>1. TypeOK
    BY InitTypeOK
  <2>2. QueueInv
    BY DEF Init, QueueInv, SlotsHandedOn, TurnsTaken, InOrder, Active, Pending, Holding
  <2>3. EntryInv
    BY LockAssumption DEF Init, EntryInv, VerdictStands, DeadAreEnded, AllWritten, Written, CheckedIsSeen
  <2>4. HoldersOwnTheFile
    BY DEF Init, HoldersOwnTheFile, Holding
  <2> QED BY <2>1, <2>2, <2>3, <2>4 DEF IInv
<1>2. IInv /\ [Next]_vars => IInv'
  BY StepTypeOK, StepQueueInv, StepEntryInv, StepHolders DEF IInv
<1> QED BY <1>1, <1>2, PTL DEF Spec

(* Whatever reads, sleeps, crashes and restarts lie between the verdict on *)
(* a holder and the unlink of its file: as long as nobody has fallen into  *)
(* the window between the check and the unlink of a reap (file.ts), no     *)
(* live holder loses its file, and the writer of a file found stale has    *)
(* ended, even when the inode number or the pid has come back.             *)
THEOREM Reaps == Spec => []ReapsRight
<1>1. IInv => ReapsRight
  BY DEF IInv, EntryInv, ReapsRight
<1> QED BY <1>1, Invariance, PTL

(* Outside that window at most one call of all processes holds the lock.   *)
THEOREM OneHolder ==
    Spec => [](~raced => \A c, o \in Call : pc[c] \in Holding /\ pc[o] \in Holding => c = o)
<1>1. IInv => (~raced => \A c, o \in Call : pc[c] \in Holding /\ pc[o] \in Holding => c = o)
  BY DEF IInv, HoldersOwnTheFile
<1> QED BY <1>1, Invariance, PTL

(* Every exit of an acquisition, also by a deadline, an error or a crash,  *)
(* hands its slot on: nobody waits for a call that has left (lock.ts).     *)
THEOREM Slots == Spec => []SlotsHandedOn
<1>1. IInv => SlotsHandedOn
  BY DEF IInv, QueueInv
<1> QED BY <1>1, Invariance, PTL

(* Inside the window, too, two calls of one process never hold the lock at *)
(* once: a call gets it only when the others of its process have left      *)
(* (queue.ts).                                                             *)
THEOREM OneHolderInProcess == Spec => OneHolderPerProcess
<1>1. IInv /\ [Next]_vars => [SoleHolderStep]_vars
  BY HoldsAlone DEF IInv
<1> QED BY <1>1, Invariance, PTL DEF Spec, OneHolderPerProcess
=============================================================================
