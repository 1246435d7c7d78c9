------------------------- MODULE KeyedQueue_proofs -------------------------
(***************************************************************************)
(* Proofs about KeyedQueue for any sets of slots and keys.                 *)
(***************************************************************************)
EXTENDS KeyedQueue, FiniteSetTheorems, TLAPS

(* A slot nobody was handed yet has left no trace. *)
Fresh ==
    \A s \in Slot : key[s] = None =>
        /\ turn[s] = None /\ before[s] = {}
        /\ s \notin released \cup settled \cup watching \cup free \cup inside

(* A slot awaits the promise of the one right before it, or found every    *)
(* earlier promise settled.                                                *)
Chained ==
    \A s \in Slot : key[s] # None =>
        /\ before[s] \subseteq On(key[s]) /\ s \notin before[s]
        /\ turn[s] = None => before[s] \subseteq settled
        /\ turn[s] # None =>
              turn[s] \in before[s] /\ before[s] = before[turn[s]] \cup {turn[s]}

(* Promises settle in the order of entry, after the release. *)
SettledInOrder ==
    \A s \in settled : s \in released /\ before[s] \subseteq settled

(* The entry of a key holds its latest slot, and is dropped only when      *)
(* every promise of the key has settled.                                   *)
Tails ==
    \A k \in Key :
        /\ queue[k] = None => On(k) \subseteq settled
        /\ queue[k] # None => /\ key[queue[k].tail] = k
                              /\ On(k) = before[queue[k].tail] \cup {queue[k].tail}

InTurn == \A s \in inside : s \notin released /\ before[s] \subseteq settled

Ordered ==
    \A s, o \in Slot : key[s] = key[o] /\ key[s] # None =>
        s = o \/ s \in before[o] \/ o \in before[s]

Counted ==
    \A k \in Key :
        /\ IsFiniteSet(On(k))
        /\ queue[k] # None => queue[k].holding = Cardinality(Holders(k))

IInv == /\ TypeOK /\ Fresh /\ Chained /\ SettledInOrder
        /\ Tails /\ InTurn /\ Ordered /\ Counted

-----------------------------------------------------------------------------
(* A slot whose turn has come has every earlier promise settled. *)
LEMMA TurnBefore ==
    ASSUME IInv, NEW s \in Slot, key[s] # None, TurnCame(s)
    PROVE  before[s] \subseteq settled
<1>1. CASE turn[s] = None
  BY <1>1 DEF IInv, Chained
<1>2. CASE turn[s] # None
  <2>1. turn[s] \in settled
    BY <1>2 DEF TurnCame
  <2>2. before[turn[s]] \subseteq settled
    BY <2>1 DEF IInv, SettledInOrder
  <2>3. before[s] = before[turn[s]] \cup {turn[s]}
    BY <1>2 DEF IInv, Chained
  <2> QED BY <2>1, <2>2, <2>3
<1> QED BY <1>1, <1>2

(* A key with an unreleased slot has an entry. *)
LEMMA HeldHasEntry ==
    ASSUME IInv, NEW s \in Slot, key[s] # None, s \notin released
    PROVE  key[s] \in Key /\ queue[key[s]] # None
<1>1. key[s] \in Key /\ s \in On(key[s])
  BY DEF IInv, TypeOK, On
<1>2. s \notin settled
  BY DEF IInv, SettledInOrder
<1> QED BY <1>1, <1>2 DEF IInv, Tails

LEMMA HoldersFinite ==
    ASSUME Counted, NEW k \in Key
    PROVE  IsFiniteSet(Holders(k)) /\ Cardinality(Holders(k)) \in Nat
<1>1. Holders(k) \in SUBSET On(k) /\ IsFiniteSet(On(k))
  BY DEF Counted, Holders
<1> QED BY <1>1, FS_Subset, FS_CardinalityType

LEMMA InitIInv == Init => IInv
<1> SUFFICES ASSUME Init PROVE IInv
  OBVIOUS
<1>1. \A k \in Key : On(k) = {}
  BY KeyAssumption DEF Init, On
<1>2. TypeOK
  BY DEF Init, TypeOK
<1>3. Fresh /\ Chained /\ SettledInOrder /\ InTurn /\ Ordered
  BY DEF Init, Fresh, Chained, SettledInOrder, InTurn, Ordered
<1>4. Tails
  BY <1>1 DEF Init, Tails
<1>5. Counted
  BY <1>1, FS_EmptySet DEF Init, Counted
<1> QED BY <1>2, <1>3, <1>4, <1>5 DEF IInv

-----------------------------------------------------------------------------
LEMMA EnterIInv ==
    ASSUME IInv, NEW s \in Slot, NEW k \in Key, Enter(s, k)
    PROVE  IInv'
<1> DEFINE holding == IF queue[k] = None THEN 0 ELSE queue[k].holding
<1>1. /\ key[s] = None
      /\ key' = [key EXCEPT ![s] = k]
      /\ turn' = [turn EXCEPT ![s] = IF queue[k] = None THEN None ELSE queue[k].tail]
      /\ free' = IF holding = 0 THEN free \cup {s} ELSE free
      /\ queue' = [queue EXCEPT ![k] = [tail |-> s, holding |-> holding + 1]]
      /\ before' = [before EXCEPT ![s] = On(k)]
      /\ UNCHANGED <<released, settled, watching, inside>>
  BY DEF Enter
<1>2. TypeOK /\ Fresh /\ Chained /\ SettledInOrder /\ Tails /\ InTurn /\ Ordered /\ Counted
  BY DEF IInv
<1>3. holding = Cardinality(Holders(k)) /\ holding \in Nat
  <2>1. CASE queue[k] = None
    <3>1. Holders(k) = {}
      BY <1>2, <2>1 DEF Tails, SettledInOrder, Holders
    <3> QED BY <2>1, <3>1, FS_EmptySet
  <2>2. CASE queue[k] # None
    BY <2>2, <1>2, HoldersFinite DEF Counted
  <2> QED BY <2>1, <2>2
<1> HIDE DEF holding
<1>4. /\ s \notin On(k) /\ On(k)' = On(k) \cup {s}
      /\ \A j \in Key : j # k => On(j)' = On(j)
      /\ \A o \in Slot : o # s => key'[o] = key[o] /\ turn'[o] = turn[o] /\ before'[o] = before[o]
      /\ key'[s] = k /\ before'[s] = On(k)
      /\ turn'[s] = IF queue[k] = None THEN None ELSE queue[k].tail
  BY <1>1, <1>2, KeyAssumption DEF On, TypeOK
<1>5. TypeOK'
  <2>1. queue'[k] \in Entry /\ queue' \in [Key -> Entry \cup {None}]
    BY <1>1, <1>2, <1>3 DEF TypeOK, Entry
  <2>2. turn' \in [Slot -> Slot \cup {None}]
    BY <1>1, <1>2, EntryAssumption DEF TypeOK, Entry
  <2>3. before' \in [Slot -> SUBSET Slot]
    BY <1>1, <1>2 DEF TypeOK, On
  <2> QED BY <1>1, <1>2, <2>1, <2>2, <2>3 DEF TypeOK
<1>6. s \notin released \cup settled \cup watching \cup inside
  BY <1>1, <1>2 DEF Fresh
<1>7. Fresh'
  BY <1>1, <1>2, <1>4, KeyAssumption DEF Fresh
<1>8. On(k) \subseteq settled \/ queue[k] # None
  BY <1>2 DEF Tails
<1>9. \A j \in Key : On(j) \subseteq On(j)'
  BY <1>4
<1>10. Chained'
  <2> SUFFICES ASSUME NEW o \in Slot, key'[o] # None
               PROVE  /\ before'[o] \subseteq On(key[o])' /\ o \notin before'[o]
                      /\ turn'[o] = None => before'[o] \subseteq settled'
                      /\ turn'[o] # None =>
                            /\ turn'[o] \in before'[o]
                            /\ before'[o] = before'[turn'[o]] \cup {turn'[o]}
    BY DEF Chained
  <2>1. CASE o = s
    <3>1. On(key[s])' = On(k)'
      BY <1>4 DEF On
    <3>2. queue[k] # None => /\ queue[k].tail \in On(k) /\ queue[k].tail # None
                             /\ queue[k].tail # s
                             /\ On(k) = before[queue[k].tail] \cup {queue[k].tail}
      BY <1>2, <1>4, KeyAssumption DEF Tails, TypeOK, Entry, On
    <3>3. queue[k] # None => queue[k].tail \in Slot
      BY <3>2 DEF On
    <3> QED BY <1>1, <1>4, <1>8, <2>1, <3>1, <3>2, <3>3
  <2>2. CASE o # s
    <3>1. /\ key[o] # None /\ key'[o] = key[o] /\ key[o] \in Key
          /\ turn'[o] = turn[o] /\ before'[o] = before[o]
      BY <1>2, <1>4, <2>2 DEF TypeOK
    <3>2. On(key[o])' = {x \in Slot : key'[x] = key[o]}
      BY <3>1 DEF On
    <3>3. On(key[o]) \subseteq On(key[o])'
      BY <3>1, <3>2, <1>9, <1>4, <1>1 DEF On
    <3>4. turn[o] # None => turn[o] \in Slot /\ turn[o] # s
      <4> SUFFICES ASSUME turn[o] # None PROVE turn[o] \in Slot /\ turn[o] # s
        OBVIOUS
      <4>1. turn[o] \in before[o] /\ before[o] \subseteq On(key[o])
        BY <1>2, <3>1 DEF Chained
      <4>2. turn[o] \in Slot /\ key[turn[o]] # None
        BY <4>1, <3>1 DEF On
      <4> QED BY <4>2, <1>1
    <3>5. turn[o] # None => before'[turn[o]] = before[turn[o]]
      BY <3>4, <1>4
    <3> QED BY <1>1, <1>2, <3>1, <3>3, <3>5 DEF Chained
  <2> QED BY <2>1, <2>2
<1>11. SettledInOrder'
  BY <1>1, <1>2, <1>4, <1>6 DEF SettledInOrder, TypeOK
<1>12. Tails'
  <2> SUFFICES ASSUME NEW j \in Key
               PROVE  /\ queue'[j] = None => On(j)' \subseteq settled'
                      /\ queue'[j] # None =>
                            /\ key'[queue'[j].tail] = j
                            /\ On(j)' = before'[queue'[j].tail] \cup {queue'[j].tail}
    BY DEF Tails
  <2>1. CASE j = k
    <3>1. queue'[k] = [tail |-> s, holding |-> holding + 1]
      BY <1>1, <1>2 DEF TypeOK
    <3>2. queue'[k] # None
      BY <3>1, <1>3, EntryAssumption DEF Entry
    <3> QED BY <1>4, <2>1, <3>1, <3>2
  <2>2. CASE j # k
    <3>1. queue'[j] = queue[j] /\ On(j)' = On(j)
      BY <1>1, <1>2, <1>4, <2>2 DEF TypeOK
    <3>2. queue[j] # None => queue[j].tail \in Slot /\ queue[j].tail # s
      BY <1>1, <1>2, KeyAssumption DEF TypeOK, Tails, Entry
    <3> QED BY <1>1, <1>2, <1>4, <3>1, <3>2 DEF Tails
  <2> QED BY <2>1, <2>2
<1>13. InTurn'
  BY <1>1, <1>2, <1>4, <1>6 DEF InTurn, TypeOK
<1>14. Ordered'
  <2> SUFFICES ASSUME NEW a \in Slot, NEW b \in Slot, key'[a] = key'[b], key'[a] # None
               PROVE  a = b \/ a \in before'[b] \/ b \in before'[a]
    BY DEF Ordered
  <2>1. CASE a # s /\ b # s
    BY <1>2, <1>4, <2>1 DEF Ordered
  <2>2. CASE a = s /\ b # s
    BY <1>4, <2>2 DEF On
  <2>3. CASE a # s /\ b = s
    BY <1>4, <2>3 DEF On
  <2> QED BY <2>1, <2>2, <2>3
<1>15. Counted'
  <2> SUFFICES ASSUME NEW j \in Key
               PROVE  /\ IsFiniteSet(On(j)')
                      /\ queue'[j] # None => queue'[j].holding = Cardinality(Holders(j)')
    BY DEF Counted
  <2>1. CASE j = k
    <3>1. IsFiniteSet(On(k) \cup {s})
      BY <1>2, FS_AddElement DEF Counted
    <3>2. Holders(k)' = Holders(k) \cup {s} /\ s \notin Holders(k)
      BY <1>1, <1>4, <1>6 DEF Holders
    <3>3. Cardinality(Holders(k) \cup {s}) = holding + 1
      BY <3>2, <1>2, <1>3, HoldersFinite, FS_AddElement
    <3>4. queue'[k].holding = holding + 1
      BY <1>1, <1>2 DEF TypeOK
    <3> QED BY <1>4, <2>1, <3>1, <3>2, <3>3, <3>4
  <2>2. CASE j # k
    <3>1. queue'[j] = queue[j] /\ On(j)' = On(j) /\ Holders(j)' = Holders(j)
      BY <1>1, <1>2, <1>4, <2>2 DEF TypeOK, Holders
    <3> QED BY <1>2, <3>1 DEF Counted
  <2> QED BY <2>1, <2>2
<1> QED BY <1>5, <1>7, <1>10, <1>11, <1>12, <1>13, <1>14, <1>15 DEF IInv

LEMMA TakeTurnIInv ==
    ASSUME IInv, NEW s \in Slot, TakeTurn(s)
    PROVE  IInv'
<1>1. before[s] \subseteq settled
  BY TurnBefore DEF TakeTurn
<1>2. UNCHANGED <<queue, key, turn, released, settled, watching, free, before>>
  BY DEF TakeTurn
<1>3. \A k \in Key : On(k)' = On(k) /\ Holders(k)' = Holders(k)
  BY <1>2 DEF On, Holders
<1>4. TypeOK' /\ Fresh' /\ InTurn'
  BY <1>1 DEF IInv, TypeOK, Fresh, InTurn, TakeTurn
<1>5. Chained' /\ Tails' /\ Counted'
  BY <1>2, <1>3 DEF IInv, Chained, Tails, Counted, On
<1>6. SettledInOrder' /\ Ordered'
  BY <1>2 DEF IInv, SettledInOrder, Ordered
<1> QED BY <1>4, <1>5, <1>6 DEF IInv

LEMMA ReleaseIInv ==
    ASSUME IInv, NEW s \in Slot, Release(s)
    PROVE  IInv'
<1> DEFINE k == key[s]
<1>1. /\ k # None /\ s \notin released
      /\ released' = released \cup {s} /\ inside' = inside \ {s}
      /\ watching' = watching \cup {s}
      /\ UNCHANGED <<key, turn, settled, free, before>>
  BY DEF Release
<1>2. k \in Key /\ queue[k] # None /\ s \in Holders(k)
  BY <1>1, HeldHasEntry DEF Holders, On
<1>3. queue' = [queue EXCEPT ![k].holding = @ - 1]
  BY <1>2 DEF Release
<1> HIDE DEF k
<1>4. /\ queue[k] \in Entry
      /\ queue'[k] = [queue[k] EXCEPT !.holding = @ - 1]
      /\ \A j \in Key : j # k => queue'[j] = queue[j]
  BY <1>2, <1>3 DEF IInv, TypeOK
<1>5. queue'[k].tail = queue[k].tail /\ queue'[k].holding = queue[k].holding - 1
  BY <1>4 DEF Entry
<1>6. \A j \in Key : On(j)' = On(j)
  BY <1>1 DEF On
<1>7. /\ queue[k].holding = Cardinality(Holders(k)) /\ queue[k].holding \in Nat
      /\ IsFiniteSet(Holders(k))
  BY <1>2, HoldersFinite DEF IInv, Counted
<1>8. Cardinality(Holders(k) \ {s}) = queue[k].holding - 1
      /\ Cardinality(Holders(k) \ {s}) \in Nat
  BY <1>2, <1>7, FS_RemoveElement, FS_CardinalityType
<1>9. queue'[k] \in Entry /\ queue'[k] # None
  BY <1>4, <1>7, <1>8, EntryAssumption DEF Entry
<1>10. TypeOK'
  <2>1. queue' \in [Key -> Entry \cup {None}]
    BY <1>2, <1>3, <1>4, <1>9 DEF IInv, TypeOK
  <2> QED BY <1>1, <2>1 DEF IInv, TypeOK
<1>11. Fresh' /\ SettledInOrder' /\ Ordered'
  BY <1>1 DEF IInv, Fresh, SettledInOrder, Ordered, k
<1>12. Chained'
  BY <1>1 DEF IInv, Chained, On
<1>13. Tails'
  <2> SUFFICES ASSUME NEW j \in Key
               PROVE  /\ queue'[j] = None => On(j)' \subseteq settled'
                      /\ queue'[j] # None =>
                            /\ key'[queue'[j].tail] = j
                            /\ On(j)' = before'[queue'[j].tail] \cup {queue'[j].tail}
    BY DEF Tails
  <2>1. queue'[j] = None <=> queue[j] = None
    BY <1>2, <1>4, <1>9
  <2>2. queue[j] # None => queue'[j].tail = queue[j].tail
    BY <1>4, <1>5
  <2> QED BY <1>1, <1>6, <2>1, <2>2 DEF IInv, Tails
<1>14. InTurn'
  BY <1>1 DEF IInv, InTurn
<1>15. Counted'
  <2> SUFFICES ASSUME NEW j \in Key
               PROVE  /\ IsFiniteSet(On(j)')
                      /\ queue'[j] # None => queue'[j].holding = Cardinality(Holders(j)')
    BY DEF Counted
  <2>1. IsFiniteSet(On(j)')
    BY <1>6 DEF IInv, Counted
  <2>2. CASE j = k
    <3>1. Holders(j)' = Holders(j) \ {s}
      BY <1>1, <1>6 DEF Holders
    <3>2. queue'[j].holding = queue[k].holding - 1
      BY <1>5, <2>2
    <3> QED BY <2>1, <2>2, <3>1, <3>2, <1>8
  <2>3. CASE j # k
    <3>1. Holders(j)' = Holders(j)
      BY <1>1, <1>6, <2>3 DEF Holders, On, k
    <3> QED BY <2>1, <2>3, <3>1, <1>4 DEF IInv, Counted
  <2> QED BY <2>2, <2>3
<1> QED BY <1>10, <1>11, <1>12, <1>13, <1>14, <1>15 DEF IInv

LEMMA SettleIInv ==
    ASSUME IInv, NEW s \in Slot, Settle(s)
    PROVE  IInv'
<1>1. /\ s \in released \ settled /\ settled' = settled \cup {s}
      /\ UNCHANGED <<queue, key, turn, released, watching, free, inside, before>>
  BY DEF Settle
<1>2. key[s] # None
  BY <1>1 DEF IInv, Fresh
<1>3. before[s] \subseteq settled
  BY <1>2, TurnBefore DEF Settle
<1>4. \A k \in Key : On(k)' = On(k) /\ Holders(k)' = Holders(k)
  BY <1>1 DEF On, Holders
<1>5. TypeOK' /\ Fresh' /\ SettledInOrder' /\ InTurn' /\ Ordered'
  BY <1>1, <1>2, <1>3 DEF IInv, TypeOK, Fresh, SettledInOrder, InTurn, Ordered
<1>6. Chained'
  BY <1>1 DEF IInv, Chained, On
<1>7. Tails' /\ Counted'
  BY <1>1, <1>4 DEF IInv, Tails, Counted
<1> QED BY <1>5, <1>6, <1>7 DEF IInv

LEMMA DropIInv ==
    ASSUME IInv, NEW s \in Slot, Drop(s)
    PROVE  IInv'
<1> DEFINE k == key[s]
<1>1. /\ s \in watching \cap settled /\ watching' = watching \ {s}
      /\ queue' = IF queue[k] # None /\ queue[k].tail = s
                  THEN [queue EXCEPT ![k] = None] ELSE queue
      /\ UNCHANGED <<key, turn, released, settled, free, inside, before>>
  BY DEF Drop
<1>2. k \in Key
  BY <1>1 DEF IInv, Fresh, TypeOK
<1> HIDE DEF k
<1>3. \A j \in Key : On(j)' = On(j) /\ Holders(j)' = Holders(j)
  BY <1>1 DEF On, Holders
<1>4. \A j \in Key : \/ queue'[j] = queue[j]
                     \/ queue'[j] = None /\ queue[j] # None /\ queue[j].tail = s
  BY <1>1, <1>2 DEF IInv, TypeOK
<1>5. TypeOK' /\ Fresh' /\ SettledInOrder' /\ InTurn' /\ Ordered'
  BY <1>1, <1>2 DEF IInv, TypeOK, Fresh, SettledInOrder, InTurn, Ordered
<1>6. Chained'
  BY <1>1 DEF IInv, Chained, On
<1>7. before[s] \cup {s} \subseteq settled
  BY <1>1 DEF IInv, SettledInOrder
<1>8. Tails'
  BY <1>1, <1>3, <1>4, <1>7 DEF IInv, Tails
<1>9. Counted'
  BY <1>3, <1>4 DEF IInv, Counted
<1> QED BY <1>5, <1>6, <1>8, <1>9 DEF IInv

LEMMA StutterIInv ==
    ASSUME IInv, UNCHANGED vars
    PROVE  IInv'
<1>1. \A k \in Key : On(k)' = On(k) /\ Holders(k)' = Holders(k)
  BY DEF vars, On, Holders
<1>2. TypeOK' /\ Fresh' /\ SettledInOrder' /\ InTurn' /\ Ordered'
  BY DEF IInv, vars, TypeOK, Fresh, SettledInOrder, InTurn, Ordered
<1>3. Chained' /\ Tails' /\ Counted'
  BY <1>1 DEF IInv, vars, Chained, Tails, Counted, On
<1> QED BY <1>2, <1>3 DEF IInv

THEOREM Inductive == Spec => []IInv
<1>1. IInv /\ [Next]_vars => IInv'
  <2> SUFFICES ASSUME IInv, [Next]_vars PROVE IInv'
    OBVIOUS
  <2>1. CASE UNCHANGED vars
    BY <2>1, StutterIInv
  <2>2. ASSUME NEW s \in Slot, NEW k \in Key, Enter(s, k) PROVE IInv'
    BY <2>2, EnterIInv
  <2>3. ASSUME NEW s \in Slot, TakeTurn(s) PROVE IInv'
    BY <2>3, TakeTurnIInv
  <2>4. ASSUME NEW s \in Slot, Release(s) PROVE IInv'
    BY <2>4, ReleaseIInv
  <2>5. ASSUME NEW s \in Slot, Settle(s) PROVE IInv'
    BY <2>5, SettleIInv
  <2>6. ASSUME NEW s \in Slot, Drop(s) PROVE IInv'
    BY <2>6, DropIInv
  <2> QED BY <2>1, <2>2, <2>3, <2>4, <2>5, <2>6 DEF Next
<1> QED BY InitIInv, <1>1, PTL DEF Spec

-----------------------------------------------------------------------------
(* The map, the chains and the sets keep their types; a count never goes   *)
(* below zero (keyed-queue.ts, release).                                   *)
THEOREM TypeCorrect == Spec => []TypeOK
BY Inductive, PTL DEF IInv

(* Of two callers on a key one entered first, and the other's turn comes   *)
(* only after it has released.                                             *)
THEOREM Exclusion == Spec => []MutualExclusion
<1>1. IInv => MutualExclusion
  <2> SUFFICES ASSUME IInv, NEW s \in inside, NEW o \in inside, key[s] = key[o], s # o
               PROVE  FALSE
    BY DEF MutualExclusion
  <2>1. s \in Slot /\ o \in Slot /\ key[s] # None
    BY DEF IInv, TypeOK, Fresh
  <2>2. s \in before[o] \/ o \in before[s]
    BY <2>1 DEF IInv, Ordered
  <2>3. s \notin settled /\ o \notin settled
    BY DEF IInv, InTurn, SettledInOrder
  <2> QED BY <2>2, <2>3 DEF IInv, InTurn
<1> QED BY Inductive, <1>1, PTL

(* The count of an entry is the number of its unreleased slots, and a key  *)
(* without an entry has none (the callback in release may drop the entry). *)
THEOREM Holding == Spec => []HoldingExact
<1>1. IInv => HoldingExact
  BY DEF IInv, Tails, Counted, SettledInOrder, HoldingExact, Holders
<1> QED BY Inductive, <1>1, PTL

(* enter tells at once, from the count, whether everybody before released. *)
THEOREM FreeIsExact == Spec => FreeExact
<1>1. IInv /\ [Next]_vars => [FreeStep]_vars
  <2> SUFFICES ASSUME IInv, Next PROVE FreeStep
    OBVIOUS
  <2>1. ASSUME NEW s \in Slot, NEW k \in Key, Enter(s, k) PROVE FreeStep
    <3> DEFINE holding == IF queue[k] = None THEN 0 ELSE queue[k].holding
    <3>1. holding = 0 <=> Holders(k) = {}
      <4>1. CASE queue[k] = None
        BY <4>1 DEF IInv, Tails, SettledInOrder, Holders
      <4>2. CASE queue[k] # None
        <5>1. Counted
          BY DEF IInv
        <5>2. queue[k].holding = Cardinality(Holders(k))
          BY <4>2, <5>1 DEF Counted
        <5> QED BY <4>2, <5>1, <5>2, HoldersFinite, FS_EmptySet
      <4> QED BY <4>1, <4>2
    <3>2. s \in free' <=> (s \in free \/ holding = 0)
      BY <2>1 DEF Enter
    <3>3. key[s] = None /\ key' = [key EXCEPT ![s] = k]
      BY <2>1 DEF Enter
    <3> HIDE DEF holding
    <3>4. s \notin free /\ free' \subseteq free \cup {s}
      BY <3>3, <2>1 DEF IInv, Fresh, Enter
    <3>5. ASSUME NEW o \in Slot, key[o] = None, key'[o] # None
          PROVE  o = s /\ key'[o] = k
      BY <3>3, <3>5 DEF IInv, TypeOK
    <3> QED BY <3>1, <3>2, <3>4, <3>5 DEF FreeStep
  <2>2. ASSUME NEW s \in Slot, TakeTurn(s) \/ Release(s) \/ Settle(s) \/ Drop(s)
        PROVE  FreeStep
    BY <2>2 DEF FreeStep, TakeTurn, Release, Settle, Drop
  <2> QED BY <2>1, <2>2 DEF Next
<1> QED BY Inductive, <1>1, PTL DEF Spec, FreeExact

(* Every step of the chain of promises is a step of the FIFO or none: a    *)
(* caller that waits behind others gets in only when it waits for nobody.  *)
THEOREM Refinement == Spec => ImplementsFifo
<1> DEFINE ahead == [s \in Slot |-> before[s] \ released]
<1>1. Init => Fifo!Init
  BY DEF Init, Fifo!Init
<1>2. IInv /\ [Next]_vars => [Fifo!Next]_(Fifo!vars)
  <2> SUFFICES ASSUME IInv, [Next]_vars PROVE Fifo!Next \/ UNCHANGED Fifo!vars
    OBVIOUS
  <2>1. CASE UNCHANGED vars
    BY <2>1 DEF vars, Fifo!vars
  <2>2. ASSUME NEW s \in Slot, NEW k \in Key, Enter(s, k) PROVE Fifo!Next
    <3>1. /\ key[s] = None /\ key' = [key EXCEPT ![s] = k]
          /\ before' = [before EXCEPT ![s] = On(k)]
          /\ UNCHANGED <<released, inside>>
      BY <2>2 DEF Enter
    <3>2. Fifo!Here(k) = On(k) \ released
      BY DEF Fifo!Here, On
    <3>3. ahead' = [ahead EXCEPT ![s] = On(k) \ released]
      BY <3>1 DEF IInv, TypeOK
    <3>4. Fifo!Enter(s, k)
      BY <3>1, <3>2, <3>3 DEF Fifo!Enter
    <3> QED BY <3>4 DEF Fifo!Next
  <2>3. ASSUME NEW s \in Slot, TakeTurn(s) PROVE Fifo!Next
    <3>1. before[s] \subseteq settled
      BY <2>3, TurnBefore DEF TakeTurn
    <3>2. ahead[s] = {}
      BY <3>1 DEF IInv, SettledInOrder
    <3>3. ahead' = ahead
      BY <2>3 DEF TakeTurn
    <3>4. Fifo!GetIn(s)
      BY <2>3, <3>2, <3>3 DEF TakeTurn, Fifo!GetIn
    <3> QED BY <3>4 DEF Fifo!Next
  <2>4. ASSUME NEW s \in Slot, Release(s) PROVE Fifo!Next
    <3>1. /\ key[s] # None /\ s \notin released
          /\ released' = released \cup {s} /\ inside' = inside \ {s}
          /\ UNCHANGED <<key, before>>
      BY <2>4 DEF Release
    <3>2. ahead' = [o \in Slot |-> ahead[o] \ {s}]
      BY <3>1
    <3>3. Fifo!Leave(s)
      BY <3>1, <3>2 DEF Fifo!Leave
    <3> QED BY <3>3 DEF Fifo!Next
  <2>5. ASSUME NEW s \in Slot, Settle(s) \/ Drop(s) PROVE UNCHANGED Fifo!vars
    BY <2>5 DEF Settle, Drop, Fifo!vars
  <2> QED BY <2>1, <2>2, <2>3, <2>4, <2>5 DEF Next
<1> QED BY Inductive, <1>1, <1>2, PTL DEF Spec, ImplementsFifo, Fifo!Spec
=============================================================================
