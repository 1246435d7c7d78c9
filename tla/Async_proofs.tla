--------------------------- MODULE Async_proofs ---------------------------
(***************************************************************************)
(* Proofs about the components that share one event loop (MCAsync), for    *)
(* any number of items, attempts, callers, writes, links, events and calls.*)
(*                                                                         *)
(* Each component has an invariant of its own.  ...Starts shows that its   *)
(* Init has it, ...Rests that its resting state has it, ...Steps that its  *)
(* steps keep it, ...Stays that it is kept while another component runs.   *)
(* What a step may never do is shown together with it.                     *)
(***************************************************************************)
EXTENDS MCAsync, FiniteSetTheorems, SequenceTheorems, WellFoundedInduction, TLAPS

-----------------------------------------------------------------------------
(* firstInOrder *)

(* A set of naturals that is not empty has a least element. *)
LEMMA LeastOfNaturals ==
    ASSUME NEW S \in SUBSET Nat, S # {}
    PROVE  \E x \in S : \A y \in S : x <= y
<1> DEFINE R == OpToRel(<, Nat)
<1>1. PICK x \in S : \A y \in S : ~ (<<y, x>> \in R)
  <2> HIDE DEF R
  <2> QED BY WFMin, NatLessThanWellFounded DEF R
<1>2. \A y \in S : ~(y < x)
  BY <1>1 DEF OpToRel
<1> QED BY <1>2

(* The first slot that is open, as advance finds it. *)
LEMMA FirstIsFirst ==
    ASSUME NEW n \in Nat, NEW s, DOMAIN s = 1..n, First!Open(s) # {}
    PROVE  /\ First!First(s) \in 1..n /\ s[First!First(s)] \in {"pending", "hit"}
           /\ \A j \in 1..n : j < First!First(s) => s[j] \notin {"pending", "hit"}
<1>1. First!Open(s) \in SUBSET Nat
  BY DEF First!Open
<1>2. First!First(s) \in First!Open(s) /\ \A j \in First!Open(s) : First!First(s) <= j
  BY <1>1, LeastOfNaturals DEF First!First
<1> QED BY <1>1, <1>2 DEF First!Open

(* What a verdict says of the slots it is read off. *)
LEMMA VerdictSays ==
    ASSUME NEW n \in Nat, NEW s \in [1..n -> First!Results \cup {"pending"}]
    PROVE  /\ First!Verdict(s) \in {"none", "hit", "null", "errors"}
           /\ First!Winner(s) \in 0..n
           /\ First!Verdict(s) = "hit" =>
                 /\ First!Winner(s) \in 1..n /\ s[First!Winner(s)] = "hit"
                 /\ \A j \in 1..(First!Winner(s) - 1) : s[j] \in {"miss", "error"}
           /\ First!Verdict(s) = "null" =>
                 /\ \A i \in 1..n : s[i] \in {"miss", "error"}
                 /\ n > 0 => \E i \in 1..n : s[i] = "miss"
           /\ First!Verdict(s) = "errors" => n > 0 /\ \A i \in 1..n : s[i] = "error"
<1>0. \A i \in 1..n : s[i] \in {"pending", "hit", "miss", "error"}
  BY DEF First!Results
<1>1. CASE First!Open(s) # {}
  <2> DEFINE f == First!First(s)
  <2>1. f \in 1..n /\ s[f] \in {"pending", "hit"} /\ \A j \in 1..n : j < f => s[j] \notin {"pending", "hit"}
    BY <1>1, FirstIsFirst
  <2> HIDE DEF f
  <2>2. \A j \in 1..(f - 1) : s[j] \in {"miss", "error"}
    BY <2>1, <1>0
  <2>3. First!Verdict(s) = IF s[f] = "hit" THEN "hit" ELSE "none"
    BY <1>1 DEF First!Verdict, f
  <2>4. First!Winner(s) = IF First!Verdict(s) = "hit" THEN f ELSE 0
    BY DEF First!Winner, f
  <2> QED BY <2>1, <2>2, <2>3, <2>4
<1>2. CASE First!Open(s) = {}
  <2>1. \A i \in 1..n : s[i] \in {"miss", "error"}
    BY <1>2, <1>0 DEF First!Open
  <2>2. First!Verdict(s) = IF n > 0 /\ \A i \in 1..n : s[i] = "error" THEN "errors" ELSE "null"
    BY <1>2 DEF First!Verdict
  <2>3. First!Winner(s) = 0
    BY <2>2 DEF First!Winner
  <2> QED BY <2>1, <2>2, <2>3
<1> QED BY <1>1, <1>2

LEMMA FirstSize == \A S : First!Cardinality(S) = Cardinality(S)
BY DEF First!Cardinality, Cardinality

(* How many calls pump may start. *)
LEMMA RoomIsRight ==
    ASSUME NEW from \in Nat \ {0}, NEW low \in Nat, NEW busy, IsFiniteSet(busy),
           limit \in Nat, Cardinality(busy) <= limit
    PROVE  /\ First!Room(from, busy, low) \in Nat
           /\ First!Room(from, busy, low) # 0 => from + First!Room(from, busy, low) <= low
           /\ \A n \in 0..First!Room(from, busy, low) :
                 /\ IsFiniteSet(busy \cup from..(from + n - 1))
                 /\ Cardinality(busy \cup from..(from + n - 1)) <= limit
<1> DEFINE r == First!Room(from, busy, low)
           size == Cardinality(busy)
<1>0. size \in Nat /\ size <= limit
  BY FS_CardinalityType
<1>1. /\ r \in Nat /\ (r # 0 => from + r <= low) /\ size + r <= limit
  <2>1. r = IF from >= low \/ size >= limit THEN 0
            ELSE IF limit - size <= low - from THEN limit - size ELSE low - from
    BY FirstSize DEF First!Room, First!Lesser
  <2> HIDE DEF r, size
  <2> QED BY <2>1, <1>0
<1>2. ASSUME NEW n \in 0..r
      PROVE  /\ IsFiniteSet(busy \cup from..(from + n - 1))
             /\ Cardinality(busy \cup from..(from + n - 1)) <= limit
  <2> DEFINE T == from..(from + n - 1)
  <2>1. n \in Nat /\ n <= r /\ from + n - 1 \in Int
    BY <1>1
  <2>2. IsFiniteSet(T) /\ Cardinality(T) = n
    BY <2>1, FS_Interval
  <2>3. IsFiniteSet(busy \cap T)
    BY <2>2, FS_Intersection
  <2>4. Cardinality(busy \cap T) \in Nat
    BY <2>3, FS_CardinalityType
  <2> HIDE DEF T
  <2>5. /\ IsFiniteSet(busy \cup T)
        /\ Cardinality(busy \cup T) = size + Cardinality(T) - Cardinality(busy \cap T)
    BY <2>2, FS_Union
  <2>6. Cardinality(busy \cup T) \in Nat
    BY <2>5, FS_CardinalityType
  <2> HIDE DEF size, r
  <2> QED BY <1>0, <1>1, <2>1, <2>2, <2>4, <2>5, <2>6 DEF T
<1> QED BY <1>1, <1>2

(* A call is in flight from its start until it settles; while nothing is   *)
(* decided the slots are what the calls gave, and bound is the lowest hit. *)
FirstBounds ==
    /\ inflight = {i \in 1..(next - 1) : result[i] = "pending"}
    /\ \A i \in next..items : result[i] = "pending"
    /\ outcome = "none" =>
          /\ slots = result
          /\ \A i \in 1..(bound - 1) : slots[i] # "hit"
          /\ bound <= items => slots[bound] = "hit"

FirstSettled ==
    /\ Cardinality(inflight) <= limit
    /\ outcome = "hit" => winner # 0
    /\ answered = (outcome # "none" /\ inflight = {})

FirstInv ==
    /\ First!TypeOK /\ FirstBounds /\ FirstSettled
    /\ First!SignalsExact /\ First!RightAnswer

LEMMA FirstStarts == First!Init => FirstInv
<1> SUFFICES ASSUME First!Init PROVE FirstInv
  OBVIOUS
<1> USE BoundsAssumption
<1>1. /\ items \in Nat /\ items <= MaxItems /\ limit \in Nat /\ limit \in 1..MaxLimit
      /\ bound = items + 1
      /\ slots = [i \in 1..items |-> "pending"] /\ result = slots
  BY DEF First!Init, First!Item
<1>2. slots \in [1..items -> First!Results \cup {"pending"}]
  BY <1>1
<1> DEFINE room == First!Room(1, {}, bound)
<1>3. IsFiniteSet({}) /\ Cardinality({}) = 0
  BY FS_EmptySet
<1>4. /\ room \in Nat /\ room <= items
      /\ \A n \in 0..room : Cardinality({} \cup 1..(1 + n - 1)) <= limit
  <2>1. 1 \in Nat \ {0} /\ bound \in Nat /\ Cardinality({}) <= limit
    BY <1>1, <1>3
  <2>2. /\ room \in Nat /\ (room # 0 => 1 + room <= bound)
        /\ \A n \in 0..room : Cardinality({} \cup 1..(1 + n - 1)) <= limit
    BY <1>1, <1>3, <2>1, RoomIsRight
  <2> HIDE DEF room
  <2> QED BY <1>1, <2>2
<1> HIDE DEF room
<1>5. PICK n \in 0..room : next = 1 + n
  BY <1>4 DEF First!Init, room
<1>6. inflight = 1..n /\ Cardinality(inflight) <= limit
  <2>1. next - 1 = n
    BY <1>4, <1>5
  <2>2. inflight = {} \cup 1..(1 + n - 1)
    BY <1>4, <1>5, <2>1 DEF First!Init
  <2> QED BY <1>4, <1>5, <2>1, <2>2
<1>7. outcome \in First!Outcomes \cup {"none"} /\ outcome # "hit" /\ winner = 0
      /\ (outcome = "null" => items = 0) /\ outcome # "errors"
      /\ signalled = IF outcome = "none" THEN {} ELSE inflight
  <2>1. First!Verdict(slots) \in {"none", "null"} /\ (First!Verdict(slots) = "null" => items = 0)
    BY <1>1, <1>2, VerdictSays
  <2>2. items = 0 => inflight = {}
    BY <1>1, <1>4, <1>5, <1>6
  <2>3. \/ outcome = First!Verdict(slots) /\ signalled = {}
        \/ outcome = "reason" /\ signalled = inflight
    BY DEF First!Init
  <2>4. winner = 0
    BY DEF First!Init
  <2> QED BY <2>1, <2>2, <2>3, <2>4 DEF First!Outcomes
<1>8. First!TypeOK
  BY <1>1, <1>2, <1>4, <1>5, <1>6, <1>7 DEF First!TypeOK, First!Item, First!Init
<1>9. FirstBounds
  BY <1>1, <1>4, <1>5, <1>6 DEF FirstBounds
<1>10. FirstSettled
  BY <1>6, <1>7 DEF FirstSettled, First!Init
<1>11. First!SignalsExact
  BY <1>1, <1>4, <1>6, <1>7 DEF First!SignalsExact, First!Beaten
<1>12. First!RightAnswer
  BY <1>1, <1>7 DEF First!RightAnswer, First!Item
<1> QED BY <1>8, <1>9, <1>10, <1>11, <1>12 DEF FirstInv

(* A call that settles while nothing is decided. *)
LEMMA FirstSettlesOpen ==
    ASSUME FirstInv, NEW i \in First!Item, NEW what \in First!Results,
           i \in inflight, First!SettleOpen(i, what), First!Finish,
           result' = [result EXCEPT ![i] = what], UNCHANGED <<items, limit>>
    PROVE  FirstInv' /\ First!StartStep
<1> USE BoundsAssumption
<1> DEFINE busy == inflight \ {i}
           seen == [slots EXCEPT ![i] = what]
           low == IF what = "hit" /\ i < bound THEN i ELSE bound
           warned == (signalled \ {i}) \cup First!Beyond(i, low, busy)
           room == First!Room(next, busy, low)
           after(n) == busy \cup next..(next + n - 1)
<1>1. /\ items \in Nat /\ items <= MaxItems /\ limit \in Nat /\ limit \in 1..MaxLimit
      /\ items' = items /\ limit' = limit
      /\ next \in Nat \ {0} /\ next <= items + 1 /\ bound \in Nat \ {0} /\ bound <= items + 1
      /\ outcome = "none" /\ slots = result
      /\ slots \in [1..items -> First!Results \cup {"pending"}]
      /\ signalled \subseteq inflight /\ inflight \subseteq 1..items
      /\ i \in 1..items /\ slots[i] = "pending" /\ i < next /\ winner \in 0..items
  BY DEF FirstInv, FirstBounds, First!TypeOK, First!Item, First!SettleOpen
<1>2. /\ seen \in [1..items -> First!Results \cup {"pending"}]
      /\ slots' = seen /\ result' = seen
      /\ \A j \in 1..items : seen[j] = IF j = i THEN what ELSE slots[j]
  BY <1>1 DEF First!SettleOpen
<1>3. /\ bound' = low /\ low \in 1..(items + 1)
      /\ \A j \in 1..(low - 1) : seen[j] # "hit"
      /\ low <= items => seen[low] = "hit"
  BY <1>1, <1>2 DEF First!SettleOpen, FirstInv, FirstBounds
<1>4. /\ IsFiniteSet(busy) /\ Cardinality(busy) <= limit
      /\ \A j \in busy : j \in 1..(next - 1) /\ j # i /\ seen[j] = "pending"
      /\ \A j \in 1..(next - 1) : j \notin busy => seen[j] # "pending"
      /\ \A j \in next..items : seen[j] = "pending"
  <2>1. IsFiniteSet(1..items)
    BY <1>1, FS_Interval
  <2>2. IsFiniteSet(inflight) /\ Cardinality(inflight) \in Nat
    BY <2>1, <1>1, FS_Subset, FS_CardinalityType
  <2>3. IsFiniteSet(busy) /\ Cardinality(busy) = Cardinality(inflight) - 1
    BY <2>2, FS_RemoveElement
  <2>4. Cardinality(inflight) <= limit
    BY DEF FirstInv, FirstSettled
  <2>5. /\ inflight = {j \in 1..(next - 1) : result[j] = "pending"}
        /\ \A j \in next..items : result[j] = "pending"
    BY DEF FirstInv, FirstBounds
  <2>6. what # "pending"
    BY DEF First!Results
  <2> HIDE DEF seen
  <2> QED BY <2>2, <2>3, <2>4, <2>5, <2>6, <1>1, <1>2
<1>5. answered' = (outcome' # "none" /\ inflight' = {})
  BY DEF First!Finish
<1> HIDE DEF busy, seen, low, warned
<1>6. CASE First!Verdict(seen) # "none"
  <2>1. /\ outcome' = First!Verdict(seen) /\ winner' = First!Winner(seen)
        /\ signalled' = busy /\ inflight' = busy /\ next' = next
    BY <1>6, <1>1 DEF First!SettleOpen, First!Decide, seen, busy
  <2>2. First!TypeOK'
    BY <2>1, <1>1, <1>2, <1>3, <1>4, <1>5, <1>6, VerdictSays
       DEF First!TypeOK, First!Item, First!Outcomes
  <2>3. FirstBounds'
    BY <2>1, <1>1, <1>2, <1>4, <1>6 DEF FirstBounds
  <2>4. FirstSettled'
    BY <2>1, <1>1, <1>2, <1>4, <1>5, VerdictSays DEF FirstSettled
  <2>5. First!SignalsExact'
    BY <2>1, <1>6 DEF First!SignalsExact, First!Beaten
  <2>6. First!RightAnswer'
    BY <2>1, <1>1, <1>2, <1>6, VerdictSays DEF First!RightAnswer, First!Item, First!Missed
  <2>7. First!StartStep
    BY <2>1 DEF First!StartStep, busy
  <2> QED BY <2>2, <2>3, <2>4, <2>5, <2>6, <2>7 DEF FirstInv
<1>7. CASE First!Verdict(seen) = "none"
  <2>a. /\ low \in Nat /\ next \in Nat \ {0} /\ IsFiniteSet(busy) /\ limit \in Nat
        /\ Cardinality(busy) <= limit
    BY <1>1, <1>3, <1>4
  <2>0. /\ room \in Nat /\ (room # 0 => next + room <= low)
        /\ \A n \in 0..room : Cardinality(after(n)) <= limit
    BY <2>a, RoomIsRight
  <2> HIDE DEF room
  <2>1. PICK n \in 0..room :
          /\ inflight' = after(n) /\ next' = next + n
          /\ \/ outcome' = "none" /\ signalled' = warned /\ winner' = winner
             \/ outcome' = "reason" /\ signalled' = inflight' /\ winner' = 0
    <3>1. First!Pump(busy, low, warned)
      BY <1>1, <1>7 DEF First!SettleOpen, busy, seen, low, warned
    <3>2. \/ inflight' = after(room) /\ next' = next + room /\ signalled' = warned
             /\ outcome' = outcome /\ winner' = winner
          \/ \E n \in 1..room : /\ inflight' = after(n) /\ next' = next + n
                                 /\ outcome' = "reason" /\ winner' = 0 /\ signalled' = after(n)
      BY <3>1 DEF First!Pump, First!Decide, room
    <3> HIDE DEF after
    <3> QED BY <3>2, <2>0, <1>1
  <2>2. /\ n \in Nat /\ (n # 0 => next + n <= low) /\ Cardinality(inflight') <= limit
        /\ next + n \in 1..(items + 1)
    <3>1. Cardinality(inflight') <= limit
      BY <2>0, <2>1
    <3>2. n \in Nat /\ (n # 0 => next + n <= low)
      BY <2>0, <2>1, <1>1, <1>3
    <3> QED BY <3>1, <3>2, <1>1, <1>3
  <2>3. /\ \A j \in inflight' : j \in 1..(next + n - 1) /\ seen[j] = "pending" /\ (j \in busy \/ (j >= next /\ j < low))
        /\ \A j \in 1..(next + n - 1) : j \notin inflight' => seen[j] # "pending"
    <3>1. inflight' = busy \cup next..(next + n - 1)
      BY <2>1
    <3> QED BY <3>1, <2>2, <1>1, <1>3, <1>4
  <2>4. warned \subseteq busy
    BY <1>1 DEF warned, busy, First!Beyond
  <2>5. First!TypeOK'
    <3>1. inflight' \subseteq 1..items
      BY <2>2, <2>3, <1>1
    <3>2. signalled' \subseteq inflight'
      BY <2>1, <2>4
    <3> QED BY <3>1, <3>2, <2>1, <2>2, <1>1, <1>2, <1>3, <1>5 DEF First!TypeOK, First!Item, First!Outcomes
  <2>6. FirstBounds'
    <3>1. inflight' = {j \in 1..(next' - 1) : result'[j] = "pending"}
      BY <2>1, <2>2, <2>3, <1>1, <1>2
    <3>2. \A j \in next'..items' : result'[j] = "pending"
      BY <2>1, <2>2, <1>1, <1>2, <1>4
    <3> QED BY <3>1, <3>2, <1>1, <1>2, <1>3 DEF FirstBounds
  <2>7. FirstSettled'
    BY <2>1, <2>2, <1>1, <1>5 DEF FirstSettled
  <2>8. First!SignalsExact'
    <3>1. CASE outcome' = "none"
      <4>1. \A j \in inflight' : First!Beaten(j)' <=> low < j
        BY <3>1, <2>2, <2>3, <1>1, <1>2, <1>3 DEF First!Beaten
      <4>2. \A j \in inflight : First!Beaten(j) <=> bound < j
        BY <1>1 DEF First!Beaten, FirstInv, FirstBounds
      <4>3. signalled = {j \in inflight : bound < j}
        BY <4>2 DEF FirstInv, First!SignalsExact
      <4>4. warned = {j \in inflight' : low < j}
        <5>1. \A j \in inflight' : j \in Nat /\ (j \in busy \/ j < low)
          BY <2>2, <2>3
        <5>2. busy \subseteq inflight' /\ \A j \in busy : j \in Nat /\ j # i /\ j \in inflight
          BY <2>1, <1>1 DEF busy
        <5>3. i \in Nat /\ bound \in Nat /\ i # bound
          BY <1>1 DEF FirstInv, FirstBounds
        <5>4. CASE low = i
          <6>1. bound > i /\ First!Beyond(i, low, busy) = {j \in busy : j > i} 
            BY <5>3, <5>4, <1>1 DEF low, First!Beyond
          <6>2. ASSUME NEW j \in signalled, j # i PROVE j \in busy /\ j > i
            <7>1. j \in inflight /\ bound < j
              BY <4>3, <6>2
            <7>2. j \in busy
              BY <7>1, <6>2 DEF busy
            <7> QED BY <7>1, <7>2, <5>2, <5>3, <6>1
          <6>3. warned = {j \in busy : j > i}
            BY <6>1, <6>2 DEF warned
          <6>4. \A j \in inflight' : j > i => j \in busy
            BY <5>1, <5>3, <5>4
          <6> QED BY <5>2, <5>3, <5>4, <6>3, <6>4
        <5>5. CASE low # i
          <6>1. low = bound /\ First!Beyond(i, low, busy) = {}
            BY <5>5 DEF low, First!Beyond
          <6>2. signalled \ {i} = {j \in busy : bound < j}
            BY <4>3 DEF busy
          <6> QED BY <5>1, <5>2, <5>3, <6>1, <6>2 DEF warned
        <5> QED BY <5>4, <5>5
      <4> QED BY <3>1, <4>1, <4>4, <2>1 DEF First!SignalsExact
    <3>2. CASE outcome' # "none"
      BY <3>2, <2>1 DEF First!SignalsExact, First!Beaten
    <3> QED BY <3>1, <3>2
  <2>9. First!RightAnswer'
    BY <2>1 DEF First!RightAnswer
  <2>10. First!StartStep
    <3> SUFFICES ASSUME NEW k \in inflight' \ inflight
                 PROVE  /\ outcome = "none" /\ result[k] = "pending"
                        /\ \A j \in First!Item : j < k => slots'[j] # "hit" /\ (j \in inflight' \/ result'[j] # "pending")
      BY DEF First!StartStep
    <3>1. k \in next..(next + n - 1) /\ k < low /\ k \in 1..items /\ k # i
      BY <2>1, <2>3, <2>2, <1>1, <1>3 DEF busy
    <3> QED BY <3>1, <2>2, <2>3, <1>1, <1>2, <1>3 DEF First!Item
  <2> QED BY <2>5, <2>6, <2>7, <2>8, <2>9, <2>10 DEF FirstInv
<1> QED BY <1>6, <1>7

(* A call that settles once it is decided. *)
LEMMA FirstSettlesLate ==
    ASSUME FirstInv, NEW i \in First!Item, NEW what \in First!Results,
           i \in inflight, First!SettleLate(i), First!Finish,
           result' = [result EXCEPT ![i] = what], UNCHANGED <<items, limit>>
    PROVE  FirstInv' /\ First!StartStep
<1> USE DEF First!Item
<1>1. /\ outcome # "none" /\ inflight' = inflight \ {i} /\ signalled' = signalled \ {i}
      /\ UNCHANGED <<slots, bound, next, outcome, winner, items, limit>>
      /\ answered' = (outcome' # "none" /\ inflight' = {})
  BY DEF First!SettleLate, First!Finish
<1>2. /\ items \in Nat /\ limit \in Nat /\ result \in [1..items -> First!Results \cup {"pending"}]
      /\ inflight \subseteq 1..items /\ next \in 1..(items + 1) /\ what # "pending"
      /\ result' \in [1..items -> First!Results \cup {"pending"}]
  BY BoundsAssumption DEF FirstInv, First!TypeOK, First!Results
<1>3. i \in 1..(next - 1) /\ result[i] = "pending"
  BY DEF FirstInv, FirstBounds
<1>4. First!TypeOK'
  BY <1>1, <1>2 DEF FirstInv, First!TypeOK
<1>5. FirstBounds'
  BY <1>1, <1>2, <1>3 DEF FirstInv, FirstBounds
<1>6. FirstSettled'
  <2>0. IsFiniteSet(1..items)
    BY <1>2, FS_Interval
  <2>1. IsFiniteSet(inflight)
    BY <1>2, <2>0, FS_Subset
  <2>2. Cardinality(inflight') = Cardinality(inflight) - 1 /\ Cardinality(inflight) \in Nat
    BY <2>1, <1>1, FS_RemoveElement, FS_CardinalityType
  <2> QED BY <2>2, <1>1, <1>2 DEF FirstInv, FirstSettled
<1>7. First!SignalsExact'
  BY <1>1 DEF FirstInv, First!SignalsExact, First!Beaten
<1>8. First!RightAnswer'
  <2>1. \A j \in 1..items : result[j] # "pending" => result'[j] = result[j]
    BY <1>2, <1>3
  <2>2. outcome = "hit" => winner \in 1..items
    BY <1>1, <1>2 DEF FirstInv, First!TypeOK, FirstSettled
  <2> QED BY <2>1, <2>2, <1>1, <1>2 DEF FirstInv, First!RightAnswer, First!Missed
<1>9. First!StartStep
  BY <1>1 DEF First!StartStep
<1> QED BY <1>4, <1>5, <1>6, <1>7, <1>8, <1>9 DEF FirstInv

LEMMA FirstAborts ==
    ASSUME FirstInv, First!Abort
    PROVE  FirstInv' /\ First!StartStep
<1>1. /\ outcome' = "reason" /\ winner' = 0 /\ signalled' = inflight /\ inflight' = inflight
      /\ answered' = (inflight = {})
      /\ UNCHANGED <<items, limit, slots, next, bound, result>>
  BY DEF First!Abort, First!Decide, First!Finish
<1>2. items \in Nat
  BY BoundsAssumption DEF FirstInv, First!TypeOK
<1>3. First!TypeOK'
  BY <1>1, <1>2 DEF FirstInv, First!TypeOK, First!Outcomes, First!Item
<1>4. FirstBounds' /\ FirstSettled'
  BY <1>1 DEF FirstInv, FirstBounds, FirstSettled
<1>5. First!SignalsExact' /\ First!RightAnswer' /\ First!StartStep
  BY <1>1 DEF First!SignalsExact, First!Beaten, First!RightAnswer, First!StartStep
<1> QED BY <1>3, <1>4, <1>5 DEF FirstInv

LEMMA FirstStays ==
    ASSUME FirstInv, UNCHANGED first
    PROVE  FirstInv' /\ First!StartStep
BY DEF first, FirstInv, First!TypeOK, FirstBounds, FirstSettled, First!SignalsExact, First!Beaten,
       First!RightAnswer, First!Missed, First!StartStep, First!Item

LEMMA FirstSteps ==
    ASSUME FirstInv, First!Next
    PROVE  FirstInv' /\ First!StartStep
<1>1. ASSUME NEW i \in First!Item, NEW what \in First!Results, First!Settle(i, what)
      PROVE  FirstInv' /\ First!StartStep
  BY <1>1, FirstSettlesOpen, FirstSettlesLate DEF First!Settle
<1>2. CASE First!Abort
  BY <1>2, FirstAborts
<1>3. CASE First!Over
  BY <1>3, FirstStays DEF First!Over, First!vars, first
<1> QED BY <1>1, <1>2, <1>3 DEF First!Next

-----------------------------------------------------------------------------
(* mapConcurrent *)

(* While nothing failed a worker is left as long as an item is; what       *)
(* stopped them is what came first; an item is in flight, recorded or lost.*)
MapInv ==
    /\ Map!TypeOK /\ Map!Accounted /\ Map!RightAnswer
    /\ running \cap Map!Lost = {}
    /\ (failure = Map!NoFailure) = (lost = <<>>)
    /\ lost # <<>> => failure = lost[1] /\ mSignalled
    /\ failure = Map!NoFailure => mNext > mItems \/ running # {}

LEMMA MapSize == \A S : Map!Cardinality(S) = Cardinality(S)
BY DEF Map!Cardinality, Cardinality

LEMMA MapStarts == Map!Init => MapInv
<1> SUFFICES ASSUME Map!Init PROVE MapInv
  OBVIOUS
<1> USE BoundsAssumption DEF Map!Item, Map!Reason, Map!NoFailure
<1>1. /\ mItems \in Nat /\ mItems <= MaxItems /\ mLimit \in Nat \ {0} /\ mLimit \in 1..MaxLimit
      /\ results = {} /\ answer = "none"
  BY DEF Map!Init
<1>2. PICK n \in 0..Map!Workers :
          /\ mNext = n + 1 /\ running = 1..n /\ n \in Nat /\ n <= mItems /\ n <= mLimit
          /\ n = 0 /\ failure = MaxItems + 1 => mItems = 0
  BY <1>1 DEF Map!Init, Map!Workers
<1>3. \/ failure = MaxItems + 1 /\ lost = <<>> /\ ~mSignalled
      \/ failure = 0 /\ lost = <<0>> /\ mSignalled
  <2>1. 0 # MaxItems + 1
    OBVIOUS
  <2>2. mSignalled = (failure # MaxItems + 1)
    BY DEF Map!Init
  <2>3. \/ failure = MaxItems + 1 /\ lost = <<>>
        \/ failure = 0 /\ lost = <<0>>
    BY DEF Map!Init
  <2> QED BY <2>1, <2>2, <2>3
<1>4. Map!Lost \subseteq {0}
  BY <1>3 DEF Map!Lost
<1>5. Map!TypeOK
  <2>1. lost \in Seq(1..mItems \cup {0}) /\ failure \in 1..mItems \cup {0, MaxItems + 1}
    <3>1. <<>> \in Seq(1..mItems \cup {0}) /\ <<0>> \in Seq(1..mItems \cup {0})
      OBVIOUS
    <3> QED BY <1>3, <3>1
  <2>2. mNext \in 1..(mItems + 1) /\ running \subseteq 1..mItems
    BY <1>1, <1>2
  <2>3. mSignalled \in BOOLEAN
    BY <1>3 DEF Map!Init
  <2> QED BY <1>1, <2>1, <2>2, <2>3 DEF Map!TypeOK
<1>6. Map!Accounted
  <2>1. Cardinality(1..n) = n
    BY <1>2, FS_Interval
  <2>2. 1..(mNext - 1) = 1..n
    BY <1>2
  <2> QED BY <1>1, <1>2, <1>4, <2>1, <2>2, MapSize DEF Map!Accounted
<1>7. failure = Map!NoFailure => mNext > mItems \/ running # {}
  BY <1>1, <1>2
<1> QED BY SMTT(30), <1>1, <1>2, <1>3, <1>4, <1>5, <1>6, <1>7 DEF MapInv, Map!RightAnswer

LEMMA MapFinite ==
    ASSUME MapInv
    PROVE  IsFiniteSet(running) /\ Cardinality(running) \in Nat
<1>1. running \subseteq 1..mItems /\ mItems \in Int
  BY BoundsAssumption DEF MapInv, Map!TypeOK, Map!Item
<1>2. IsFiniteSet(1..mItems)
  BY <1>1, FS_Interval
<1> QED BY <1>1, <1>2, FS_Subset, FS_CardinalityType

LEMMA MapResolves ==
    ASSUME MapInv, NEW i \in Map!Item, Map!Resolve(i)
    PROVE  MapInv' /\ Map!StopStep
<1> USE BoundsAssumption DEF Map!Item, Map!Reason, Map!NoFailure
<1>1. /\ mItems \in Nat /\ mNext \in Nat \ {0} /\ mNext <= mItems + 1 /\ mLimit \in Nat
      /\ running \subseteq 1..mItems /\ results \subseteq 1..mItems /\ running \cap results = {}
      /\ 1..(mNext - 1) = running \cup results \cup (Map!Lost \ {0})
      /\ running \cap Map!Lost = {} /\ Cardinality(running) <= mLimit
      /\ i \in running /\ i \in 1..mItems
      /\ results' = results \cup {i}
      /\ UNCHANGED <<mItems, mLimit, failure, mSignalled, answer, lost>>
      /\ Map!Lost' = Map!Lost
  BY MapSize DEF MapInv, Map!TypeOK, Map!Accounted, Map!Resolve, Map!Lost
<1>2. answer = "none"
  BY <1>1 DEF MapInv, Map!RightAnswer, Map!TypeOK
<1>3. /\ IsFiniteSet(running \ {i}) /\ Cardinality(running \ {i}) = Cardinality(running) - 1
      /\ Cardinality(running) \in Nat
  BY <1>1, MapFinite, FS_RemoveElement
<1>4. CASE failure = Map!NoFailure /\ mNext <= mItems
  <2>1. running' = (running \ {i}) \cup {mNext} /\ mNext' = mNext + 1
    BY <1>4 DEF Map!Resolve, Map!Continue
  <2>2. mNext \notin running /\ mNext \notin results /\ mNext \notin Map!Lost
    <3>1. mNext \notin 1..(mNext - 1) /\ mNext # 0
      BY <1>1
    <3> QED BY <3>1, <1>1
  <2>3. Cardinality(running') <= mLimit
    <3>1. /\ mNext \notin running \ {i}
          /\ Cardinality(running \ {i}) \in Nat /\ Cardinality(running \ {i}) + 1 <= mLimit
      BY <2>2, <1>1, <1>3, FS_CardinalityType
    <3>2. Cardinality(running') = Cardinality(running \ {i}) + 1
      BY <2>1, <3>1, <1>3, FS_AddElement
    <3> QED BY <3>1, <3>2
  <2>4. 1..(mNext' - 1) = 1..(mNext - 1) \cup {mNext}
    BY <2>1, <1>1
  <2>5. Map!TypeOK'
    BY <1>1, <1>4, <2>1, <2>2 DEF MapInv, Map!TypeOK
  <2>6. Map!Accounted'
    BY <1>1, <2>1, <2>3, <2>4, MapSize DEF Map!Accounted
  <2> QED BY <1>1, <1>2, <1>4, <2>1, <2>2, <2>5, <2>6 DEF MapInv, Map!RightAnswer, Map!StopStep
<1>5. CASE ~(failure = Map!NoFailure /\ mNext <= mItems)
  <2>1. running' = running \ {i} /\ mNext' = mNext
    BY <1>5 DEF Map!Resolve, Map!Continue
  <2>2. Map!TypeOK'
    BY <1>1, <2>1 DEF MapInv, Map!TypeOK
  <2>3. Map!Accounted'
    BY <1>1, <1>3, <2>1, MapSize DEF Map!Accounted
  <2> QED BY <1>1, <1>2, <1>5, <2>1, <2>2, <2>3 DEF MapInv, Map!RightAnswer, Map!StopStep
<1> QED BY <1>4, <1>5

(* What a failure or an abort notes. *)
LEMMA MapNotes ==
    ASSUME MapInv, NEW error \in Map!Item \cup {Map!Reason}, Map!Fail(error), Map!Noted(error)
    PROVE  /\ lost' \in Seq(Map!Item \cup {Map!Reason}) /\ lost' # <<>>
           /\ Map!Lost' = Map!Lost \cup {error}
           /\ failure' = lost'[1] /\ failure' \in Map!Item \cup {Map!Reason} /\ mSignalled'
<1> USE DEF Map!Item, Map!Reason, Map!NoFailure
<1>1. /\ mItems \in Nat /\ mItems <= MaxItems /\ lost \in Seq(1..mItems \cup {0})
      /\ failure \in 1..mItems \cup {0, MaxItems + 1}
  BY BoundsAssumption DEF MapInv, Map!TypeOK
<1>2. /\ lost' \in Seq(1..mItems \cup {0}) /\ Len(lost') = Len(lost) + 1
      /\ \A k \in 1..Len(lost) : lost'[k] = lost[k]
      /\ lost'[Len(lost) + 1] = error
  BY <1>1 DEF Map!Noted
<1>3. Map!Lost' = Map!Lost \cup {error}
  BY SMTT(30), <1>1, <1>2 DEF Map!Lost
<1>4. failure' = lost'[1]
  <2>1. CASE lost = <<>>
    BY <2>1, <1>1, <1>2 DEF Map!Fail, MapInv
  <2>2. CASE lost # <<>>
    <3>1. 1 \in 1..Len(lost)
      BY <2>2, <1>1
    <3> QED BY <2>2, <3>1, <1>2 DEF Map!Fail, MapInv
  <2> QED BY <2>1, <2>2
<1>5. failure' \in 1..mItems \cup {0}
  BY <1>1 DEF Map!Fail
<1> QED BY <1>2, <1>3, <1>4, <1>5 DEF Map!Fail

LEMMA MapFails ==
    ASSUME MapInv, (\E i \in Map!Item : Map!Reject(i)) \/ Map!Abort
    PROVE  MapInv' /\ Map!StopStep
<1> USE BoundsAssumption DEF Map!Item, Map!Reason, Map!NoFailure
<1>1. PICK error \in 1..mItems \cup {0} :
          /\ Map!Fail(error) /\ Map!Noted(error)
          /\ running' = running \ {error} /\ (error # 0 => error \in running)
          /\ (error = 0 => answer = "none")
          /\ UNCHANGED <<mItems, mLimit, mNext, results, answer>>
  BY DEF Map!Reject, Map!Abort, MapInv, Map!TypeOK
<1>2. /\ lost' \in Seq(1..mItems \cup {0}) /\ lost' # <<>>
      /\ Map!Lost' = Map!Lost \cup {error}
      /\ failure' = lost'[1] /\ failure' \in 1..mItems \cup {0} /\ mSignalled'
  BY <1>1, MapNotes
<1>3. mItems \in Nat /\ mItems <= MaxItems /\ mSignalled' = TRUE
  BY <1>1 DEF MapInv, Map!TypeOK, Map!Fail
<1>4. answer = "none"
  BY <1>1 DEF MapInv, Map!TypeOK, Map!RightAnswer
<1>5. Map!TypeOK'
  BY <1>1, <1>2, <1>3 DEF MapInv, Map!TypeOK
<1>6. Map!Accounted'
  <2>1. Cardinality(running') <= mLimit
    <3>1. Cardinality(running') <= Cardinality(running) /\ Cardinality(running') \in Nat /\ Cardinality(running) \in Nat
      <4>1. /\ IsFiniteSet(running \ {error})
            /\ Cardinality(running \ {error}) = IF error \in running THEN Cardinality(running) - 1 ELSE Cardinality(running)
        BY MapFinite, FS_RemoveElement
      <4>2. Cardinality(running \ {error}) \in Nat
        BY <4>1, FS_CardinalityType
      <4> QED BY <1>1, <4>1, <4>2, MapFinite
    <3> QED BY <3>1, MapSize DEF MapInv, Map!TypeOK, Map!Accounted
  <2> QED BY <2>1, <1>1, <1>2, MapSize DEF MapInv, Map!Accounted, Map!TypeOK
<1>7. failure' # MaxItems + 1
  BY <1>2, <1>3
<1> QED BY <1>1, <1>2, <1>3, <1>4, <1>5, <1>6, <1>7 DEF MapInv, Map!RightAnswer, Map!StopStep

LEMMA MapAnswers ==
    ASSUME MapInv, Map!Answer
    PROVE  MapInv' /\ Map!StopStep
<1> USE BoundsAssumption DEF Map!Item, Map!Reason, Map!NoFailure
<1>1. /\ mItems \in Nat /\ mNext \in 1..(mItems + 1) /\ results \subseteq 1..mItems
      /\ 1..(mNext - 1) = running \cup results \cup (Map!Lost \ {0})
      /\ running = {} /\ answer' = IF failure = MaxItems + 1 THEN "results" ELSE "failure"
      /\ UNCHANGED <<mItems, mLimit, mNext, running, results, failure, mSignalled, lost>>
  BY DEF MapInv, Map!TypeOK, Map!Accounted, Map!Answer
<1>2. failure = MaxItems + 1 => results = 1..mItems
  <2> SUFFICES ASSUME failure = MaxItems + 1 PROVE results = 1..mItems
    OBVIOUS
  <2>1. lost = <<>> /\ mNext > mItems
    BY <1>1 DEF MapInv
  <2>2. Map!Lost = {}
    BY <2>1 DEF Map!Lost
  <2> QED BY <1>1, <2>1, <2>2
<1>3. failure # MaxItems + 1 => failure = lost[1]
  BY DEF MapInv
<1> QED BY <1>1, <1>2, <1>3 DEF MapInv, Map!TypeOK, Map!Accounted, Map!RightAnswer, Map!StopStep, Map!Lost

LEMMA MapStays ==
    ASSUME MapInv, UNCHANGED map
    PROVE  MapInv' /\ Map!StopStep
BY DEF map, MapInv, Map!TypeOK, Map!Accounted, Map!RightAnswer, Map!StopStep, Map!Lost, Map!Item,
       Map!NoFailure, Map!Reason

LEMMA MapSteps ==
    ASSUME MapInv, Map!Next
    PROVE  MapInv' /\ Map!StopStep
<1>1. CASE \E i \in Map!Item : Map!Resolve(i)
  BY <1>1, MapResolves
<1>2. CASE (\E i \in Map!Item : Map!Reject(i)) \/ Map!Abort
  BY <1>2, MapFails
<1>3. CASE Map!Answer
  BY <1>3, MapAnswers
<1>4. CASE Map!Over
  BY <1>4, MapStays DEF Map!Over, Map!vars, map
<1> QED BY <1>1, <1>2, <1>3, <1>4 DEF Map!Next

-----------------------------------------------------------------------------
(* prefetchOrdered *)

(* Where the generator stands: the fetch it is at is the next one to       *)
(* yield, is started, and has settled once its race is decided for it.     *)
PrefetchStands ==
    /\ pc = "new" => index = 0 /\ started = 0 /\ yielded = 0 /\ ~pSignalled
    /\ pc \in {"await", "got", "cut"} => yielded = index /\ index < count /\ index < started
    /\ pc = "yield" => yielded = index + 1 /\ yielded <= started
    /\ pc = "await" => ~pSignalled /\ fetched[index] = "pending"
    /\ pc = "got" => fetched[index] # "pending"
    /\ pc = "cut" => outer
    /\ ended = "none" <=> pc \notin {"closing", "done"}
    /\ ended = "none" /\ pSignalled => outer

PrefetchInv ==
    /\ Prefetch!TypeOK /\ PrefetchStands
    /\ Prefetch!WindowKept /\ Prefetch!RightEnd /\ Prefetch!NothingLeft

LEMMA PrefetchStarts == Prefetch!Init => PrefetchInv
<1> SUFFICES ASSUME Prefetch!Init PROVE PrefetchInv
  OBVIOUS
<1>1. count \in Nat /\ window \in Nat
  BY BoundsAssumption DEF Prefetch!Init
<1>2. Prefetch!TypeOK
  <2>1. fetched \in [0..(count - 1) -> {"pending", "value", "error"}]
    BY DEF Prefetch!Init, Prefetch!Fetch
  <2>2. /\ index = 0 /\ started = 0 /\ yielded = 0 /\ pc = "new" /\ ended = "none"
        /\ count \in 0..MaxItems /\ window \in 1..MaxLimit /\ outer \in BOOLEAN /\ pSignalled \in BOOLEAN
    BY DEF Prefetch!Init
  <2> QED BY <1>1, <2>1, <2>2 DEF Prefetch!TypeOK, Prefetch!Fetch, Prefetch!Pcs
<1>3. PrefetchStands /\ Prefetch!WindowKept
  BY <1>1 DEF Prefetch!Init, PrefetchStands, Prefetch!WindowKept
<1>4. Prefetch!RightEnd /\ Prefetch!NothingLeft
  BY <1>1 DEF Prefetch!Init, Prefetch!RightEnd, Prefetch!NothingLeft
<1> QED BY <1>2, <1>3, <1>4 DEF PrefetchInv

(* What TypeOK says, with the bounds opened. *)
LEMMA PrefetchTypes ==
    ASSUME PrefetchInv
    PROVE  /\ count \in Nat /\ window \in Nat \ {0} /\ index \in Nat /\ index <= count
           /\ started \in Nat /\ started <= count /\ yielded \in Nat /\ yielded <= count
           /\ count <= MaxItems
           /\ fetched \in [0..(count - 1) -> {"pending", "value", "error"}]
           /\ outer \in BOOLEAN /\ pSignalled \in BOOLEAN
BY BoundsAssumption DEF PrefetchInv, Prefetch!TypeOK, Prefetch!Fetch

(* How far the window reaches. *)
LEMMA FilledReaches ==
    ASSUME PrefetchInv, NEW n \in 0..count
    PROVE  /\ Prefetch!Filled(n) \in 0..count
           /\ Prefetch!Filled(n) <= n + window
           /\ Prefetch!Filled(n) >= n /\ (n < count => Prefetch!Filled(n) > n)
BY PrefetchTypes DEF Prefetch!Filled, Prefetch!Lesser

LEMMA PrefetchTurns ==
    ASSUME PrefetchInv, Prefetch!Pull
    PROVE  PrefetchInv' /\ Prefetch!AbortStep
<1>1. PICK i \in 0..count :
          /\ \/ pc = "new" /\ i = 0 /\ Prefetch!Turn(i, outer)
             \/ pc = "yield" /\ i = index + 1 /\ Prefetch!Turn(i, pSignalled)
          /\ i = yielded /\ started >= yielded /\ ended = "none"
          /\ UNCHANGED <<count, window, fetched, yielded>>
  BY PrefetchTypes DEF Prefetch!Pull, PrefetchInv, PrefetchStands
<1>2. /\ index' = i
      /\ \/ i = count /\ Prefetch!Close("complete") /\ UNCHANGED <<started, outer>>
         \/ (IF pc = "new" THEN outer ELSE pSignalled) /\ Prefetch!Close("aborted") /\ UNCHANGED <<started, outer>>
         \/ /\ i < count /\ ~pSignalled
            /\ \/ /\ started' = Prefetch!Filled(i)
                  /\ pc' = IF fetched[i] = "pending" THEN "await" ELSE "got"
                  /\ UNCHANGED <<ended, outer, pSignalled>>
               \/ /\ started' \in (started + 1)..Prefetch!Filled(i) /\ outer' = TRUE /\ pSignalled' = TRUE
                  /\ pc' = IF fetched[i] = "pending" THEN "cut" ELSE "got"
                  /\ UNCHANGED ended
  BY <1>1, PrefetchTypes DEF Prefetch!Turn, PrefetchInv, PrefetchStands
<1>3. /\ started' \in 0..count /\ started' <= yielded + window
      /\ i < count /\ ~pSignalled /\ ended' = "none" => i < started'
      /\ started' = started \/ ~pSignalled
  <2>1. started <= yielded + window
    BY DEF PrefetchInv, Prefetch!WindowKept
  <2>2. CASE started' = started
    <3>1. i < count /\ ~pSignalled /\ ended' = "none" => started' = Prefetch!Filled(i) \/ started' > started
      BY <1>1, <1>2, <2>2, PrefetchTypes DEF Prefetch!Close
    <3> QED BY <1>1, <2>1, <2>2, <3>1, PrefetchTypes, FilledReaches
  <2>3. CASE started' # started
    <3>1. i < count /\ ~pSignalled
      BY <1>2, <2>3
    <3>2. \/ started' = Prefetch!Filled(i)
          \/ started' \in (started + 1)..Prefetch!Filled(i)
      BY <1>2, <2>3
    <3>3. /\ Prefetch!Filled(i) \in 0..count /\ Prefetch!Filled(i) <= i + window
          /\ Prefetch!Filled(i) > i
      BY <3>1, FilledReaches
    <3>4. i = yielded /\ yielded <= started /\ started \in Nat /\ count \in Nat /\ window \in Nat /\ i \in Nat
      BY <1>1, PrefetchTypes
    <3>5. started' \in Nat /\ started' <= Prefetch!Filled(i) /\ i < started'
      BY <3>2, <3>3, <3>4
    <3> QED BY <3>1, <3>3, <3>4, <3>5
  <2> QED BY <2>2, <2>3
<1>4. Prefetch!TypeOK'
  BY <1>1, <1>2, <1>3 DEF PrefetchInv, Prefetch!TypeOK, Prefetch!Fetch, Prefetch!Close, Prefetch!Pcs
<1>5. PrefetchStands'
  BY SMTT(30), <1>1, <1>2, <1>3, PrefetchTypes DEF PrefetchInv, PrefetchStands, Prefetch!Close
<1>6. Prefetch!WindowKept'
  BY <1>1, <1>2, <1>3, <1>5 DEF Prefetch!WindowKept, PrefetchStands
<1>7. Prefetch!RightEnd'
  BY <1>1, <1>2 DEF PrefetchInv, PrefetchStands, Prefetch!RightEnd, Prefetch!Close
<1>8. Prefetch!NothingLeft' /\ Prefetch!AbortStep
  BY <1>1, <1>2, <1>3 DEF Prefetch!NothingLeft, Prefetch!AbortStep, Prefetch!Close
<1> QED BY <1>4, <1>5, <1>6, <1>7, <1>8 DEF PrefetchInv

LEMMA PrefetchEnds ==
    ASSUME PrefetchInv, Prefetch!Return \/ Prefetch!Fail \/ Prefetch!Closed
    PROVE  PrefetchInv' /\ Prefetch!AbortStep
<1> USE PrefetchTypes DEF Prefetch!Close, Prefetch!Running
<1>1. /\ UNCHANGED <<count, window, index, started, fetched, outer, yielded>>
      /\ pc' \in {"closing", "done"} /\ ended' # "none" /\ pSignalled' \in BOOLEAN
      /\ pc' = "done" => \A i \in 0..(started - 1) : fetched[i] # "pending"
      /\ \/ ended' = ended
         \/ ended' = "returned"
         \/ ended' = "error" /\ yielded < count /\ fetched[yielded] = "error"
         \/ ended' = "aborted" /\ outer
  <2>1. CASE Prefetch!Return
    <3>1. /\ UNCHANGED <<count, window, index, started, fetched, outer, yielded>>
          /\ ended' = "returned"
          /\ \/ pc = "new" /\ pc' = "done" /\ pSignalled' = pSignalled
             \/ pc' = "closing" /\ pSignalled' = TRUE
      BY <2>1 DEF Prefetch!Return
    <3>2. pc = "new" => started = 0
      BY DEF PrefetchInv, PrefetchStands
    <3>3. pSignalled' \in BOOLEAN
      BY <3>1
    <3>4. pc' = "done" => \A i \in 0..(started - 1) : fetched[i] # "pending"
      BY <3>1, <3>2
    <3> QED BY <3>1, <3>3, <3>4
  <2>2. CASE Prefetch!Fail
    <3>1. /\ UNCHANGED <<count, window, index, started, fetched, outer, yielded>>
          /\ pc' = "closing" /\ pSignalled' = TRUE
          /\ \/ pc = "got" /\ fetched[index] = "error" /\ ended' = "error"
             \/ pc = "cut" /\ ended' = "aborted"
      BY <2>2 DEF Prefetch!Fail
    <3>2. pc = "got" => yielded = index /\ index < count
      BY DEF PrefetchInv, PrefetchStands
    <3>3. pc = "cut" => outer
      BY DEF PrefetchInv, PrefetchStands
    <3> QED BY <3>1, <3>2, <3>3
  <2>3. CASE Prefetch!Closed
    <3>1. /\ UNCHANGED <<count, window, index, started, fetched, outer, yielded>>
          /\ pc = "closing" /\ pc' = "done" /\ ended' = ended /\ pSignalled' = pSignalled
          /\ Prefetch!Running = {}
      BY <2>3 DEF Prefetch!Closed
    <3>2. ended # "none"
      BY <3>1 DEF PrefetchInv, PrefetchStands
    <3>3. \A i \in 0..(started - 1) : fetched[i] # "pending"
      BY <3>1
    <3> QED BY <3>1, <3>2, <3>3
  <2> QED BY <2>1, <2>2, <2>3
<1>2. Prefetch!TypeOK'
  BY <1>1 DEF PrefetchInv, Prefetch!TypeOK, Prefetch!Fetch, Prefetch!Pcs
<1>3. PrefetchStands' /\ Prefetch!WindowKept' /\ Prefetch!RightEnd'
  BY <1>1 DEF PrefetchInv, PrefetchStands, Prefetch!WindowKept, Prefetch!RightEnd
<1>4. Prefetch!NothingLeft' /\ Prefetch!AbortStep
  BY <1>1 DEF Prefetch!NothingLeft, Prefetch!AbortStep
<1> QED BY <1>2, <1>3, <1>4 DEF PrefetchInv

LEMMA PrefetchSettles ==
    ASSUME PrefetchInv, NEW i \in Prefetch!Fetch, NEW what \in {"value", "error"},
           Prefetch!Settle(i, what)
    PROVE  PrefetchInv' /\ Prefetch!AbortStep
<1> USE PrefetchTypes DEF Prefetch!Running, Prefetch!Fetch
<1>1. /\ i \in 0..(started - 1) /\ i \in 0..(count - 1) /\ fetched[i] = "pending"
      /\ fetched' = [fetched EXCEPT ![i] = what]
      /\ pc' = IF pc = "await" /\ i = index THEN "got" ELSE pc
      /\ UNCHANGED <<count, window, index, started, outer, pSignalled, yielded, ended>>
  BY DEF Prefetch!Settle
<1>2. \A j \in 0..(count - 1) : fetched'[j] = IF j = i THEN what ELSE fetched[j]
  BY <1>1
<1>3. Prefetch!TypeOK'
  BY <1>1 DEF PrefetchInv, Prefetch!TypeOK, Prefetch!Pcs
<1>4. PrefetchStands' /\ Prefetch!WindowKept'
  BY <1>1, <1>2 DEF PrefetchInv, PrefetchStands, Prefetch!WindowKept
<1>5. Prefetch!RightEnd'
  BY <1>1, <1>2 DEF PrefetchInv, Prefetch!RightEnd
<1>6. Prefetch!NothingLeft'
  BY <1>1, <1>2 DEF PrefetchInv, Prefetch!NothingLeft
<1>7. Prefetch!AbortStep
  BY <1>1 DEF PrefetchInv, PrefetchStands, Prefetch!AbortStep
<1> QED BY <1>3, <1>4, <1>5, <1>6, <1>7 DEF PrefetchInv

LEMMA PrefetchAborts ==
    ASSUME PrefetchInv, Prefetch!Abort
    PROVE  PrefetchInv' /\ Prefetch!AbortStep
<1>1. Prefetch!TypeOK'
  BY DEF Prefetch!Abort, PrefetchInv, Prefetch!TypeOK, Prefetch!Fetch, Prefetch!Pcs
<1>2. PrefetchStands' /\ Prefetch!WindowKept'
  BY DEF Prefetch!Abort, Prefetch!Subscribed, PrefetchInv, PrefetchStands, Prefetch!WindowKept, Prefetch!TypeOK
<1>3. Prefetch!RightEnd' /\ Prefetch!NothingLeft' /\ Prefetch!AbortStep
  BY DEF Prefetch!Abort, PrefetchInv, Prefetch!RightEnd, Prefetch!NothingLeft, Prefetch!AbortStep, Prefetch!Running
<1> QED BY <1>1, <1>2, <1>3 DEF PrefetchInv

LEMMA PrefetchYields ==
    ASSUME PrefetchInv, Prefetch!Yield
    PROVE  PrefetchInv' /\ Prefetch!AbortStep
<1>1. /\ pc = "got" /\ fetched[index] = "value" /\ index = yielded /\ index < count
      /\ pc' = "yield" /\ yielded' = yielded + 1 /\ ended = "none"
      /\ UNCHANGED <<count, window, index, fetched, ended>>
      /\ index + 1 \in 0..count
      /\ started <= yielded + window /\ index < started
  BY PrefetchTypes DEF Prefetch!Yield, PrefetchInv, PrefetchStands, Prefetch!WindowKept
<1>2. /\ started' \in 0..count /\ started' <= yielded' + window /\ yielded' <= started'
      /\ started' = started \/ ~pSignalled
      /\ outer' \in BOOLEAN /\ pSignalled' \in BOOLEAN
      /\ UNCHANGED <<outer, pSignalled>> \/ (outer' /\ pSignalled')
  <2> USE PrefetchTypes
  <2>1. /\ Prefetch!Filled(index + 1) \in 0..count
        /\ Prefetch!Filled(index + 1) <= index + 1 + window
        /\ Prefetch!Filled(index + 1) >= index + 1
    BY <1>1, FilledReaches
  <2>2. CASE started' = (IF pSignalled THEN started ELSE Prefetch!Filled(index + 1)) /\ UNCHANGED <<outer, pSignalled>>
    BY <2>1, <2>2, <1>1
  <2>3. CASE /\ ~pSignalled /\ started' \in (started + 1)..Prefetch!Filled(index + 1)
             /\ outer' = TRUE /\ pSignalled' = TRUE
    BY <2>1, <2>3, <1>1
  <2> QED BY <2>2, <2>3 DEF Prefetch!Yield
<1>3. Prefetch!TypeOK'
  BY <1>1, <1>2, PrefetchTypes DEF PrefetchInv, Prefetch!TypeOK, Prefetch!Fetch, Prefetch!Pcs
<1>4. PrefetchStands' /\ Prefetch!WindowKept'
  BY <1>1, <1>2, PrefetchTypes DEF PrefetchInv, PrefetchStands, Prefetch!WindowKept
<1>5. Prefetch!RightEnd'
  <2>1. \A i \in 0..(yielded - 1) : fetched[i] = "value"
    BY DEF PrefetchInv, Prefetch!RightEnd
  <2>2. \A i \in 0..(yielded' - 1) : i \in 0..(yielded - 1) \/ i = index
    BY <1>1, PrefetchTypes
  <2> QED BY <1>1, <2>1, <2>2 DEF Prefetch!RightEnd
<1>6. Prefetch!NothingLeft' /\ Prefetch!AbortStep
  BY <1>1, <1>2 DEF Prefetch!NothingLeft, Prefetch!AbortStep
<1> QED BY <1>3, <1>4, <1>5, <1>6 DEF PrefetchInv

LEMMA PrefetchStays ==
    ASSUME PrefetchInv, UNCHANGED prefetch
    PROVE  PrefetchInv' /\ Prefetch!AbortStep
BY DEF prefetch, PrefetchInv, Prefetch!TypeOK, PrefetchStands, Prefetch!WindowKept, Prefetch!RightEnd,
       Prefetch!NothingLeft, Prefetch!AbortStep, Prefetch!Fetch, Prefetch!Running

LEMMA PrefetchSteps ==
    ASSUME PrefetchInv, Prefetch!Next
    PROVE  PrefetchInv' /\ Prefetch!AbortStep
<1>1. CASE Prefetch!Over
  BY <1>1, PrefetchStays DEF Prefetch!Over, Prefetch!vars, prefetch
<1> QED BY <1>1, PrefetchTurns, PrefetchEnds, PrefetchSettles, PrefetchAborts, PrefetchYields
    DEF Prefetch!Next

-----------------------------------------------------------------------------
(* Disposer *)

(* The callback runs for an aborted signal only, and a signal that was     *)
(* aborted before leaves its reason latched until ours aborts.             *)
DisposerInv ==
    /\ Disposer!DisposerRight
    /\ callback # "idle" <=> hasCallback /\ Disposer!Aborted
    /\ early => outside = "aborted"
    /\ early /\ ~Disposer!Aborted => latch = "outside"

LEMMA DisposerStarts == Disposer!Init => DisposerInv
BY DisposerAssumption
   DEF Disposer!Init, DisposerInv, Disposer!DisposerRight, Disposer!TypeOK, Disposer!DisposedOnce,
       Disposer!ReasonKept, Disposer!Aborted

LEMMA DisposerRests == DisposerOver => DisposerInv
BY DEF DisposerOver, DisposerInv, Disposer!DisposerRight, Disposer!TypeOK, Disposer!DisposedOnce,
       Disposer!ReasonKept, Disposer!Aborted

(* Our signal aborts for a reason that respects the latch. *)
LEMMA DisposerAborts ==
    ASSUME DisposerInv, NEW r \in {"outside", "given", "dispose"}, Disposer!AbortFor(r),
           early /\ ~Disposer!Aborted => r # "dispose",
           UNCHANGED <<hasCallback, early, stage>>, deferred' \in BOOLEAN,
           outside' \in {"none", "live", "aborted"}, early => outside' = "aborted"
    PROVE  DisposerInv'
<1>1. CASE Disposer!Aborted
  BY <1>1 DEF Disposer!AbortFor, DisposerInv, Disposer!DisposerRight, Disposer!TypeOK,
       Disposer!DisposedOnce, Disposer!ReasonKept, Disposer!Aborted
<1>2. CASE ~Disposer!Aborted
  <2>1. /\ reason = "none" /\ reason' = r /\ latch' = "none" /\ subscribed' = FALSE
        /\ IF hasCallback
           THEN calls' = calls + 1 /\ callback' = "running" /\ UNCHANGED disposed
           ELSE disposed' = TRUE /\ UNCHANGED <<calls, callback>>
    BY <1>2 DEF Disposer!AbortFor, Disposer!Aborted
  <2>2. calls = 0 /\ ~disposed /\ (callback # "idle" <=> hasCallback /\ reason # "none")
    BY <2>1 DEF DisposerInv, Disposer!DisposerRight, Disposer!DisposedOnce, Disposer!Aborted, Disposer!TypeOK
  <2>3. Disposer!TypeOK'
    BY <2>1 DEF DisposerInv, Disposer!DisposerRight, Disposer!TypeOK
  <2>4. Disposer!DisposedOnce' /\ Disposer!ReasonKept'
    BY <1>2, <2>1, <2>2 DEF Disposer!DisposedOnce, Disposer!ReasonKept, Disposer!Aborted,
       DisposerInv, Disposer!DisposerRight, Disposer!TypeOK
  <2> QED BY <2>1, <2>2, <2>3, <2>4 DEF DisposerInv, Disposer!DisposerRight, Disposer!Aborted
<1> QED BY <1>1, <1>2

LEMMA DisposerStays ==
    ASSUME DisposerInv, UNCHANGED disposer
    PROVE  DisposerInv'
BY DEF disposer, DisposerInv, Disposer!DisposerRight, Disposer!TypeOK, Disposer!DisposedOnce,
       Disposer!ReasonKept, Disposer!Aborted

LEMMA DisposerSteps ==
    ASSUME DisposerInv, Disposer!Next
    PROVE  DisposerInv'
<1>0. /\ deferred \in BOOLEAN /\ outside \in {"none", "live", "aborted"}
      /\ latch \in {"none", "outside"} /\ (early => outside = "aborted")
      /\ (early /\ ~Disposer!Aborted => latch = "outside")
  BY DEF DisposerInv, Disposer!DisposerRight, Disposer!TypeOK
<1>1. CASE Disposer!DisposeCall
  <2>1. PICK r \in {"none", "given"} : Disposer!DisposeFor(r)
    BY <1>1 DEF Disposer!DisposeCall
  <2>2. PICK q \in {"outside", "given", "dispose"} :
          Disposer!AbortFor(q) /\ (latch = "outside" => q # "dispose")
    BY <2>1, <1>0 DEF Disposer!DisposeFor
  <2> QED BY <2>1, <2>2, <1>0, DisposerAborts DEF Disposer!DisposeFor
<1>2. CASE Disposer!AbortCall
  BY <1>0, <1>2, DisposerAborts DEF Disposer!AbortCall
<1>3. CASE Disposer!Built
  BY <1>3 DEF Disposer!Built, DisposerInv, Disposer!DisposerRight, Disposer!TypeOK,
       Disposer!DisposedOnce, Disposer!ReasonKept, Disposer!Aborted
<1>4. CASE Disposer!Deferred
  BY <1>0, <1>4, DisposerAborts DEF Disposer!Deferred
<1>5. CASE Disposer!OutsideAborts
  <2>1. CASE subscribed
    BY <1>0, <1>5, <2>1, DisposerAborts DEF Disposer!OutsideAborts
  <2>2. CASE ~subscribed
    BY <1>5, <2>2 DEF Disposer!OutsideAborts, DisposerInv, Disposer!DisposerRight, Disposer!TypeOK,
       Disposer!DisposedOnce, Disposer!ReasonKept, Disposer!Aborted
  <2> QED BY <2>1, <2>2
<1>6. CASE Disposer!CallbackSettles
  BY <1>6 DEF Disposer!CallbackSettles, DisposerInv, Disposer!DisposerRight, Disposer!TypeOK,
       Disposer!DisposedOnce, Disposer!ReasonKept, Disposer!Aborted
<1> QED BY <1>1, <1>2, <1>3, <1>4, <1>5, <1>6 DEF Disposer!Next

-----------------------------------------------------------------------------
(* Retry *)

(* The attempts up to the present one were called, and the present one is  *)
(* from its race on, unless the deadline refused it.                       *)
RetryCalls ==
    /\ \A a \in Retry!Attempts :
          /\ a < attempt => gave[a] # "no" /\ (gave[a] \in {"queued", "pending"} => a \in told)
          /\ a > attempt => gave[a] = "no"
    /\ loop \in {"top", "race"} => gave[attempt] = "no" /\ raced = "none"
    /\ loop = "racing" /\ raced = "none" => gave[attempt] # "no"
    /\ loop \in {"waiting", "cut", "woken"} =>
          gave[attempt] # "no" /\ raced # "none" /\ attempt < policy.maxAttempts

(* What decided the race. *)
RetryRaced ==
    /\ raced \in {"value", "error"} => gave[attempt] = raced
    /\ raced = "attempt" => gave[attempt] # "no"
    /\ raced = "deadline" => Retry!Passed(now)
    /\ raced = "abort" \/ loop = "cut" => aborted
    /\ raced # "none" => gave[attempt] \notin {"queued", "pending"} \/ attempt \in told
    /\ loop = "racing" /\ timer # None =>
          /\ timer.kind # "wait"
          /\ timer.kind = "deadline" => Retry!Deadline # None /\ timer.due = Retry!Deadline

RetryInv ==
    /\ Retry!RetryRight /\ RetryCalls /\ RetryRaced
    /\ how = "none" <=> loop # "done"
    /\ loop = "done" => gave[attempt] \notin {"queued", "pending"} \/ attempt \in told

LEMMA RetrySize == \A S : Retry!Cardinality(S) = Cardinality(S)
BY DEF Retry!Cardinality, Cardinality

(* What TypeOK says, with the bounds opened. *)
LEMMA RetryTypes ==
    ASSUME RetryInv
    PROVE  /\ policy.maxAttempts \in Nat \ {0} /\ policy.maxAttempts <= MaxAttempts
           /\ policy.attempt \in Nat \cup {None} /\ policy.total \in Nat \cup {None}
           /\ policy.attempt # None => policy.attempt \in 0..Horizon
           /\ policy.total # None => policy.total \in 0..Horizon
           /\ now \in Nat /\ now <= Horizon /\ Horizon \in Nat
           /\ attempt \in Nat \ {0} /\ attempt <= policy.maxAttempts
           /\ Retry!Attempts = 1..policy.maxAttempts /\ attempt \in Retry!Attempts
           /\ gave \in [Retry!Attempts -> {"no", "queued", "pending", "value", "error"}]
<1>1. Retry!TypeOK
  BY DEF RetryInv, Retry!RetryRight
<1>2. /\ policy.maxAttempts \in 1..MaxAttempts
      /\ policy.attempt \in Timeouts \cup {None} /\ policy.total \in Timeouts \cup {None}
  BY <1>1 DEF Retry!TypeOK
<1>3. /\ now \in 0..Horizon /\ attempt \in 1..policy.maxAttempts
      /\ gave \in [Retry!Attempts -> {"no", "queued", "pending", "value", "error"}]
  BY <1>1 DEF Retry!TypeOK, Retry!Attempts, Retry!Time
<1>4. policy.maxAttempts \in Nat \ {0} /\ policy.maxAttempts <= MaxAttempts /\ Horizon \in Nat
  BY <1>2, RetryAssumption
<1>5. /\ policy.attempt \in Nat \cup {None} /\ policy.total \in Nat \cup {None}
      /\ policy.attempt # None => policy.attempt \in 0..Horizon
      /\ policy.total # None => policy.total \in 0..Horizon
  <2>1. \A t \in Timeouts : t \in Nat /\ t \in 0..Horizon
    BY RetryAssumption
  <2> QED BY <1>2, <2>1
<1>6. attempt \in Nat \ {0} /\ attempt <= policy.maxAttempts /\ now \in Nat /\ now <= Horizon
  BY <1>3, <1>4
<1> QED BY <1>3, <1>4, <1>5, <1>6 DEF Retry!Attempts

LEMMA RetryStarts == Retry!Init => RetryInv
<1> SUFFICES ASSUME Retry!Init PROVE RetryInv
  OBVIOUS
<1> USE RetryAssumption DEF Retry!Attempts
<1>1. policy.maxAttempts \in Nat \ {0}
  BY DEF Retry!Init
<1>2. \A a \in Retry!Attempts : gave[a] = "no"
  BY DEF Retry!Init
<1>3. 1 \in Retry!Attempts /\ attempt = 1
  BY <1>1 DEF Retry!Init
<1>4. Retry!TypeOK
  <2>1. gave \in [1..policy.maxAttempts -> {"no", "queued", "pending", "value", "error"}]
    BY DEF Retry!Init
  <2> QED BY <1>1, <1>3, <2>1 DEF Retry!Init, Retry!TypeOK, Retry!Time
<1>5. Retry!EndsRightly /\ Retry!LeftBehindTold
  BY <1>2 DEF Retry!Init, Retry!EndsRightly, Retry!LeftBehindTold, Retry!Called
<1>6. RetryCalls /\ RetryRaced
  BY <1>1, <1>2, <1>3 DEF Retry!Init, RetryCalls, RetryRaced
<1> QED BY <1>2, <1>3, <1>4, <1>5, <1>6 DEF RetryInv, Retry!RetryRight, Retry!Init

LEMMA RetryRests == RetryOver => RetryInv
<1> SUFFICES ASSUME RetryOver PROVE RetryInv
  OBVIOUS
<1> USE RetryAssumption DEF Retry!Attempts
<1>1. policy.maxAttempts = 1 /\ Retry!Attempts = {1} /\ gave[1] = "no" /\ attempt = 1
  BY DEF RetryOver
<1>2. Retry!TypeOK
  <2>1. gave \in [1..policy.maxAttempts -> {"no", "queued", "pending", "value", "error"}]
    BY <1>1 DEF RetryOver
  <2> QED BY <1>1, <2>1 DEF RetryOver, Retry!TypeOK, Retry!Time
<1>3. Retry!EndsRightly /\ Retry!LeftBehindTold
  BY <1>1 DEF RetryOver, Retry!EndsRightly, Retry!LeftBehindTold, Retry!Called
<1>4. RetryCalls /\ RetryRaced
  BY <1>1 DEF RetryOver, RetryCalls, RetryRaced
<1> QED BY <1>1, <1>2, <1>3, <1>4 DEF RetryInv, Retry!RetryRight, RetryOver

(* How many attempts were called. *)
LEMMA CalledCount ==
    ASSUME RetryInv
    PROVE  /\ gave[attempt] # "no" => Cardinality(Retry!Called) = attempt
           /\ gave[attempt] = "no" => Cardinality(Retry!Called) = attempt - 1
<1> USE RetryTypes
<1>1. CASE gave[attempt] # "no"
  <2>1. Retry!Called = 1..attempt
    BY <1>1 DEF RetryInv, RetryCalls, Retry!Called
  <2> QED BY <1>1, <2>1, FS_Interval
<1>2. CASE gave[attempt] = "no"
  <2>1. Retry!Called = 1..(attempt - 1)
    BY <1>2 DEF RetryInv, RetryCalls, Retry!Called
  <2> QED BY <1>2, <2>1, FS_Interval
<1> QED BY <1>1, <1>2

(* A run that ends, for a reason that holds. *)
LEMMA RetryFinishes ==
    ASSUME RetryInv, loop # "done", NEW outcome_ \in {"value", "error", "attempts", "total_timeout", "aborted"},
           NEW n \in 0..policy.maxAttempts, Retry!Finish(outcome_, n),
           aborted' \in BOOLEAN, aborted => aborted',
           raced # "none" \/ gave[attempt] = "no",
           outcome_ = "value" => raced = "value",
           outcome_ \in {"attempts", "error"} => raced \notin {"none", "value", "abort"},
           outcome_ = "attempts" => attempt = policy.maxAttempts /\ gave[attempt] # "no",
           outcome_ = "total_timeout" =>
              /\ \E d \in Delays \cup {0} : Retry!Passed(now + d)
              /\ n = attempt \/ (n = attempt - 1 /\ gave[attempt] = "no"),
           outcome_ = "aborted" => aborted'
    PROVE  RetryInv'
<1> USE RetryTypes
<1>1. /\ loop' = "done" /\ how' = outcome_ /\ reported' = n /\ timer' = None
      /\ UNCHANGED <<policy, now, attempt, raced, gave, told>>
  BY DEF Retry!Finish
<1>2. Retry!Attempts' = Retry!Attempts /\ Retry!Called' = Retry!Called
  BY <1>1 DEF Retry!Attempts, Retry!Called
<1>3. Retry!TypeOK'
  BY <1>1, <1>2 DEF RetryInv, Retry!RetryRight, Retry!TypeOK, Retry!Time
<1>4. outcome_ = "attempts" => Retry!Called = Retry!Attempts
  BY DEF RetryInv, RetryCalls, Retry!Called
<1>5. outcome_ = "total_timeout" => n - Cardinality(Retry!Called) \in {0, 1}
  BY CalledCount
<1>6. outcome_ = "value" => gave[attempt] = "value"
  BY DEF RetryInv, RetryRaced
<1>7. Retry!EndsRightly'
  BY <1>1, <1>2, <1>4, <1>5, <1>6, RetrySize DEF Retry!EndsRightly, Retry!Passed, Retry!Deadline
<1>8. gave[attempt] \notin {"queued", "pending"} \/ attempt \in told
  BY DEF RetryInv, RetryRaced
<1>9. Retry!LeftBehindTold'
  <2> SUFFICES ASSUME NEW a \in Retry!Called, gave[a] \in {"queued", "pending"}
               PROVE  a \in told
    BY <1>1, <1>2 DEF Retry!LeftBehindTold
  <2>1. a \in Retry!Attempts /\ a \in Nat /\ gave[a] # "no"
    BY DEF Retry!Called
  <2> QED BY <2>1, <1>8 DEF RetryInv, RetryCalls
<1>10. RetryCalls'
  BY <1>1, <1>2 DEF RetryInv, RetryCalls
<1>11. RetryRaced'
  BY <1>1 DEF RetryInv, RetryRaced, Retry!Passed, Retry!Deadline
<1> QED BY <1>1, <1>3, <1>7, <1>8, <1>9, <1>10, <1>11 DEF RetryInv, Retry!RetryRight

LEMMA RetryAtTop ==
    ASSUME RetryInv, Retry!Top
    PROVE  RetryInv'
<1> USE RetryTypes
<1>0. /\ loop = "top" /\ aborted' = aborted /\ aborted \in BOOLEAN /\ gave[attempt] = "no" /\ raced = "none"
  BY DEF Retry!Top, RetryInv, Retry!RetryRight, Retry!TypeOK, RetryCalls
<1>1. CASE Retry!Finish("aborted", 0) /\ aborted
  <2>1. 0 \in 0..policy.maxAttempts
    OBVIOUS
  <2> QED BY <1>0, <1>1, <2>1, RetryFinishes
<1>2. CASE Retry!Finish("total_timeout", attempt - 1) /\ Retry!Passed(now)
  <2>1. /\ attempt - 1 \in 0..policy.maxAttempts
        /\ \E d \in Delays \cup {0} : Retry!Passed(now + d)
    <3>1. Retry!Passed(now + 0)
      BY <1>2
    <3> QED BY <3>1
  <2> QED BY <1>0, <1>2, <2>1, RetryFinishes
<1>3. CASE /\ loop' = "race" 
           /\ UNCHANGED <<policy, now, attempt, timer, raced, gave, told, how, reported>>
  BY <1>0, <1>3 DEF RetryInv, Retry!RetryRight, Retry!TypeOK, Retry!EndsRightly, Retry!LeftBehindTold,
     RetryCalls, RetryRaced, Retry!Called, Retry!Attempts, Retry!Passed, Retry!Deadline
<1> QED BY <1>0, <1>1, <1>2, <1>3 DEF Retry!Top

(* What a change of the present attempt's call, its race and its timer has *)
(* to keep while a run goes on.                                            *)
LEMMA RetryKeeps ==
    ASSUME RetryInv, loop # "done",
           UNCHANGED <<policy, attempt, how>>,
           Retry!TypeOK', how = "none",
           now' >= now, aborted => aborted', told \subseteq told', loop' # "done",
           \A a \in Retry!Attempts : a # attempt =>
              gave'[a] = gave[a] \/ (gave[a] # "no" /\ gave'[a] # "no" /\ (gave'[a] \in {"queued", "pending"} => gave[a] \in {"queued", "pending"})),
           loop' \in {"top", "race"} => gave'[attempt] = "no" /\ raced' = "none",
           loop' = "racing" /\ raced' = "none" => gave'[attempt] # "no",
           loop' \in {"waiting", "cut", "woken"} =>
              gave'[attempt] # "no" /\ raced' # "none" /\ attempt < policy.maxAttempts,
           RetryRaced'
    PROVE  RetryInv'
<1> USE RetryTypes
<1>1. Retry!Attempts' = Retry!Attempts
  BY DEF Retry!Attempts
<1>2. RetryCalls'
  BY <1>1 DEF RetryInv, RetryCalls
<1>3. Retry!EndsRightly'
  BY DEF Retry!EndsRightly
<1>4. Retry!LeftBehindTold'
  BY <1>1, <1>2 DEF Retry!LeftBehindTold, RetryCalls, Retry!Called
<1> QED BY <1>2, <1>3, <1>4 DEF RetryInv, Retry!RetryRight

LEMMA RetryRaces ==
    ASSUME RetryInv, Retry!Race
    PROVE  RetryInv'
<1> USE RetryTypes
<1>1. /\ loop = "race" /\ loop' = "racing" /\ gave[attempt] = "no" /\ raced = "none" /\ how = "none"
      /\ UNCHANGED <<policy, now, aborted, attempt, told, how, reported>>
  BY DEF Retry!Race, RetryInv, RetryCalls
<1>2. CASE Retry!Passed(now) /\ raced' = "deadline" /\ timer' = None /\ UNCHANGED gave
  <2>1. Retry!TypeOK'
    BY <1>1, <1>2 DEF RetryInv, Retry!RetryRight, Retry!TypeOK, Retry!Attempts
  <2>2. RetryRaced'
    BY <1>1, <1>2 DEF RetryRaced, Retry!Passed, Retry!Deadline
  <2> QED BY <1>1, <1>2, <2>1, <2>2, RetryKeeps
<1>3. CASE ~Retry!Passed(now) /\ raced' = "none" /\ timer' = Retry!Timer /\ gave' = [gave EXCEPT ![attempt] = "queued"]
  <2>1. \/ Retry!Timer = None
        \/ Retry!Timer = [due |-> policy.total, kind |-> "deadline"] /\ policy.total # None
        \/ \E t \in 0..Horizon : Retry!Timer = [due |-> t, kind |-> "attempt"]
    <3>1. policy.attempt # None => Retry!Later(now, policy.attempt) \in 0..Horizon
      BY DEF Retry!Later
    <3> QED BY <3>1 DEF Retry!Timer, Retry!Deadline
  <2>2. Retry!Timer \in [due : Retry!Time, kind : {"attempt", "deadline", "wait"}] \cup {None}
    BY <2>1 DEF Retry!Time
  <2>3. Retry!TypeOK'
    BY <1>1, <1>3, <2>2 DEF RetryInv, Retry!RetryRight, Retry!TypeOK, Retry!Attempts, Retry!Time
  <2>4. RetryRaced'
    BY <1>1, <1>3, <2>1 DEF RetryRaced, Retry!Passed, Retry!Deadline
  <2>5. \A a \in Retry!Attempts : gave'[a] = IF a = attempt THEN "queued" ELSE gave[a]
    BY <1>3
  <2> QED BY <1>1, <1>3, <2>3, <2>4, <2>5, RetryKeeps
<1> QED BY <1>1, <1>2, <1>3 DEF Retry!Race

(* A call begins or settles, at any time. *)
LEMMA RetryCallGoesOn ==
    ASSUME RetryInv, NEW a \in Retry!Attempts, NEW what \in {"pending", "value", "error"},
           gave[a] \in {"queued", "pending"}, a # attempt \/ what # "pending" \/ gave[a] = "queued",
           gave' = [gave EXCEPT ![a] = what],
           UNCHANGED <<policy, now, aborted, loop, attempt, timer, raced, told, how, reported>>
    PROVE  RetryInv'
<1> USE RetryTypes
<1>1. /\ Retry!Attempts' = Retry!Attempts
      /\ \A b \in Retry!Attempts : gave'[b] = IF b = a THEN what ELSE gave[b]
      /\ Retry!Called' = Retry!Called
  BY DEF Retry!Attempts, Retry!Called
<1>2. Retry!TypeOK'
  BY <1>1 DEF RetryInv, Retry!RetryRight, Retry!TypeOK
<1>3. a = attempt => raced \notin {"value", "error"}
  BY DEF RetryInv, RetryRaced
<1>4. RetryCalls' /\ RetryRaced'
  BY <1>1, <1>3 DEF RetryInv, RetryCalls, RetryRaced, Retry!Passed, Retry!Deadline
<1>5. Retry!EndsRightly'
  BY <1>1 DEF RetryInv, Retry!RetryRight, Retry!EndsRightly, Retry!Passed, Retry!Deadline
<1>6. Retry!LeftBehindTold'
  BY <1>1 DEF RetryInv, Retry!RetryRight, Retry!LeftBehindTold, Retry!Called
<1> QED BY <1>1, <1>2, <1>4, <1>5, <1>6 DEF RetryInv, Retry!RetryRight

LEMMA RetryDelivers ==
    ASSUME RetryInv, Retry!Deliver \/ Retry!Fire
    PROVE  RetryInv'
<1> USE RetryTypes
<1>1. /\ loop = "racing" /\ raced = "none" /\ how = "none" /\ gave[attempt] \in {"pending", "value", "error"}
      /\ UNCHANGED <<policy, now, aborted, loop, attempt, timer, gave, how, reported>>
      /\ \/ raced' = gave[attempt] /\ told' = told /\ gave[attempt] \in {"value", "error"}
         \/ timer # None /\ timer.due <= now /\ raced' = timer.kind /\ told' = told \cup {attempt}
  BY DEF Retry!Deliver, Retry!Fire, RetryInv
<1>2. timer # None => /\ timer.kind \in {"attempt", "deadline"}
                      /\ timer.kind = "deadline" => Retry!Deadline # None /\ timer.due = Retry!Deadline
  BY <1>1 DEF RetryInv, RetryRaced, Retry!RetryRight, Retry!TypeOK
<1>3. Retry!TypeOK'
  <2>1. raced' \in {"none", "value", "error", "attempt", "deadline", "abort"}
    BY <1>1, <1>2
  <2>2. told' \subseteq Retry!Attempts'
    <3>1. told \subseteq Retry!Attempts /\ attempt \in Retry!Attempts
      BY DEF RetryInv, Retry!RetryRight, Retry!TypeOK
    <3>2. Retry!Attempts' = Retry!Attempts
      BY <1>1 DEF Retry!Attempts
    <3> QED BY <1>1, <3>1, <3>2
  <2>3. Retry!TypeOK
    BY DEF RetryInv, Retry!RetryRight
  <2> HIDE RetryTypes
  <2> QED BY <1>1, <2>1, <2>2, <2>3 DEF Retry!TypeOK, Retry!Attempts, Retry!Time
<1>4. RetryRaced'
  BY <1>1, <1>2 DEF RetryRaced, Retry!Passed, Retry!Deadline
<1> QED BY <1>1, <1>2, <1>3, <1>4, RetryKeeps

LEMMA RetryContinues ==
    ASSUME RetryInv, Retry!Continue
    PROVE  RetryInv'
<1> USE RetryTypes
<1>0. /\ loop = "racing" /\ raced # "none" /\ how = "none" /\ aborted \in BOOLEAN
      /\ raced \in {"value", "error", "attempt", "deadline", "abort"}
  BY DEF Retry!Continue, RetryInv, Retry!RetryRight, Retry!TypeOK
<1>1. CASE raced = "value" /\ Retry!Finish("value", 0) /\ UNCHANGED aborted
  BY <1>0, <1>1, RetryFinishes
<1>2. CASE aborted /\ Retry!Finish("aborted", 0) /\ UNCHANGED aborted
  BY <1>0, <1>2, RetryFinishes
<1>3. CASE raced = "deadline" /\ Retry!Finish("total_timeout", attempt) /\ UNCHANGED aborted
  <2>1. Retry!Passed(now + 0)
    BY <1>3 DEF RetryInv, RetryRaced
  <2>2. \E d \in Delays \cup {0} : Retry!Passed(now + d)
    BY <2>1
  <2> QED BY <1>0, <1>3, <2>2, RetryFinishes
<1>4. CASE raced \notin {"value", "deadline"} /\ ~aborted /\ Retry!Finish("error", 0) /\ UNCHANGED aborted
  <2>1. raced # "abort"
    BY <1>4 DEF RetryInv, RetryRaced
  <2> QED BY <1>0, <1>4, <2>1, RetryFinishes
<1>5. CASE raced \notin {"value", "deadline"} /\ ~aborted /\ Retry!RetryAgain
  <2>1. raced \in {"error", "attempt"} /\ gave[attempt] # "no"
    BY <1>0, <1>5 DEF RetryInv, RetryRaced
  <2>2. CASE attempt >= policy.maxAttempts /\ Retry!Finish("attempts", attempt) /\ UNCHANGED aborted
    BY <1>0, <2>1, <2>2, RetryFinishes
  <2>3. ASSUME NEW delay \in Delays, Retry!Passed(now + delay), Retry!Finish("total_timeout", attempt), UNCHANGED aborted
        PROVE  RetryInv'
    BY <1>0, <2>1, <2>3, RetryFinishes
  <2>4. ASSUME Retry!Finish("aborted", 0), aborted' = TRUE
        PROVE  RetryInv'
    BY <1>0, <2>1, <2>4, RetryFinishes
  <2>5. ASSUME NEW delay \in Delays, loop' = "waiting", attempt < policy.maxAttempts,
               timer' = [due |-> Retry!Later(now, delay), kind |-> "wait"],
               UNCHANGED <<policy, now, aborted, attempt, raced, gave, told, how, reported>>
        PROVE  RetryInv'
    <3>1. Retry!Later(now, delay) \in 0..Horizon
      BY RetryAssumption DEF Retry!Later
    <3>2. Retry!TypeOK'
      BY <2>5, <3>1 DEF RetryInv, Retry!RetryRight, Retry!TypeOK, Retry!Attempts, Retry!Time
    <3>3. RetryRaced'
      BY <2>5 DEF RetryInv, RetryRaced, Retry!Passed, Retry!Deadline
    <3> QED BY <1>0, <2>1, <2>5, <3>2, <3>3, RetryKeeps
  <2>6. CASE attempt >= policy.maxAttempts
    BY <1>5, <2>2, <2>6 DEF Retry!RetryAgain
  <2>7. CASE ~(attempt >= policy.maxAttempts)
    <3>1. PICK delay \in Delays :
             IF Retry!Passed(now + delay) THEN Retry!Finish("total_timeout", attempt) /\ UNCHANGED aborted
             ELSE Retry!Wait(delay)
      BY <1>5, <2>7 DEF Retry!RetryAgain
    <3>2. CASE Retry!Passed(now + delay)
      BY <2>3, <3>1, <3>2
    <3>3. CASE Retry!Wait(delay)
      <4>1. attempt < policy.maxAttempts
        BY <2>7
      <4> QED BY <2>4, <2>5, <3>3, <4>1 DEF Retry!Wait
    <3> QED BY <3>1, <3>2, <3>3
  <2> QED BY <2>6, <2>7
<1> QED BY <1>1, <1>2, <1>3, <1>4, <1>5 DEF Retry!Continue

LEMMA RetryWaits ==
    ASSUME RetryInv, Retry!WaitOver
    PROVE  RetryInv'
<1>1. /\ loop = "waiting" /\ loop' = "woken"
      /\ UNCHANGED <<policy, now, aborted, attempt, timer, raced, gave, told, how, reported>>
  BY DEF Retry!WaitOver
<1>2. Retry!TypeOK'
  BY <1>1 DEF RetryInv, Retry!RetryRight, Retry!TypeOK, Retry!Attempts
<1>3. RetryRaced'
  BY <1>1 DEF RetryInv, RetryRaced, Retry!Passed, Retry!Deadline
<1>4. gave[attempt] # "no" /\ raced # "none" /\ how = "none" /\ attempt < policy.maxAttempts
  BY <1>1 DEF RetryInv, RetryCalls
<1> QED BY <1>1, <1>2, <1>3, <1>4, RetryTypes, RetryKeeps

LEMMA RetryWakes ==
    ASSUME RetryInv, Retry!Woken
    PROVE  RetryInv'
<1> USE RetryTypes
<1>1. /\ loop = "woken" /\ loop' = "top" /\ attempt' = attempt + 1 /\ raced' = "none" /\ timer' = None
      /\ UNCHANGED <<policy, now, aborted, gave, told, how, reported>>
      /\ gave[attempt] # "no" /\ raced # "none" /\ how = "none" /\ attempt < policy.maxAttempts
  BY DEF Retry!Woken, RetryInv, RetryCalls
<1>2. Retry!Attempts' = Retry!Attempts /\ attempt + 1 \in Retry!Attempts
  BY <1>1 DEF Retry!Attempts
<1>3. Retry!TypeOK'
  BY <1>1, <1>2 DEF RetryInv, Retry!RetryRight, Retry!TypeOK, Retry!Time
<1>4. gave[attempt] \notin {"queued", "pending"} \/ attempt \in told
  BY <1>1 DEF RetryInv, RetryRaced
<1>5. RetryCalls'
  BY <1>1, <1>2, <1>4 DEF RetryInv, RetryCalls
<1>6. RetryRaced' /\ Retry!EndsRightly'
  BY <1>1 DEF RetryRaced, Retry!EndsRightly
<1>7. Retry!LeftBehindTold'
  BY <1>1, <1>2, <1>5 DEF Retry!LeftBehindTold, RetryCalls, Retry!Called
<1> QED BY <1>1, <1>3, <1>5, <1>6, <1>7 DEF RetryInv, Retry!RetryRight

LEMMA RetryAborts ==
    ASSUME RetryInv, Retry!Abort
    PROVE  RetryInv'
<1> USE RetryTypes
<1>1. /\ ~aborted /\ aborted' = TRUE /\ loop \in {"racing", "waiting", "woken"} /\ how = "none"
      /\ told' = (IF loop = "racing" /\ gave[attempt] # "no" THEN told \cup {attempt} ELSE told)
      /\ raced' = (IF loop = "racing" /\ raced = "none" THEN "abort" ELSE raced)
      /\ loop' = (IF loop = "waiting" THEN "cut" ELSE loop)
      /\ UNCHANGED <<policy, now, attempt, timer, gave, how, reported>>
  BY DEF Retry!Abort, RetryInv
<1>2. Retry!TypeOK'
  BY <1>1 DEF RetryInv, Retry!RetryRight, Retry!TypeOK, Retry!Attempts
<1>3. /\ loop = "racing" /\ raced = "none" => gave[attempt] # "no"
      /\ loop \in {"waiting", "woken"} => gave[attempt] # "no" /\ raced # "none" /\ attempt < policy.maxAttempts
  BY DEF RetryInv, RetryCalls
<1>4. RetryRaced'
  BY <1>1, <1>3 DEF RetryInv, RetryRaced, Retry!Passed, Retry!Deadline
<1> QED BY <1>1, <1>2, <1>3, <1>4, RetryKeeps

LEMMA RetryTicks ==
    ASSUME RetryInv, Retry!Tick
    PROVE  RetryInv'
<1> USE RetryTypes
<1>1. /\ now < Horizon /\ now' = now + 1 /\ loop # "done" /\ how = "none"
      /\ UNCHANGED <<policy, aborted, loop, attempt, timer, raced, gave, told, how, reported>>
  BY DEF Retry!Tick, RetryInv
<1>2. Retry!TypeOK'
  BY <1>1 DEF RetryInv, Retry!RetryRight, Retry!TypeOK, Retry!Attempts, Retry!Time
<1>3. RetryRaced'
  BY <1>1 DEF RetryInv, RetryRaced, Retry!Passed, Retry!Deadline
<1>4. /\ loop \in {"top", "race"} => gave[attempt] = "no" /\ raced = "none"
      /\ loop = "racing" /\ raced = "none" => gave[attempt] # "no"
      /\ loop \in {"waiting", "cut", "woken"} =>
            gave[attempt] # "no" /\ raced # "none" /\ attempt < policy.maxAttempts
  BY DEF RetryInv, RetryCalls
<1> QED BY <1>1, <1>2, <1>3, <1>4, RetryKeeps

LEMMA RetryStays ==
    ASSUME RetryInv, UNCHANGED retry
    PROVE  RetryInv'
BY DEF retry, RetryInv, Retry!RetryRight, Retry!TypeOK, Retry!EndsRightly, Retry!LeftBehindTold,
       RetryCalls, RetryRaced, Retry!Called, Retry!Attempts, Retry!Passed, Retry!Deadline

LEMMA RetrySteps ==
    ASSUME RetryInv, Retry!Next
    PROVE  RetryInv'
<1>1. CASE Retry!Begin
  BY <1>1, RetryTypes, RetryCallGoesOn DEF Retry!Begin
<1>2. ASSUME NEW a \in Retry!Attempts, NEW what \in {"value", "error"}, Retry!Settle(a, what)
      PROVE  RetryInv'
  BY <1>2, RetryCallGoesOn DEF Retry!Settle
<1>3. CASE Retry!Cut
  <2>1. /\ loop = "cut" /\ raced # "none" /\ Retry!Finish("aborted", 0) /\ aborted' = aborted
    BY <1>3 DEF Retry!Cut, RetryInv, RetryCalls
  <2>2. aborted
    BY <2>1 DEF RetryInv, RetryRaced
  <2>3. 0 \in 0..policy.maxAttempts
    BY RetryTypes
  <2> QED BY <2>1, <2>2, <2>3, RetryFinishes
<1>4. CASE Retry!Over
  BY <1>4, RetryStays DEF Retry!Over, Retry!vars, retry
<1> QED BY <1>1, <1>2, <1>3, <1>4, RetryAtTop, RetryRaces, RetryDelivers, RetryContinues, RetryWaits,
           RetryWakes, RetryAborts, RetryTicks
    DEF Retry!Next, Retry!Step

-----------------------------------------------------------------------------
(* Yielder: how often a value is in a sequence. *)

LEMMA YielderSize == \A S : Yielder!Cardinality(S) = Cardinality(S)
BY DEF Yielder!Cardinality, Cardinality

(* Short sequences. *)
LEMMA ShortSeqs ==
    ASSUME NEW S
    PROVE  /\ <<>> \in Seq(S) /\ \A a \in S : <<a>> \in Seq(S)
           /\ \A a, b \in S : <<a, b>> \in Seq(S)
           /\ <<>> \o <<>> = <<>>
BY EmptySeq

LEMMA CountIs ==
    ASSUME NEW S, NEW s \in Seq(S), NEW x
    PROVE  /\ Yielder!Count(s, x) = Cardinality({i \in 1..Len(s) : s[i] = x})
           /\ IsFiniteSet({i \in 1..Len(s) : s[i] = x})
           /\ Yielder!Count(s, x) \in Nat
<1> DEFINE at == {i \in 1..Len(s) : s[i] = x}
<1>1. Len(s) \in Int /\ DOMAIN s = 1..Len(s)
  BY LenProperties
<1>2. IsFiniteSet(at) /\ Cardinality(at) \in Nat
  <2>1. IsFiniteSet(1..Len(s)) /\ at \in SUBSET (1..Len(s))
    BY <1>1, FS_Interval
  <2> HIDE DEF at
  <2> QED BY <2>1, FS_Subset, FS_CardinalityType
<1> QED BY <1>1, <1>2, YielderSize DEF Yielder!Count

LEMMA CountConcat ==
    ASSUME NEW S, NEW s \in Seq(S), NEW t \in Seq(S), NEW x
    PROVE  Yielder!Count(s \o t, x) = Yielder!Count(s, x) + Yielder!Count(t, x)
<1> DEFINE u == s \o t
           inS == {i \in 1..Len(s) : s[i] = x}
           inT == {i \in 1..Len(t) : t[i] = x}
           late == {i \in 1..Len(u) : u[i] = x /\ i > Len(s)}
           f == [i \in inT |-> i + Len(s)]
<1>1. /\ u \in Seq(S) /\ Len(u) = Len(s) + Len(t) /\ Len(s) \in Nat /\ Len(t) \in Nat
      /\ \A i \in 1..Len(u) : u[i] = IF i <= Len(s) THEN s[i] ELSE t[i - Len(s)]
  BY ConcatProperties, LenProperties
<1> HIDE DEF u
<1>2. {i \in 1..Len(u) : u[i] = x} = inS \cup late /\ inS \cap late = {}
  BY <1>1
<1>3. IsFiniteSet(inS) /\ IsFiniteSet(inT) /\ IsFiniteSet(late)
  <2>1. IsFiniteSet(1..Len(u)) /\ late \in SUBSET (1..Len(u))
    BY <1>1, FS_Interval
  <2>2. IsFiniteSet(inS) /\ IsFiniteSet(inT)
    BY CountIs
  <2> HIDE DEF inS, inT, late
  <2> QED BY <2>1, <2>2, FS_Subset
<1>4. f \in Bijection(inT, late)
  <2>1. \A i \in inT : i + Len(s) \in late
    <3> SUFFICES ASSUME NEW i \in inT PROVE i + Len(s) \in late
      OBVIOUS
    <3>1. i \in 1..Len(t) /\ t[i] = x
      OBVIOUS
    <3>2. i + Len(s) \in 1..Len(u) /\ i + Len(s) > Len(s) /\ (i + Len(s)) - Len(s) = i
      BY <1>1, <3>1
    <3>3. u[i + Len(s)] = x
      BY <1>1, <3>1, <3>2
    <3> QED BY <3>2, <3>3
  <2>2. \A j \in late : j - Len(s) \in inT /\ j = (j - Len(s)) + Len(s)
    BY <1>1
  <2>3. \A i, j \in inT : i + Len(s) = j + Len(s) => i = j
    BY <1>1
  <2> HIDE DEF inT, late
  <2> QED BY <2>1, <2>2, <2>3, ZenonT(30) DEF Bijection, Injection, Surjection, IsInjective
<1>5. Cardinality(late) = Cardinality(inT)
  BY <1>3, <1>4, FS_Bijection DEF ExistsBijection
<1>6. Cardinality(inS \cup late) = Cardinality(inS) + Cardinality(late)
  <2>1. Cardinality(inS \cap late) = 0
    BY <1>2, FS_EmptySet
  <2>2. Cardinality(inS) \in Nat /\ Cardinality(late) \in Nat
    BY <1>3, FS_CardinalityType
  <2> HIDE DEF inS, late
  <2>3. Cardinality(inS \cup late) = Cardinality(inS) + Cardinality(late) - Cardinality(inS \cap late)
    BY <1>3, FS_Union
  <2> QED BY <2>1, <2>2, <2>3
<1>7. /\ Yielder!Count(u, x) = Cardinality(inS \cup late)
      /\ Yielder!Count(s, x) = Cardinality(inS) /\ Yielder!Count(t, x) = Cardinality(inT)
  BY <1>1, <1>2, CountIs
<1> QED BY <1>5, <1>6, <1>7 DEF u

LEMMA CountOne ==
    ASSUME NEW a, NEW x
    PROVE  /\ Yielder!Count(<<>>, x) = 0
           /\ Yielder!Count(<<a>>, x) = IF a = x THEN 1 ELSE 0
<1>1. {i \in DOMAIN <<>> : <<>>[i] = x} = {}
  OBVIOUS
<1>2. {i \in DOMAIN <<a>> : <<a>>[i] = x} = IF a = x THEN {1} ELSE {}
  OBVIOUS
<1> QED BY <1>1, <1>2, FS_EmptySet, FS_Singleton, YielderSize DEF Yielder!Count

LEMMA CountAppend ==
    ASSUME NEW S, NEW s \in Seq(S), NEW a \in S, NEW x
    PROVE  Yielder!Count(Append(s, a), x) = Yielder!Count(s, x) + IF a = x THEN 1 ELSE 0
<1>1. Append(s, a) = s \o <<a>> /\ <<a>> \in Seq(S)
  BY AppendIsConcat
<1>2. Yielder!Count(s \o <<a>>, x) = Yielder!Count(s, x) + Yielder!Count(<<a>>, x)
  BY <1>1, CountConcat
<1> QED BY <1>1, <1>2, CountOne

LEMMA CountTail ==
    ASSUME NEW S, NEW s \in Seq(S), s # <<>>, NEW x
    PROVE  /\ Head(s) \in S /\ Tail(s) \in Seq(S)
           /\ Yielder!Count(s, x) = Yielder!Count(Tail(s), x) + IF Head(s) = x THEN 1 ELSE 0
<1>1. Head(s) \in S /\ Tail(s) \in Seq(S)
  BY HeadTailProperties
<1>2. s = <<Head(s)>> \o Tail(s)
  OBVIOUS
<1>3. <<Head(s)>> \in Seq(S)
  BY <1>1
<1>4. Yielder!Count(s, x) = Yielder!Count(<<Head(s)>>, x) + Yielder!Count(Tail(s), x)
  <2>1. Yielder!Count(<<Head(s)>> \o Tail(s), x)
           = Yielder!Count(<<Head(s)>>, x) + Yielder!Count(Tail(s), x)
    BY <1>1, <1>3, CountConcat
  <2> QED BY <1>2, <2>1
<1>5. Yielder!Count(Tail(s), x) \in Nat
  BY <1>1, CountIs
<1> QED BY <1>1, <1>4, <1>5, CountOne

LEMMA CountPair ==
    ASSUME NEW S, NEW s \in Seq(S), NEW a \in S, NEW b \in S, NEW x
    PROVE  Yielder!Count(s \o <<a, b>>, x)
              = Yielder!Count(s, x) + (IF a = x THEN 1 ELSE 0) + (IF b = x THEN 1 ELSE 0)
<1> DEFINE one == Append(s, a)
           two == Append(one, b)
           pair == <<a, b>>
           t == s \o pair
<1>1. /\ one \in Seq(S) /\ Len(one) = Len(s) + 1 /\ Len(s) \in Nat
      /\ \A i \in 1..Len(s) : one[i] = s[i]
      /\ one[Len(s) + 1] = a
  BY AppendProperties, LenProperties
<1>2. pair \in Seq(S) /\ Len(pair) = 2 /\ pair[1] = a /\ pair[2] = b
  BY ShortSeqs
<1> HIDE DEF one, pair
<1>3. /\ two \in Seq(S) /\ Len(two) = Len(one) + 1
      /\ \A i \in 1..Len(one) : two[i] = one[i]
      /\ two[Len(one) + 1] = b
  BY <1>1, AppendProperties
<1>4. /\ t \in Seq(S) /\ Len(t) = Len(s) + 2
      /\ \A i \in 1..(Len(s) + 2) : t[i] = IF i <= Len(s) THEN s[i] ELSE pair[i - Len(s)]
  <2>1. /\ t \in Seq(S) /\ Len(t) = Len(s) + Len(pair)
        /\ \A i \in 1..(Len(s) + Len(pair)) : t[i] = IF i <= Len(s) THEN s[i] ELSE pair[i - Len(s)]
    BY <1>2, ConcatProperties
  <2> HIDE DEF t
  <2> QED BY <1>2, <2>1
<1> HIDE DEF two, t
<1>5. t = two
  <2>1. Len(t) = Len(two)
    BY <1>1, <1>3, <1>4
  <2>2. \A i \in 1..Len(t) : t[i] = two[i]
    <3> SUFFICES ASSUME NEW i \in 1..(Len(s) + 2) PROVE t[i] = two[i]
      BY <1>4
    <3>1. CASE i <= Len(s)
      BY <1>1, <1>3, <1>4, <3>1
    <3>2. CASE i = Len(s) + 1
      <4>1. t[i] = pair[i - Len(s)] /\ i - Len(s) = 1
        BY <1>1, <1>4, <3>2
      <4> QED BY <1>1, <1>2, <1>3, <3>2, <4>1
    <3>3. CASE i = Len(s) + 2
      <4>1. t[i] = pair[i - Len(s)] /\ i - Len(s) = 2
        BY <1>1, <1>4, <3>3
      <4> QED BY <1>1, <1>2, <1>3, <3>3, <4>1
    <3> QED BY <1>1, <3>1, <3>2, <3>3
  <2> QED BY <1>3, <1>4, <2>1, <2>2, SeqEqual
<1>6. Yielder!Count(one, x) = Yielder!Count(s, x) + IF a = x THEN 1 ELSE 0
  BY CountAppend DEF one
<1>7. Yielder!Count(two, x) = Yielder!Count(one, x) + IF b = x THEN 1 ELSE 0
  BY <1>1, CountAppend DEF two
<1>8. Yielder!Count(s, x) \in Nat
  BY CountIs
<1> QED BY <1>5, <1>6, <1>7, <1>8 DEF t, pair

(* The head of one sequence moves to the end of another. *)
LEMMA HeadMoves ==
    ASSUME NEW S, NEW s \in Seq(S), NEW t \in Seq(S), t # <<>>
    PROVE  Append(s, Head(t)) \o Tail(t) = s \o t
<1>1. Head(t) \in S /\ Tail(t) \in Seq(S) /\ <<Head(t)>> \in Seq(S)
  BY HeadTailProperties, ShortSeqs
<1>2. Append(s, Head(t)) = s \o <<Head(t)>>
  BY <1>1, AppendIsConcat
<1>3. t = <<Head(t)>> \o Tail(t)
  OBVIOUS
<1>4. (s \o <<Head(t)>>) \o Tail(t) = s \o (<<Head(t)>> \o Tail(t))
  BY <1>1, ConcatAssociative
<1> QED BY <1>2, <1>3, <1>4

(* While resumeNext is due, the turn of pump is under way: it resumed      *)
(* somebody, and those it has left are waiting.                            *)
YielderTurn ==
    Yielder!Count(micro, Yielder!ResumeNext) = 1 =>
       pump.resumed /\ pump.remaining \in 0..Len(waiters) /\ pump.start = lastTurn

YielderTypes ==
    /\ timers \in Seq({"mark", "pump"}) /\ waited \in Seq(Callers) /\ resumed \in Seq(Callers)
    /\ pump \in [start : Nat, remaining : Int, resumed : BOOLEAN]

YielderInv == Yielder!YielderRight /\ YielderTypes /\ YielderTurn

(* Every caller is somewhere in a sequence of all, once. *)
LEMMA CallersOnce ==
    ASSUME NEW m \in Yielder!SetToSeqs(Callers)
    PROVE  m \in Seq(Callers) /\ \A c \in Callers : Yielder!Count(m, c) = 1
<1> DEFINE n == Cardinality(Callers)
<1>1. m \in [1..n -> Callers] /\ \A i, j \in 1..n : i # j => m[i] # m[j]
  BY YielderSize DEF Yielder!SetToSeqs
<1>2. IsFiniteSet(Callers) /\ n \in Nat
  BY YielderAssumption, FS_CardinalityType
<1>3. IsFiniteSet(1..n) /\ Cardinality(1..n) = n
  BY <1>2, FS_Interval
<1> HIDE DEF n
<1>4. m \in Injection(1..n, Callers)
  BY <1>1 DEF Injection, IsInjective
<1>5. m \in Surjection(1..n, Callers)
  BY <1>2, <1>3, <1>4, FS_Injection DEF n
<1>6. m \in Seq(Callers) /\ DOMAIN m = 1..n
  BY <1>1, <1>2
<1>7. ASSUME NEW c \in Callers
      PROVE  Yielder!Count(m, c) = 1
  <2>1. PICK i \in 1..n : m[i] = c
    BY <1>5 DEF Surjection
  <2>2. {j \in 1..n : m[j] = c} = {i}
    BY <1>1, <2>1
  <2> QED BY <1>6, <2>2, FS_Singleton, YielderSize DEF Yielder!Count
<1> QED BY <1>6, <1>7

LEMMA YielderStarts == Yielder!Init => YielderInv
<1> SUFFICES ASSUME Yielder!Init PROVE YielderInv
  OBVIOUS
<1>1. /\ clock = 0 /\ lastTurn = 0 /\ waiters = <<>> /\ marking = FALSE /\ pumping = FALSE
      /\ pump = Yielder!NoTurn /\ timers = <<>> /\ waited = <<>> /\ resumed = <<>>
      /\ units = [c \in Callers |-> MaxUnits]
  BY DEF Yielder!Init
<1>2. micro \in Seq(Callers) /\ \A c \in Callers : Yielder!Count(micro, c) = 1
  BY CallersOnce DEF Yielder!Init
<1>3. Yielder!Count(micro, 0) = 0
  <2>1. {i \in 1..Len(micro) : micro[i] = 0} = {}
    BY <1>2, YielderAssumption
  <2> QED BY <1>2, <2>1, CountIs, FS_EmptySet
<1>4. Yielder!TypeOK
  <2>1. <<>> \in Seq(Callers) /\ micro \in Seq(Callers \cup {0})
    BY <1>2, ShortSeqs, SeqMonotonic
  <2>2. 0 \in 0..0 /\ [c \in Callers |-> MaxUnits] \in [Callers -> 0..MaxUnits]
    BY YielderAssumption
  <2> QED BY <1>1, <2>1, <2>2 DEF Yielder!TypeOK, Yielder!ResumeNext
<1>5. Yielder!Pumped
  <2>1. Yielder!Count(timers, "mark") = 0 /\ Yielder!Count(timers, "pump") = 0
    BY <1>1, CountOne
  <2> QED BY <1>1, <1>3, <2>1 DEF Yielder!Pumped, Yielder!ResumeNext
<1>6. Yielder!FirstComeFirstServed
  <2>1. \A c \in Callers : Yielder!Count(waiters, c) = 0 /\ Yielder!Count(micro, c) = 1
    BY <1>1, <1>2, CountOne
  <2> QED BY <1>1, <2>1, ShortSeqs DEF Yielder!FirstComeFirstServed
<1>7. YielderTypes /\ YielderTurn
  <2>1. /\ <<>> \in Seq({"mark", "pump"}) /\ <<>> \in Seq(Callers)
        /\ Yielder!NoTurn \in [start : Nat, remaining : Int, resumed : BOOLEAN]
    BY ShortSeqs DEF Yielder!NoTurn
  <2> QED BY <1>1, <1>3, <2>1 DEF YielderTypes, YielderTurn, Yielder!ResumeNext
<1> QED BY <1>4, <1>5, <1>6, <1>7 DEF YielderInv, Yielder!YielderRight

LEMMA YielderRests == YielderOver => YielderInv
<1> SUFFICES ASSUME YielderOver PROVE YielderInv
  OBVIOUS
<1>1. /\ clock = 0 /\ lastTurn = 0 /\ waiters = <<>> /\ marking = FALSE /\ pumping = FALSE
      /\ pump = Yielder!NoTurn /\ micro = <<>> /\ timers = <<>> /\ waited = <<>> /\ resumed = <<>>
      /\ units = [c \in Callers |-> 0]
  BY DEF YielderOver
<1>2. Yielder!TypeOK
  <2>1. <<>> \in Seq(Callers) /\ <<>> \in Seq(Callers \cup {0})
    BY ShortSeqs
  <2>2. 0 \in 0..0 /\ [c \in Callers |-> 0] \in [Callers -> 0..MaxUnits]
    BY YielderAssumption
  <2> QED BY <1>1, <2>1, <2>2 DEF Yielder!TypeOK, Yielder!ResumeNext
<1>3. Yielder!Pumped /\ Yielder!FirstComeFirstServed
  <2>1. \A x : /\ Yielder!Count(waiters, x) = 0 /\ Yielder!Count(micro, x) = 0
               /\ Yielder!Count(timers, x) = 0
    BY <1>1, CountOne
  <2> QED BY <1>1, <2>1, ShortSeqs DEF Yielder!Pumped, Yielder!FirstComeFirstServed
<1>4. YielderTypes /\ YielderTurn
  <2>1. /\ <<>> \in Seq({"mark", "pump"}) /\ <<>> \in Seq(Callers)
        /\ Yielder!NoTurn \in [start : Nat, remaining : Int, resumed : BOOLEAN]
    BY ShortSeqs DEF Yielder!NoTurn
  <2>2. Yielder!Count(micro, 0) = 0
    BY <1>1, CountOne
  <2> QED BY <1>1, <2>1, <2>2 DEF YielderTypes, YielderTurn, Yielder!ResumeNext
<1> QED BY <1>2, <1>3, <1>4 DEF YielderInv, Yielder!YielderRight

LEMMA YielderStays ==
    ASSUME YielderInv, UNCHANGED yielder
    PROVE  YielderInv'
BY DEF yielder, YielderInv, YielderTypes, YielderTurn, Yielder!YielderRight, Yielder!TypeOK,
       Yielder!Pumped, Yielder!FirstComeFirstServed, Yielder!Count

(* What stands at the head of the microtasks is counted there. *)
LEMMA MicroTail ==
    ASSUME YielderInv, micro # <<>>
    PROVE  /\ Head(micro) \in Callers \cup {0} /\ Tail(micro) \in Seq(Callers \cup {0})
           /\ \A x : /\ Yielder!Count(micro, x) \in Nat /\ Yielder!Count(Tail(micro), x) \in Nat
                     /\ Yielder!Count(micro, x)
                           = Yielder!Count(Tail(micro), x) + IF Head(micro) = x THEN 1 ELSE 0
<1>1. micro \in Seq(Callers \cup {0})
  BY DEF YielderInv, Yielder!YielderRight, Yielder!TypeOK, Yielder!ResumeNext
<1> QED BY <1>1, CountTail, CountIs

(* The counts of the other sequences. *)
LEMMA CountTypes ==
    ASSUME YielderInv
    PROVE  /\ waiters \in Seq(Callers) /\ micro \in Seq(Callers \cup {0}) /\ timers \in Seq({"mark", "pump"})
           /\ \A x : /\ Yielder!Count(waiters, x) \in Nat /\ Yielder!Count(timers, x) \in Nat
                     /\ Yielder!Count(micro, x) \in Nat
BY CountIs DEF YielderInv, YielderTypes, Yielder!YielderRight, Yielder!TypeOK, Yielder!ResumeNext

LEMMA YielderCalls ==
    ASSUME YielderInv, NEW c \in Callers, Yielder!MaybeYield(c)
    PROVE  YielderInv'
<1> USE YielderAssumption DEF Yielder!ResumeNext
<1> DEFINE mark == Yielder!Mark
           pumped == Yielder!Pump
<1>1. micro # <<>> /\ Head(micro) = c /\ units[c] > 0 /\ c # 0
  BY DEF Yielder!MaybeYield
<1>2. PICK work \in Work : clock' = clock + work
  BY DEF Yielder!MaybeYield
<1>3. /\ units' = [units EXCEPT ![c] = @ - 1] /\ marking' = TRUE
      /\ UNCHANGED <<lastTurn, pump, resumed>>
  BY DEF Yielder!MaybeYield
<1>4. \A x : /\ Yielder!Count(mark, x) = (IF x = "mark" /\ ~marking THEN 1 ELSE 0)
             /\ Yielder!Count(pumped, x) = (IF x = "pump" /\ ~pumping THEN 1 ELSE 0)
  BY CountOne DEF Yielder!Mark, Yielder!Pump
<1>5. mark \in Seq({"mark", "pump"}) /\ pumped \in Seq({"mark", "pump"})
  BY ShortSeqs DEF Yielder!Mark, Yielder!Pump
<1>6. clock \in Nat /\ clock' \in Nat /\ lastTurn' \in 0..clock' /\ units' \in [Callers -> 0..MaxUnits]
  BY <1>1, <1>2, <1>3 DEF YielderInv, Yielder!YielderRight, Yielder!TypeOK
<1> HIDE DEF mark, pumped
<1>7. CASE waiters = <<>> /\ timers' = timers \o mark /\ micro' = Append(Tail(micro), c)
           /\ UNCHANGED <<waiters, pumping, waited>>
  <2>1. \A x : Yielder!Count(micro', x) = Yielder!Count(micro, x)
    <3>1. \A x : Yielder!Count(Append(Tail(micro), c), x)
                    = Yielder!Count(Tail(micro), x) + IF c = x THEN 1 ELSE 0
      <4>1. Tail(micro) \in Seq(Callers \cup {0}) /\ c \in Callers \cup {0}
        BY <1>1, MicroTail
      <4> QED BY <4>1, CountAppend
    <3> QED BY <1>1, <1>7, <3>1, MicroTail
  <2>2. micro' \in Seq(Callers \cup {0}) /\ timers' \in Seq({"mark", "pump"})
    <3>1. Tail(micro) \in Seq(Callers \cup {0}) /\ c \in Callers \cup {0}
      BY <1>1, MicroTail
    <3>2. Append(Tail(micro), c) \in Seq(Callers \cup {0})
      BY <3>1, AppendProperties
    <3>3. timers \o mark \in Seq({"mark", "pump"})
      BY <1>5, CountTypes, ConcatProperties
    <3> QED BY <1>7, <3>2, <3>3
  <2>3. \A x : Yielder!Count(timers', x) = Yielder!Count(timers, x) + Yielder!Count(mark, x)
    BY <1>5, <1>7, CountTypes, CountConcat
  <2>4. Yielder!TypeOK' /\ YielderTypes'
    BY <1>3, <1>6, <1>7, <2>2 DEF YielderInv, YielderTypes, Yielder!YielderRight, Yielder!TypeOK
  <2>5. Yielder!Pumped'
    <3>1. Yielder!Pumped /\ marking \in BOOLEAN
      BY DEF YielderInv, Yielder!YielderRight, Yielder!TypeOK
    <3>2. Yielder!Count(timers, "mark") = IF marking THEN 1 ELSE 0
      BY <3>1 DEF Yielder!Pumped
    <3>3. Yielder!Count(timers', "mark") = 1 /\ Yielder!Count(timers', "pump") = Yielder!Count(timers, "pump")
      BY <1>4, <2>3, <3>1, <3>2, CountTypes
    <3> QED BY <1>3, <1>7, <2>1, <3>1, <3>3 DEF Yielder!Pumped, Yielder!Count
  <2>6. Yielder!FirstComeFirstServed'
    <3>1. \A d \in Callers : units'[d] = 0 => units[d] = 0 \/ d = c
      BY <1>3 DEF YielderInv, Yielder!YielderRight, Yielder!TypeOK
    <3>2. Yielder!FirstComeFirstServed /\ units \in [Callers -> 0..MaxUnits]
      BY DEF YielderInv, Yielder!YielderRight, Yielder!TypeOK
    <3>3. \A d \in Callers : units[d] = 0 => units'[d] = 0
      BY <1>1, <1>3, <3>2
    <3>4. \A d \in Callers : Yielder!Count(waiters', d) + Yielder!Count(micro', d)
                               = Yielder!Count(waiters, d) + Yielder!Count(micro, d)
      BY <1>7, <2>1
    <3> QED BY <1>3, <1>7, <3>2, <3>3, <3>4 DEF Yielder!FirstComeFirstServed
  <2>7. YielderTurn'
    BY <1>3, <1>7, <2>1 DEF YielderInv, YielderTurn
  <2> QED BY <2>4, <2>5, <2>6, <2>7 DEF YielderInv, Yielder!YielderRight
<1>8. CASE timers' = (timers \o mark) \o pumped /\ micro' = Tail(micro)
           /\ waiters' = Append(waiters, c) /\ pumping' = TRUE /\ waited' = Append(waited, c)
  <2>1. \A x : Yielder!Count(micro, x) = Yielder!Count(micro', x) + IF c = x THEN 1 ELSE 0
    BY <1>1, <1>8, MicroTail
  <2>2. \A x : Yielder!Count(waiters', x) = Yielder!Count(waiters, x) + IF c = x THEN 1 ELSE 0
    BY <1>8, CountTypes, CountAppend
  <2>3. /\ micro' \in Seq(Callers \cup {0}) /\ timers' \in Seq({"mark", "pump"})
        /\ waiters' \in Seq(Callers) /\ waiters' # <<>> /\ Len(waiters') = Len(waiters) + 1
        /\ waited' \in Seq(Callers)
    <3>1. waiters \in Seq(Callers) /\ waited \in Seq(Callers)
      BY DEF YielderInv, Yielder!YielderRight, Yielder!TypeOK, YielderTypes
    <3>2. timers' \in Seq({"mark", "pump"})
      <4>1. timers \o mark \in Seq({"mark", "pump"})
        BY <1>5, CountTypes, ConcatProperties
      <4> QED BY <1>5, <1>8, <4>1, ConcatProperties
    <3>3. Tail(micro) \in Seq(Callers \cup {0})
      BY <1>1, MicroTail
    <3>4. /\ Append(waiters, c) \in Seq(Callers) /\ Append(waiters, c) # <<>>
          /\ Len(Append(waiters, c)) = Len(waiters) + 1 /\ Append(waited, c) \in Seq(Callers)
      BY <3>1, AppendProperties
    <3> QED BY <1>8, <3>2, <3>3, <3>4
  <2>4. \A x : Yielder!Count(timers', x)
                  = Yielder!Count(timers, x) + Yielder!Count(mark, x) + Yielder!Count(pumped, x)
    <3>1. timers \o mark \in Seq({"mark", "pump"})
      BY <1>5, CountTypes, ConcatProperties
    <3>2. \A x : Yielder!Count((timers \o mark) \o pumped, x)
                    = Yielder!Count(timers \o mark, x) + Yielder!Count(pumped, x)
      BY <1>5, <3>1, CountConcat
    <3>3. \A x : Yielder!Count(timers \o mark, x) = Yielder!Count(timers, x) + Yielder!Count(mark, x)
      BY <1>5, CountTypes, CountConcat
    <3> QED BY <1>8, <3>2, <3>3
  <2>5. Yielder!TypeOK' /\ YielderTypes'
    BY <1>3, <1>6, <1>8, <2>3 DEF YielderInv, YielderTypes, Yielder!YielderRight, Yielder!TypeOK
  <2>6. Yielder!Pumped'
    <3>1. Yielder!Pumped /\ marking \in BOOLEAN /\ pumping \in BOOLEAN
      BY DEF YielderInv, Yielder!YielderRight, Yielder!TypeOK
    <3>2. Yielder!Count(timers', "mark") = 1
      BY <1>4, <2>4, <3>1, CountTypes DEF Yielder!Pumped
    <3>3. Yielder!Count(timers', "pump") = Yielder!Count(timers, "pump") + IF pumping THEN 0 ELSE 1
      BY <1>4, <2>4, <3>1, CountTypes
    <3>4. Yielder!Count(micro', 0) = Yielder!Count(micro, 0)
      BY <1>1, <2>1, CountTypes, MicroTail, <1>8
    <3>5. Yielder!Count(timers', "pump") + Yielder!Count(micro', 0) = 1
      BY <3>1, <3>3, <3>4, CountTypes DEF Yielder!Pumped
    <3> QED BY <1>3, <1>8, <2>3, <3>2, <3>5 DEF Yielder!Pumped, Yielder!Count
  <2>7. Yielder!FirstComeFirstServed'
    <3>1. Yielder!FirstComeFirstServed /\ units \in [Callers -> 0..MaxUnits]
      BY DEF YielderInv, Yielder!YielderRight, Yielder!TypeOK
    <3>2. \A d \in Callers : units[d] = 0 => units'[d] = 0
      BY <1>1, <1>3, <3>1
    <3>3. \A d \in Callers : Yielder!Count(waiters', d) + Yielder!Count(micro', d)
                               = Yielder!Count(waiters, d) + Yielder!Count(micro, d)
      <4>1. \A d : /\ Yielder!Count(waiters, d) \in Nat /\ Yielder!Count(micro', d) \in Nat
        BY <1>1, <1>8, CountTypes, MicroTail
      <4> QED BY <2>1, <2>2, <4>1
    <3>4. resumed' \o waiters' = waited'
      <4>1. resumed \o waiters = waited /\ waiters \in Seq(Callers) /\ resumed \in Seq(Callers)
        BY <3>1 DEF Yielder!FirstComeFirstServed, YielderInv, YielderTypes, Yielder!YielderRight, Yielder!TypeOK
      <4>2. resumed \o Append(waiters, c) = Append(resumed \o waiters, c)
        BY <4>1
      <4> QED BY <1>3, <1>8, <4>1, <4>2
    <3> QED BY <3>1, <3>2, <3>3, <3>4 DEF Yielder!FirstComeFirstServed
  <2>8. YielderTurn'
    <3>1. Yielder!Count(micro', 0) = Yielder!Count(micro, 0)
      BY <1>1, <2>1, CountTypes, MicroTail, <1>8
    <3>2. Len(waiters) \in Nat
      BY CountTypes
    <3> QED BY <1>3, <2>3, <3>1, <3>2 DEF YielderInv, YielderTurn
  <2> QED BY <2>5, <2>6, <2>7, <2>8 DEF YielderInv, Yielder!YielderRight
<1> QED BY <1>7, <1>8 DEF Yielder!MaybeYield, mark, pumped

LEMMA YielderFinishes ==
    ASSUME YielderInv, NEW c \in Callers, Yielder!Finish(c)
    PROVE  YielderInv'
<1> USE YielderAssumption DEF Yielder!ResumeNext
<1>1. /\ micro # <<>> /\ Head(micro) = c /\ units[c] = 0 /\ c # 0 /\ micro' = Tail(micro)
      /\ UNCHANGED <<lastTurn, waiters, marking, pumping, pump, timers, units, waited, resumed>>
  BY DEF Yielder!Finish
<1>2. PICK work \in Work : clock' = clock + work
  BY DEF Yielder!Finish
<1>3. /\ micro' \in Seq(Callers \cup {0})
      /\ \A x : /\ Yielder!Count(micro', x) \in Nat /\ Yielder!Count(micro, x) \in Nat
                /\ Yielder!Count(micro, x) = Yielder!Count(micro', x) + IF c = x THEN 1 ELSE 0
  BY <1>1, MicroTail
<1>4. Yielder!TypeOK' /\ YielderTypes'
  BY <1>1, <1>2, <1>3 DEF YielderInv, YielderTypes, Yielder!YielderRight, Yielder!TypeOK
<1>5. Yielder!Count(micro', 0) = Yielder!Count(micro, 0)
  BY <1>1, <1>3
<1>6. Yielder!Pumped' /\ YielderTurn'
  BY <1>1, <1>5 DEF YielderInv, YielderTurn, Yielder!YielderRight, Yielder!Pumped, Yielder!Count
<1>7. Yielder!FirstComeFirstServed'
  <2>1. \A d \in Callers : Yielder!Count(waiters, d) \in Nat
    BY CountTypes
  <2>2. Yielder!FirstComeFirstServed /\ \A d \in Callers : Yielder!Count(waiters', d) = Yielder!Count(waiters, d)
    BY <1>1 DEF YielderInv, Yielder!YielderRight
  <2>3. ASSUME NEW d \in Callers
        PROVE  /\ Yielder!Count(waiters', d) + Yielder!Count(micro', d) <= 1
               /\ Yielder!Count(waiters', d) + Yielder!Count(micro', d) = 0 => units'[d] = 0
    <3>1. /\ Yielder!Count(waiters, d) + Yielder!Count(micro, d) <= 1
          /\ Yielder!Count(waiters, d) + Yielder!Count(micro, d) = 0 => units[d] = 0
      BY <2>2 DEF Yielder!FirstComeFirstServed
    <3>2. units'[d] = units[d] /\ (d = c => units[d] = 0)
      BY <1>1
    <3>3. Yielder!Count(micro', d) <= Yielder!Count(micro, d) /\ (d # c => Yielder!Count(micro', d) = Yielder!Count(micro, d))
      BY <1>3
    <3>4. Yielder!Count(micro', d) \in Nat /\ Yielder!Count(micro, d) \in Nat
      BY <1>3
    <3> HIDE DEF Yielder!Count
    <3> QED BY <2>1, <2>2, <3>1, <3>2, <3>3, <3>4
  <2> QED BY <1>1, <2>2, <2>3 DEF Yielder!FirstComeFirstServed
<1> QED BY <1>4, <1>6, <1>7 DEF YielderInv, Yielder!YielderRight

(* A waiter is resumed, and resumeNext is due behind it: rest is what is   *)
(* left of the microtasks, which had this turn at their head or are over.  *)
WaiterResumed(rest) ==
    /\ micro' = rest \o <<Head(waiters), 0>> /\ waiters' = Tail(waiters)
    /\ resumed' = Append(resumed, Head(waiters)) /\ lastTurn' \in 0..clock
    /\ pump' \in [start : Nat, remaining : Int, resumed : BOOLEAN]
    /\ pump'.resumed /\ pump'.remaining \in 0..(Len(waiters) - 1) /\ pump'.start = lastTurn'
    /\ UNCHANGED <<clock, marking, pumping, units, waited>>

NoPumpSet ==
    /\ pumping /\ timers' \in Seq({"mark", "pump"})
    /\ Yielder!Count(timers', "pump") = 0
    /\ Yielder!Count(timers', "mark") = Yielder!Count(timers, "mark")

(* How the counts change when the head of the waiters goes on. *)
LEMMA ResumedCounts ==
    ASSUME NEW rest \in Seq(Callers \cup {0}), NEW w \in Callers
    PROVE  /\ rest \o <<w, 0>> \in Seq(Callers \cup {0})
           /\ \A x : Yielder!Count(rest \o <<w, 0>>, x)
                        = Yielder!Count(rest, x) + (IF w = x THEN 1 ELSE 0) + (IF 0 = x THEN 1 ELSE 0)
<1> DEFINE S == Callers \cup {0}
<1>1. w \in S /\ 0 \in S /\ rest \in Seq(S)
  OBVIOUS
<1> HIDE DEF S
<1>2. <<w, 0>> \in Seq(S)
  BY <1>1, ShortSeqs
<1>3. rest \o <<w, 0>> \in Seq(S)
  BY <1>1, <1>2, ConcatProperties
<1>4. \A x : Yielder!Count(rest \o <<w, 0>>, x)
               = Yielder!Count(rest, x) + (IF w = x THEN 1 ELSE 0) + (IF 0 = x THEN 1 ELSE 0)
  BY <1>1, CountPair
<1> QED BY <1>3, <1>4 DEF S

LEMMA WaiterIsResumed ==
    ASSUME YielderInv, waiters # <<>>, NEW rest \in Seq(Callers \cup {0}),
           \A c \in Callers : Yielder!Count(rest, c) = Yielder!Count(micro, c),
           Yielder!Count(rest, 0) = 0, NoPumpSet, WaiterResumed(rest)
    PROVE  YielderInv'
<1> DEFINE w == Head(waiters)
<1>1. /\ w \in Callers /\ w # 0 /\ Tail(waiters) \in Seq(Callers) /\ Len(Tail(waiters)) = Len(waiters) - 1
      /\ \A x : Yielder!Count(waiters, x) = Yielder!Count(Tail(waiters), x) + IF w = x THEN 1 ELSE 0
  <2>1. waiters \in Seq(Callers)
    BY CountTypes
  <2>2. \A x : Yielder!Count(waiters, x) = Yielder!Count(Tail(waiters), x) + IF w = x THEN 1 ELSE 0
    BY <2>1, CountTail
  <2> QED BY <2>1, <2>2, HeadTailProperties, YielderAssumption
<1>2. /\ micro' = rest \o <<w, 0>> /\ waiters' = Tail(waiters) /\ resumed' = Append(resumed, w)
      /\ w = Head(waiters)
  BY DEF WaiterResumed
<1> HIDE DEF w
<1>3. /\ micro' \in Seq(Callers \cup {0})
      /\ \A x : Yielder!Count(micro', x)
                   = Yielder!Count(rest, x) + (IF w = x THEN 1 ELSE 0) + (IF 0 = x THEN 1 ELSE 0)
  <2>1. /\ rest \o <<w, 0>> \in Seq(Callers \cup {0})
        /\ \A x : Yielder!Count(rest \o <<w, 0>>, x)
                     = Yielder!Count(rest, x) + (IF w = x THEN 1 ELSE 0) + (IF 0 = x THEN 1 ELSE 0)
    BY <1>1, ResumedCounts, Zenon
  <2> DEFINE m == rest \o <<w, 0>>
  <2>2. micro' = m
    BY <1>2
  <2> HIDE DEF m
  <2> QED BY <2>1, <2>2 DEF m
<1>4. Append(resumed, w) \in Seq(Callers)
  <2>1. resumed \in Seq(Callers)
    BY DEF YielderInv, YielderTypes
  <2> QED BY <1>1, <2>1, AppendProperties
<1>5. Yielder!TypeOK' /\ YielderTypes'
  BY <1>1, <1>2, <1>3, <1>4
     DEF WaiterResumed, NoPumpSet, YielderInv, YielderTypes, Yielder!YielderRight, Yielder!TypeOK, Yielder!ResumeNext
<1>6. Yielder!Count(micro', 0) = 1
  <2>1. Yielder!Count(micro', 0)
           = Yielder!Count(rest, 0) + (IF w = 0 THEN 1 ELSE 0) + (IF 0 = 0 THEN 1 ELSE 0)
    BY <1>3
  <2> QED BY <1>1, <2>1
<1>7. Yielder!Pumped'
  <2>1. Yielder!Pumped /\ pumping' = TRUE /\ marking' = marking
    BY DEF YielderInv, Yielder!YielderRight, NoPumpSet, WaiterResumed, Yielder!TypeOK
  <2> QED BY <1>6, <2>1 DEF Yielder!Pumped, NoPumpSet, Yielder!ResumeNext
<1>8. Yielder!FirstComeFirstServed'
  <2>1. \A c \in Callers : Yielder!Count(waiters', c) + Yielder!Count(micro', c)
                             = Yielder!Count(waiters, c) + Yielder!Count(micro, c)
    <3> SUFFICES ASSUME NEW c \in Callers
                 PROVE  Yielder!Count(waiters', c) + Yielder!Count(micro', c)
                           = Yielder!Count(waiters, c) + Yielder!Count(micro, c)
      OBVIOUS
    <3>1. /\ Yielder!Count(rest, c) = Yielder!Count(micro, c) /\ Yielder!Count(micro, c) \in Nat /\ 0 # c
          /\ Yielder!Count(waiters', c) = Yielder!Count(Tail(waiters), c)
          /\ Yielder!Count(Tail(waiters), c) \in Nat
      BY <1>1, <1>2, CountTypes, CountIs, YielderAssumption
    <3>2. Yielder!Count(micro', c)
             = Yielder!Count(rest, c) + (IF w = c THEN 1 ELSE 0) + (IF 0 = c THEN 1 ELSE 0)
      BY <1>3
    <3>3. Yielder!Count(waiters, c) = Yielder!Count(Tail(waiters), c) + IF w = c THEN 1 ELSE 0
      BY <1>1
    <3> QED BY <3>1, <3>2, <3>3
  <2>2. Append(resumed, w) \o Tail(waiters) = resumed \o waiters
    <3>1. resumed \in Seq(Callers) /\ waiters \in Seq(Callers)
      BY CountTypes DEF YielderInv, YielderTypes
    <3> QED BY <1>2, <3>1, HeadMoves
  <2>3. Yielder!FirstComeFirstServed /\ UNCHANGED <<units, waited>>
    BY DEF YielderInv, Yielder!YielderRight, WaiterResumed
  <2>4. resumed' \o waiters' = waited'
    BY <1>2, <2>2, <2>3 DEF Yielder!FirstComeFirstServed
  <2> QED BY <2>1, <2>3, <2>4 DEF Yielder!FirstComeFirstServed
<1>9. YielderTurn'
  BY <1>1, <1>2 DEF YielderTurn, WaiterResumed
<1> QED BY <1>5, <1>7, <1>8, <1>9 DEF YielderInv, Yielder!YielderRight

LEMMA YielderGoesOn ==
    ASSUME YielderInv, Yielder!GoOn
    PROVE  YielderInv'
<1> USE YielderAssumption DEF Yielder!ResumeNext
<1>1. /\ micro # <<>> /\ Head(micro) = 0 /\ Yielder!Resume(pump, Tail(micro))
      /\ UNCHANGED <<clock, lastTurn, marking, units, waited>>
  BY DEF Yielder!GoOn
<1>2. /\ Tail(micro) \in Seq(Callers \cup {0})
      /\ \A x : /\ Yielder!Count(Tail(micro), x) \in Nat
                /\ Yielder!Count(micro, x) = Yielder!Count(Tail(micro), x) + IF 0 = x THEN 1 ELSE 0
  BY <1>1, MicroTail
<1>3. \A c \in Callers : Yielder!Count(Tail(micro), c) = Yielder!Count(micro, c)
  BY <1>2
<1>4. Yielder!Pumped /\ Yielder!Count(timers, "pump") \in Nat /\ Yielder!Count(micro, 0) \in Nat
      /\ pumping \in BOOLEAN
  BY CountTypes DEF YielderInv, Yielder!YielderRight, Yielder!TypeOK
<1>5. /\ Yielder!Count(micro, 0) = 1 /\ Yielder!Count(Tail(micro), 0) = 0
      /\ Yielder!Count(timers, "pump") = 0 /\ pumping
  BY <1>2, <1>4 DEF Yielder!Pumped
<1>6. /\ pump.resumed /\ pump.remaining \in 0..Len(waiters) /\ pump.start = lastTurn
      /\ pump \in [start : Nat, remaining : Int, resumed : BOOLEAN] /\ waiters \in Seq(Callers)
      /\ timers \in Seq({"mark", "pump"}) /\ lastTurn \in 0..clock
  BY <1>5, CountTypes DEF YielderInv, YielderTurn, YielderTypes, Yielder!YielderRight, Yielder!TypeOK
<1>7. CASE pump.remaining = 0 \/ (pump.resumed /\ clock - pump.start >= Budget)
  <2>1. /\ pump' = Yielder!NoTurn /\ micro' = Tail(micro)
        /\ IF waiters # <<>>
           THEN timers' = Append(timers, "pump") /\ UNCHANGED pumping
           ELSE pumping' = FALSE /\ UNCHANGED timers
        /\ UNCHANGED <<waiters, resumed>>
    BY <1>1, <1>7 DEF Yielder!Resume
  <2>2. /\ timers' \in Seq({"mark", "pump"})
        /\ Yielder!Count(timers', "mark") = Yielder!Count(timers, "mark")
        /\ Yielder!Count(timers', "pump") = IF waiters # <<>> THEN 1 ELSE 0
    <3> DEFINE later == Append(timers, "pump")
    <3>1. later \in Seq({"mark", "pump"})
      BY <1>6, AppendProperties
    <3>2. Yielder!Count(later, "pump") = 1
      BY <1>5, <1>6, CountAppend
    <3>3. Yielder!Count(later, "mark") = Yielder!Count(timers, "mark")
      <4>1. "pump" # "mark" /\ "pump" \in {"mark", "pump"}
        OBVIOUS
      <4>2. Yielder!Count(timers, "mark") \in Nat
        BY CountTypes
      <4>3. Yielder!Count(later, "mark") = Yielder!Count(timers, "mark") + IF "pump" = "mark" THEN 1 ELSE 0
        BY <1>6, <4>1, CountAppend
      <4> QED BY <4>1, <4>2, <4>3
    <3>4. IF waiters # <<>> THEN timers' = later ELSE timers' = timers
      BY <2>1
    <3> HIDE DEF later
    <3>5. CASE waiters # <<>>
      BY <3>1, <3>2, <3>3, <3>4, <3>5
    <3>6. CASE waiters = <<>>
      BY <1>5, <1>6, <3>4, <3>6
    <3> QED BY <3>5, <3>6
  <2>3. pumping' = (waiters # <<>>)
    BY <1>4, <1>5, <2>1
  <2>4. Yielder!NoTurn \in [start : Nat, remaining : Int, resumed : BOOLEAN]
    BY DEF Yielder!NoTurn
  <2>5. Yielder!TypeOK' /\ YielderTypes'
    BY <1>1, <1>2, <2>1, <2>2, <2>3, <2>4 DEF YielderInv, YielderTypes, Yielder!YielderRight, Yielder!TypeOK
  <2>6. Yielder!Pumped' /\ YielderTurn'
    <3>1. /\ Yielder!Count(micro', 0) = 0 /\ Yielder!Count(timers', "pump") = (IF waiters # <<>> THEN 1 ELSE 0)
          /\ Yielder!Count(timers', "mark") = IF marking' THEN 1 ELSE 0
      BY <1>1, <1>4, <1>5, <2>1, <2>2 DEF Yielder!Pumped
    <3>2. waiters' = waiters
      BY <2>1
    <3>3. CASE waiters # <<>>
      <4>1. pumping' = TRUE /\ Yielder!Count(timers', "pump") = 1 /\ waiters' # <<>>
        BY <2>3, <3>1, <3>2, <3>3
      <4> QED BY <3>1, <4>1 DEF Yielder!Pumped, YielderTurn, Yielder!ResumeNext
    <3>4. CASE waiters = <<>>
      <4>1. pumping' = FALSE /\ Yielder!Count(timers', "pump") = 0 /\ waiters' = <<>>
        BY <2>3, <3>1, <3>2, <3>4
      <4> QED BY <3>1, <4>1 DEF Yielder!Pumped, YielderTurn, Yielder!ResumeNext
    <3> QED BY <3>3, <3>4
  <2>7. Yielder!FirstComeFirstServed'
    BY <1>1, <1>3, <2>1 DEF YielderInv, Yielder!YielderRight, Yielder!FirstComeFirstServed
  <2> QED BY <2>5, <2>6, <2>7 DEF YielderInv, Yielder!YielderRight
<1>8. CASE ~(pump.remaining = 0 \/ (pump.resumed /\ clock - pump.start >= Budget))
  <2>1. /\ pump' = [pump EXCEPT !.remaining = @ - 1, !.resumed = TRUE]
        /\ micro' = Tail(micro) \o <<Head(waiters), 0>>
        /\ waiters' = Tail(waiters) /\ resumed' = Append(resumed, Head(waiters))
        /\ UNCHANGED <<timers, pumping>>
    BY <1>1, <1>8 DEF Yielder!Resume
  <2>2. waiters # <<>> /\ Len(waiters) \in Nat
    BY <1>6, <1>8
  <2>3. /\ pump' \in [start : Nat, remaining : Int, resumed : BOOLEAN]
        /\ pump'.resumed /\ pump'.remaining \in 0..(Len(waiters) - 1) /\ pump'.start = lastTurn
    <3>1. pump.remaining - 1 \in 0..(Len(waiters) - 1) /\ pump.remaining - 1 \in Int
      BY <1>6, <1>8, <2>2
    <3>2. pump' = [start |-> pump.start, remaining |-> pump.remaining - 1, resumed |-> TRUE]
      BY <1>6, <2>1
    <3> QED BY <1>6, <3>1, <3>2
  <2>4. /\ Yielder!Count(timers', "pump") = 0 /\ Yielder!Count(timers', "mark") = Yielder!Count(timers, "mark")
        /\ timers' \in Seq({"mark", "pump"}) /\ lastTurn' \in 0..clock /\ pump'.start = lastTurn'
    BY <1>1, <1>5, <1>6, <2>1, <2>3
  <2>5. NoPumpSet /\ WaiterResumed(Tail(micro))
    BY <1>1, <1>5, <2>1, <2>3, <2>4 DEF NoPumpSet, WaiterResumed
  <2> QED BY <1>2, <1>3, <1>5, <2>2, <2>5, WaiterIsResumed
<1> QED BY <1>7, <1>8

(* The head of the timers is counted there. *)
LEMMA TimersTail ==
    ASSUME YielderInv, timers # <<>>
    PROVE  /\ Tail(timers) \in Seq({"mark", "pump"})
           /\ \A x : /\ Yielder!Count(Tail(timers), x) \in Nat
                     /\ Yielder!Count(timers, x)
                           = Yielder!Count(Tail(timers), x) + IF Head(timers) = x THEN 1 ELSE 0
<1>1. timers \in Seq({"mark", "pump"})
  BY CountTypes
<1> QED BY <1>1, CountTail, CountIs

LEMMA YielderMarks ==
    ASSUME YielderInv, Yielder!RunMark
    PROVE  YielderInv'
<1> USE YielderAssumption DEF Yielder!ResumeNext
<1>1. /\ micro = <<>> /\ timers # <<>> /\ Head(timers) = "mark" /\ "mark" # "pump"
      /\ lastTurn' = clock /\ marking' = FALSE /\ timers' = Tail(timers)
      /\ UNCHANGED <<clock, waiters, pumping, pump, micro, units, waited, resumed>>
  BY DEF Yielder!RunMark
<1>2. /\ timers' \in Seq({"mark", "pump"}) /\ Yielder!Count(timers', "mark") \in Nat
      /\ Yielder!Count(timers, "mark") = Yielder!Count(timers', "mark") + 1
      /\ Yielder!Count(timers', "pump") = Yielder!Count(timers, "pump")
  BY <1>1, TimersTail
<1>3. Yielder!Pumped /\ marking \in BOOLEAN
  BY DEF YielderInv, Yielder!YielderRight, Yielder!TypeOK
<1>4. Yielder!Count(timers', "mark") = 0
  BY <1>2, <1>3 DEF Yielder!Pumped
<1>5. Yielder!TypeOK' /\ YielderTypes'
  <2>1. Yielder!TypeOK /\ YielderTypes
    BY DEF YielderInv, Yielder!YielderRight
  <2>2. clock \in 0..clock
    BY <2>1 DEF Yielder!TypeOK
  <2> QED BY <1>1, <1>2, <2>1, <2>2 DEF YielderTypes, Yielder!TypeOK
<1>6. Yielder!Pumped'
  BY <1>1, <1>2, <1>3, <1>4 DEF Yielder!Pumped, Yielder!Count
<1>7. Yielder!FirstComeFirstServed'
  BY <1>1 DEF YielderInv, Yielder!YielderRight, Yielder!FirstComeFirstServed, Yielder!Count
<1>8. YielderTurn'
  <2>1. Yielder!Count(micro', 0) = 0
    BY <1>1, CountOne
  <2> QED BY <2>1 DEF YielderTurn
<1> QED BY <1>5, <1>6, <1>7, <1>8 DEF YielderInv, Yielder!YielderRight

LEMMA YielderPumps ==
    ASSUME YielderInv, Yielder!RunPump
    PROVE  YielderInv'
<1> USE YielderAssumption DEF Yielder!ResumeNext
<1>1. /\ micro = <<>> /\ timers # <<>> /\ Head(timers) = "pump" /\ lastTurn' = clock
      /\ pump' = [start |-> clock, remaining |-> Len(waiters) - 1, resumed |-> TRUE]
      /\ micro' = <<Head(waiters), 0>> /\ waiters' = Tail(waiters)
      /\ resumed' = Append(resumed, Head(waiters)) /\ timers' = Tail(timers)
      /\ UNCHANGED <<clock, marking, pumping, units, waited>>
  BY DEF Yielder!RunPump
<1>2. /\ timers' \in Seq({"mark", "pump"}) /\ Yielder!Count(timers', "pump") \in Nat
      /\ Yielder!Count(timers, "pump") = Yielder!Count(timers', "pump") + 1
      /\ Yielder!Count(timers', "mark") = Yielder!Count(timers, "mark")
  <2>1. "pump" # "mark"
    OBVIOUS
  <2>2. /\ Yielder!Count(timers, "mark") = Yielder!Count(timers', "mark") + 0
        /\ Yielder!Count(timers', "mark") \in Nat
    BY <1>1, <2>1, TimersTail
  <2> QED BY <1>1, <2>2, TimersTail
<1>3. Yielder!Pumped /\ pumping \in BOOLEAN /\ clock \in Nat /\ waiters \in Seq(Callers)
  BY CountTypes DEF YielderInv, Yielder!YielderRight, Yielder!TypeOK
<1>4. Yielder!Count(micro, 0) = 0 /\ \A c \in Callers : Yielder!Count(<<>>, c) = Yielder!Count(micro, c)
  BY <1>1, CountOne
<1>5. /\ Yielder!Count(timers, "pump") = 1 /\ Yielder!Count(timers', "pump") = 0
      /\ waiters # <<>> /\ pumping
  BY <1>2, <1>3, <1>4 DEF Yielder!Pumped
<1>6. <<>> \in Seq(Callers \cup {0}) /\ micro' = <<>> \o <<Head(waiters), 0>>
  <2>1. Head(waiters) \in Callers
    BY <1>3, <1>5, HeadTailProperties
  <2>2. <<Head(waiters), 0>> \in Seq(Callers \cup {0})
    BY <2>1, ShortSeqs
  <2> QED BY <1>1, <2>2, ConcatEmptySeq, ShortSeqs
<1>7. /\ pump' \in [start : Nat, remaining : Int, resumed : BOOLEAN]
      /\ pump'.resumed /\ pump'.remaining \in 0..(Len(waiters) - 1) /\ pump'.start = lastTurn'
      /\ lastTurn' \in 0..clock
  BY <1>1, <1>3, <1>5
<1>8. Yielder!Count(<<>>, 0) = 0
  BY CountOne
<1>9. NoPumpSet /\ WaiterResumed(<<>>)
  BY <1>1, <1>2, <1>5, <1>6, <1>7 DEF NoPumpSet, WaiterResumed
<1> QED BY <1>4, <1>5, <1>6, <1>8, <1>9, WaiterIsResumed

LEMMA YielderSteps ==
    ASSUME YielderInv, Yielder!Next
    PROVE  YielderInv'
BY YielderCalls, YielderFinishes, YielderGoesOn, YielderMarks, YielderPumps DEF Yielder!Next

(* Within the budget: a caller that goes on after its call, and the one    *)
(* that pump resumes next.                                                 *)
LEMMA YielderBudget ==
    ASSUME YielderInv, Yielder!Next
    PROVE  Yielder!KeepsToBudget
<1> USE YielderAssumption DEF Yielder!ResumeNext
<1> SUFFICES ASSUME NEW d \in Callers, micro # <<>>, Head(micro) \in {d, 0}, micro' # Tail(micro)
             PROVE  clock' - lastTurn < Budget
  BY DEF Yielder!KeepsToBudget
<1>1. ASSUME NEW c \in Callers, Yielder!MaybeYield(c)
      PROVE  clock' - lastTurn < Budget
  BY <1>1 DEF Yielder!MaybeYield
<1>2. ASSUME NEW c \in Callers, Yielder!Finish(c)
      PROVE  FALSE
  BY <1>2 DEF Yielder!Finish
<1>3. CASE Yielder!GoOn
  <2>1. Head(micro) = 0 /\ Yielder!Resume(pump, Tail(micro)) /\ clock' = clock
    BY <1>3 DEF Yielder!GoOn
  <2>2. /\ Yielder!Count(Tail(micro), 0) \in Nat
        /\ Yielder!Count(micro, 0) = Yielder!Count(Tail(micro), 0) + 1
    BY <2>1, MicroTail
  <2>3. Yielder!Count(timers, "pump") \in Nat /\ Yielder!Count(micro, 0) \in Nat
    BY CountTypes
  <2>4. Yielder!Count(micro, 0) = 1
    BY <2>2, <2>3 DEF YielderInv, Yielder!YielderRight, Yielder!Pumped
  <2>5. pump.resumed /\ pump.start = lastTurn /\ lastTurn \in Nat /\ clock \in Nat
    BY <2>4 DEF YielderInv, YielderTurn, Yielder!YielderRight, Yielder!TypeOK
  <2>6. ~(pump.resumed /\ clock - pump.start >= Budget)
    BY <2>1 DEF Yielder!Resume
  <2> QED BY <2>1, <2>5, <2>6
<1>4. ~Yielder!RunMark /\ ~Yielder!RunPump
  BY DEF Yielder!RunMark, Yielder!RunPump
<1> QED BY <1>1, <1>2, <1>3, <1>4 DEF Yielder!Next

-----------------------------------------------------------------------------
(* stream/channel.ts *)

Rising(s) == \A i \in 1..(Len(s) - 1) : s[i] < s[i + 1]

Held(s) == {s[i] : i \in 1..Len(s)}

(* A sequence that rises goes on rising with what is above all it has. *)
LEMMA LineGrows ==
    ASSUME NEW S \in SUBSET Nat, NEW s \in Seq(S), NEW m \in S, Rising(s),
           \A x \in Held(s) : x < m
    PROVE  Rising(Append(s, m)) /\ Held(Append(s, m)) = Held(s) \cup {m}
<1> DEFINE t == Append(s, m)
<1>1. /\ Len(s) \in Nat /\ Len(t) = Len(s) + 1 /\ t[Len(s) + 1] = m
      /\ \A i \in 1..Len(s) : t[i] = s[i]
  BY AppendProperties, LenProperties
<1> HIDE DEF t
<1>2. \A i \in 1..Len(s) : s[i] < m
  BY DEF Held
<1>3. Rising(t)
  <2> SUFFICES ASSUME NEW i \in 1..(Len(t) - 1) PROVE t[i] < t[i + 1]
    BY DEF Rising
  <2>1. CASE i = Len(s)
    BY <1>1, <1>2, <2>1
  <2>2. CASE i < Len(s)
    <3>1. i \in 1..(Len(s) - 1) /\ i \in 1..Len(s) /\ i + 1 \in 1..Len(s)
      BY <1>1, <2>2
    <3> QED BY <1>1, <3>1 DEF Rising
  <2> QED BY <1>1, <2>1, <2>2
<1>4. Held(t) = Held(s) \cup {m}
  <2>1. \A i \in 1..Len(t) : i \in 1..Len(s) \/ i = Len(s) + 1
    BY <1>1
  <2>2. ASSUME NEW x \in Held(t) PROVE x \in Held(s) \cup {m}
    BY <1>1, <2>1, <2>2 DEF Held
  <2>3. ASSUME NEW x \in Held(s) PROVE x \in Held(t)
    <3>1. PICK i \in 1..Len(s) : x = s[i]
      BY <2>3 DEF Held
    <3>2. i \in 1..Len(t) /\ t[i] = x
      BY <1>1, <3>1
    <3> QED BY <3>2 DEF Held
  <2>4. m \in Held(t)
    <3>1. Len(t) \in 1..Len(t) /\ t[Len(t)] = m
      BY <1>1
    <3> QED BY <3>1 DEF Held
  <2> QED BY <2>2, <2>3, <2>4
<1> QED BY <1>3, <1>4 DEF t

(* What is in front of a sequence that rises rises. *)
LEMMA LineCut ==
    ASSUME NEW S \in SUBSET Nat, NEW s \in Seq(S), NEW t \in Seq(S), Rising(s \o t)
    PROVE  Rising(s) /\ Held(s) \subseteq Held(s \o t)
<1> DEFINE u == s \o t
<1>1. /\ Len(s) \in Nat /\ Len(t) \in Nat /\ Len(u) = Len(s) + Len(t)
      /\ \A i \in 1..Len(s) + Len(t) : u[i] = IF i <= Len(s) THEN s[i] ELSE t[i - Len(s)]
  BY ConcatProperties, LenProperties
<1>2. Rising(u)
  OBVIOUS
<1> HIDE DEF u
<1>3. \A i \in 1..Len(s) : i \in 1..Len(u) /\ u[i] = s[i]
  BY <1>1
<1>4. Rising(s)
  <2> SUFFICES ASSUME NEW i \in 1..(Len(s) - 1) PROVE s[i] < s[i + 1]
    BY DEF Rising
  <2>1. i \in 1..Len(s) /\ i + 1 \in 1..Len(s) /\ i \in 1..(Len(u) - 1)
    BY <1>1
  <2> QED BY <1>2, <1>3, <2>1 DEF Rising
<1>5. Held(s) \subseteq Held(u)
  BY <1>3 DEF Held
<1> QED BY <1>4, <1>5 DEF u

(* What the reader has and what it will find, and what writes have told.   *)
Line == got \o buffer

Sent == {m \in Channel!Message : fate[m] = "written"}

Delivers ==
    /\ Rising(Line) /\ Held(Line) \subseteq Sent
    /\ ~cancelled /\ rstate # "errored" => Sent = Held(Line)

(* Writes go in the order of their numbers: what was written, the write in *)
(* flight, what waits, and what was not asked for yet.                     *)
InOrder ==
    /\ \A m, n \in Channel!Message : fate[m] = "none" /\ n > m => fate[n] = "none"
    /\ \A m, n \in Channel!Message : fate[m] = "written" /\ fate[n] = "pending" => m < n
    /\ \A m \in Channel!Message :
          fate[m] = "pending" => m = current \/ \E i \in 1..Len(waiting) : waiting[i] = m
    /\ \A i \in 1..Len(waiting) : fate[waiting[i]] = "pending" /\ current < waiting[i]
    /\ \A i, j \in 1..Len(waiting) : i < j => waiting[i] < waiting[j]
    /\ current # 0 => fate[current] = "pending"

(* The two streams and the channel know of each other's end. *)
Sides ==
    /\ reading => buffer = <<>> /\ rstate = "readable"
    /\ rstate \in {"closed", "errored"} => buffer = <<>>
    /\ wstate \in {"closed", "errored"} => rstate # "readable" /\ current = 0
    /\ shut => rstate # "readable"
    /\ cancelled => shut
    /\ writerAborted => wstate # "writable"
    /\ write = "refused" => shut \/ wstate = "erroring"

ChannelInv == Channel!TypeOK /\ Channel!Bounded /\ Delivers /\ InOrder /\ Sides

LEMMA MessageIs == Channel!Message = 1..MaxWrites /\ Channel!Message \in SUBSET Nat /\ 0 \notin Channel!Message
BY ChannelAssumption DEF Channel!Message

LEMMA ChannelStarts == Channel!Init => ChannelInv
<1> SUFFICES ASSUME Channel!Init PROVE ChannelInv
  OBVIOUS
<1> USE MessageIs DEF Channel!Init
<1>1. <<>> \in Seq(Channel!Message) /\ <<>> \o <<>> = <<>> /\ Len(<<>>) = 0
  BY ShortSeqs, EmptySeq
<1>2. Channel!TypeOK
  BY <1>1 DEF Channel!TypeOK
<1>3. Channel!Bounded
  BY <1>1, ChannelAssumption DEF Channel!Bounded
<1>4. Delivers
  <2>1. Line = <<>> /\ Held(<<>>) = {} /\ Rising(<<>>)
    BY <1>1 DEF Line, Held, Rising
  <2> QED BY <2>1 DEF Delivers, Sent
<1>5. InOrder /\ Sides
  BY <1>1 DEF InOrder, Sides
<1> QED BY <1>2, <1>3, <1>4, <1>5 DEF ChannelInv

LEMMA ChannelRests == ChannelOver => ChannelInv
<1> SUFFICES ASSUME ChannelOver PROVE ChannelInv
  OBVIOUS
<1> USE MessageIs DEF ChannelOver
<1>0. Channel!Message = 1..MaxWrites
  OBVIOUS
<1>1. <<>> \in Seq(Channel!Message) /\ <<>> \o <<>> = <<>> /\ Len(<<>>) = 0
  BY ShortSeqs, EmptySeq
<1>2. Channel!TypeOK
  BY <1>0, <1>1, ChannelAssumption DEF Channel!TypeOK
<1>3. Channel!Bounded
  BY <1>1 DEF Channel!Bounded
<1>4. Delivers
  <2>1. Line = <<>> /\ Held(<<>>) = {} /\ Rising(<<>>)
    BY <1>1 DEF Line, Held, Rising
  <2> QED BY <1>0, <2>1 DEF Delivers, Sent
<1>5. InOrder /\ Sides
  BY <1>0, <1>1 DEF InOrder, Sides
<1> QED BY <1>2, <1>3, <1>4, <1>5 DEF ChannelInv

LEMMA ChannelStays ==
    ASSUME ChannelInv, UNCHANGED channel
    PROVE  ChannelInv'
BY DEF channel, ChannelInv, Channel!TypeOK, Channel!Bounded, Delivers, Line, Sent, InOrder, Sides

(* TypeOK, one variable at a time. *)
LEMMA ChannelTypes ==
    ASSUME ChannelInv
    PROVE  /\ Channel!Message \in SUBSET Nat /\ 0 \notin Channel!Message
           /\ buffer \in Seq(Channel!Message) /\ waiting \in Seq(Channel!Message)
           /\ got \in Seq(Channel!Message)
           /\ Len(buffer) \in Nat /\ Len(waiting) \in Nat
           /\ reading \in BOOLEAN /\ pulls \in BOOLEAN /\ closing \in BOOLEAN
           /\ writerAborted \in BOOLEAN /\ shut \in BOOLEAN /\ cancelled \in BOOLEAN
           /\ current \in Nat /\ current \in Channel!Message \cup {0} /\ (current = 0 <=> write = "idle")
           /\ fate \in [Channel!Message -> {"none", "pending", "written", "rejected"}]
           /\ <<>> \in Seq(Channel!Message) /\ Len(<<>>) = 0
           /\ Line \in Seq(Channel!Message)
<1>1. Channel!TypeOK
  BY DEF ChannelInv
<1>2. buffer \in Seq(Channel!Message) /\ waiting \in Seq(Channel!Message) /\ got \in Seq(Channel!Message)
  BY <1>1 DEF Channel!TypeOK
<1>3. Len(buffer) \in Nat /\ Len(waiting) \in Nat /\ Line \in Seq(Channel!Message)
  BY <1>2, LenProperties, ConcatProperties DEF Line
<1>4. <<>> \in Seq(Channel!Message) /\ Len(<<>>) = 0
  BY EmptySeq
<1> QED BY <1>1, <1>2, <1>3, <1>4, MessageIs DEF Channel!TypeOK

LEMMA QueueStays ==
    ASSUME ChannelInv, UNCHANGED <<fate, waiting, current>>
    PROVE  InOrder'
BY DEF ChannelInv, InOrder

LEMMA LineStays ==
    ASSUME ChannelInv, Line' = Line, cancelled => cancelled', rstate = "errored" => rstate' = "errored",
           \A m \in Channel!Message : fate'[m] = "written" <=> fate[m] = "written"
    PROVE  Delivers'
<1>1. Sent' = Sent
  BY DEF Sent
<1> QED BY <1>1 DEF ChannelInv, Delivers

(* What is queued is dropped, by a cancel or an abort. *)
LEMMA LineDropped ==
    ASSUME ChannelInv, got' = got, buffer' = <<>>, cancelled' \/ rstate' = "errored",
           \A m \in Channel!Message : fate'[m] = "written" <=> fate[m] = "written"
    PROVE  Delivers'
<1>1. Sent' = Sent
  BY DEF Sent
<1>2. Line' = got
  BY ChannelTypes, ConcatEmptySeq DEF Line
<1>3. Rising(got) /\ Held(got) \subseteq Held(Line)
  BY ChannelTypes, LineCut DEF Line, ChannelInv, Delivers
<1> QED BY <1>1, <1>2, <1>3 DEF ChannelInv, Delivers

LEMMA LineAppended ==
    ASSUME ChannelInv, NEW m \in Channel!Message, fate[m] = "pending",
           fate'[m] = "written",
           \A n \in Channel!Message \ {m} : fate'[n] = "written" <=> fate[n] = "written",
           cancelled => cancelled', rstate = "errored" => rstate' = "errored",
           Line' = Append(Line, m)
    PROVE  Delivers'
<1>1. Sent' = Sent \cup {m}
  BY DEF Sent
<1>2. \A x \in Held(Line) : x < m
  BY DEF ChannelInv, Delivers, InOrder, Sent
<1>3. Rising(Append(Line, m)) /\ Held(Append(Line, m)) = Held(Line) \cup {m}
  <2>1. Rising(Line) /\ Line \in Seq(Channel!Message) /\ Channel!Message \in SUBSET Nat
    BY ChannelTypes DEF ChannelInv, Delivers
  <2> QED BY <1>2, <2>1, LineGrows
<1> QED BY <1>1, <1>3 DEF ChannelInv, Delivers

(* The sink's abort, where the reader's messages are the same. *)
LEMMA SinkAborts ==
    ASSUME ChannelInv, Channel!SinkAbort, got' = got, cancelled' = cancelled,
           \A m \in Channel!Message : fate'[m] = "written" <=> fate[m] = "written"
    PROVE  /\ Delivers' /\ shut' = TRUE /\ rstate' # "readable" /\ reading' = FALSE
           /\ pulls' \in BOOLEAN /\ rstate' \in {"readable", "closing", "closed", "errored"}
           /\ buffer' = buffer \/ buffer' = <<>>
           /\ rstate' \in {"closed", "errored"} => buffer' = <<>>
<1>1. /\ Channel!TypeOK /\ Sides
  BY DEF ChannelInv
<1>2. CASE shut
  <2>1. UNCHANGED <<shut, rstate, buffer, reading, pulls>>
    BY <1>2 DEF Channel!SinkAbort, Channel!readable
  <2>2. Delivers'
    BY <2>1, LineStays DEF Line
  <2>3. reading = FALSE /\ shut = TRUE /\ rstate # "readable"
    BY <1>1, <1>2, ChannelTypes DEF Sides
  <2> QED BY <1>1, <2>1, <2>2, <2>3 DEF Channel!TypeOK, Sides
<1>3. CASE ~shut
  <2>1. /\ shut' = TRUE
        /\ rstate' = IF rstate \in {"readable", "closing"} THEN "errored" ELSE rstate
        /\ buffer' = <<>> /\ reading' = FALSE /\ pulls' = FALSE
    BY <1>3 DEF Channel!SinkAbort, Channel!StopReadable
  <2>2. rstate \in {"readable", "closing", "closed", "errored"}
    BY <1>1 DEF Channel!TypeOK
  <2>3. Delivers'
    <3>1. CASE rstate \in {"readable", "closing"}
      BY <2>1, <3>1, LineDropped
    <3>2. CASE rstate \in {"closed", "errored"}
      <4>1. Line' = Line
        BY <1>1, <2>1, <3>2 DEF Line, Sides
      <4> QED BY <2>1, <3>2, <4>1, LineStays
    <3> QED BY <2>2, <3>1, <3>2
  <2> QED BY <2>1, <2>2, <2>3
<1> QED BY <1>2, <1>3

(* The writes that wait are rejected, with the one in flight if there is.  *)
LEMMA QueueRejected ==
    ASSUME ChannelInv, NEW f \in [Channel!Message -> {"none", "pending", "written", "rejected"}],
           \A n \in Channel!Message : f[n] = "none" => fate[n] = "none",
           \A n \in Channel!Message : fate[n] = "none" => f[n] = "none",
           fate' = Channel!RejectQueued(f), waiting' = <<>>, current' = 0
    PROVE  /\ InOrder'
           /\ fate' \in [Channel!Message -> {"none", "pending", "written", "rejected"}]
           /\ \A n \in Channel!Message : fate'[n] = "written" <=> f[n] = "written"
<1>1. \A n \in Channel!Message : fate'[n] = IF f[n] = "pending" THEN "rejected" ELSE f[n]
  BY DEF Channel!RejectQueued
<1>2. fate' \in [Channel!Message -> {"none", "pending", "written", "rejected"}]
  BY DEF Channel!RejectQueued
<1>3. \A n \in Channel!Message : fate'[n] # "pending"
  BY <1>1
<1>4. \A n \in Channel!Message : fate'[n] = "none" <=> fate[n] = "none"
  BY <1>1
<1>5. 1..Len(<<>>) = {}
  BY ChannelTypes
<1>6. InOrder'
  BY <1>3, <1>4, <1>5 DEF ChannelInv, InOrder
<1>7. \A n \in Channel!Message : fate'[n] = "written" <=> f[n] = "written"
  BY <1>1
<1> QED BY <1>2, <1>6, <1>7

LEMMA WriteRefused ==
    ASSUME ChannelInv, NEW m \in Channel!Message, fate[m] = "pending",
           Channel!Refuse(m), wstate \in {"writable", "erroring"},
           wstate = "writable" => rstate # "readable", UNCHANGED highWater
    PROVE  ChannelInv'
<1> DEFINE f == [fate EXCEPT ![m] = "rejected"]
<1>1. /\ current' = 0 /\ write' = "idle" /\ fate' = Channel!RejectQueued(f)
      /\ wstate' = "errored" /\ waiting' = <<>> /\ closing' = FALSE
      /\ UNCHANGED <<writerAborted, cancelled, got>>
  BY DEF Channel!Refuse, Channel!Settled, Channel!ErrorWritable
<1>2. IF wstate = "erroring" THEN Channel!SinkAbort ELSE UNCHANGED <<shut, rstate, buffer, reading, pulls>>
  BY DEF Channel!Refuse, Channel!readable
<1>3. /\ f \in [Channel!Message -> {"none", "pending", "written", "rejected"}]
      /\ \A n \in Channel!Message : f[n] = IF n = m THEN "rejected" ELSE fate[n]
  BY ChannelTypes
<1> HIDE DEF f
<1>4. /\ InOrder' /\ fate' \in [Channel!Message -> {"none", "pending", "written", "rejected"}]
      /\ \A n \in Channel!Message : fate'[n] = "written" <=> fate[n] = "written"
  <2>1. \A n \in Channel!Message : f[n] = "none" => fate[n] = "none"
    BY <1>3
  <2>2. \A n \in Channel!Message : fate[n] = "none" => f[n] = "none"
    BY <1>3
  <2>3. \A n \in Channel!Message : f[n] = "written" <=> fate[n] = "written"
    BY <1>3
  <2> QED BY <1>1, <1>3, <2>1, <2>2, <2>3, QueueRejected
<1>5. /\ Delivers' /\ rstate' # "readable" /\ reading' = FALSE
      /\ pulls' \in BOOLEAN /\ rstate' \in {"readable", "closing", "closed", "errored"}
      /\ buffer' = buffer \/ buffer' = <<>>
      /\ rstate' \in {"closed", "errored"} => buffer' = <<>>
      /\ shut' \in BOOLEAN /\ (shut => shut')
  <2>1. CASE wstate = "erroring"
    BY <1>1, <1>2, <1>4, <2>1, SinkAborts
  <2>2. CASE wstate = "writable"
    <3>1. UNCHANGED <<shut, rstate, buffer, reading, pulls>> /\ rstate # "readable"
      BY <1>2, <2>2
    <3>2. Delivers'
      BY <1>1, <1>4, <3>1, LineStays DEF Line
    <3> QED BY <3>1, <3>2, ChannelTypes DEF ChannelInv, Sides, Channel!TypeOK
  <2> QED BY <2>1, <2>2
<1>6. Channel!TypeOK'
  <2>1. highWater' \in HighWaters
    BY DEF ChannelInv, Channel!TypeOK
  <2>2. buffer' \in Seq(Channel!Message)
    BY <1>5, ChannelTypes
  <2> QED BY <1>1, <1>4, <1>5, <2>1, <2>2, ChannelTypes DEF Channel!TypeOK
<1>7. Channel!Bounded'
  BY <1>5, ChannelTypes, ChannelAssumption DEF ChannelInv, Channel!Bounded, Channel!TypeOK
<1>8. Sides'
  BY <1>1, <1>5 DEF ChannelInv, Sides
<1> QED BY <1>4, <1>5, <1>6, <1>7, <1>8 DEF ChannelInv

(* A write that is offered to the sink, and those that wait behind it.     *)
Offered(m, rest) ==
    /\ m \in Channel!Message /\ fate[m] = "pending" /\ rest \in Seq(Channel!Message)
    /\ \A n \in Channel!Message : fate[n] = "pending" => n = m \/ \E i \in 1..Len(rest) : rest[i] = n
    /\ \A i \in 1..Len(rest) : fate[rest[i]] = "pending" /\ m < rest[i]
    /\ \A i, j \in 1..Len(rest) : i < j => rest[i] < rest[j]

LEMMA WriteParked ==
    ASSUME ChannelInv, NEW m, NEW rest, Offered(m, rest), Channel!Park(m, rest),
           wstate \in {"writable", "erroring"}, UNCHANGED highWater
    PROVE  ChannelInv'
<1>1. /\ current' = m /\ write' = "parked" /\ waiting' = rest
      /\ UNCHANGED <<rstate, buffer, reading, pulls, wstate, closing, writerAborted, shut, cancelled, fate, got>>
  BY DEF Channel!Park, Channel!readable
<1>2. m \in Channel!Message /\ m \in Nat /\ m # 0 /\ rest \in Seq(Channel!Message)
  BY ChannelTypes DEF Offered
<1>3. Channel!TypeOK'
  BY <1>1, <1>2 DEF ChannelInv, Channel!TypeOK
<1>4. Channel!Bounded'
  BY <1>1 DEF ChannelInv, Channel!Bounded
<1>5. Delivers'
  BY <1>1, LineStays DEF Line
<1>6. InOrder'
  BY <1>1, <1>2 DEF ChannelInv, InOrder, Offered
<1>7. Sides'
  BY <1>1 DEF ChannelInv, Sides
<1> QED BY <1>3, <1>4, <1>5, <1>6, <1>7 DEF ChannelInv

(* A write is taken: the reader has it, or finds it; an abort that waited  *)
(* for it drops what the reader does not have.                             *)
LEMMA WriteAccepted ==
    ASSUME ChannelInv, NEW m, NEW rest, Offered(m, rest), Channel!Accept(m, rest),
           rstate = "readable", highWater = Unbounded \/ Channel!HasRoom,
           wstate \in {"writable", "erroring"}, UNCHANGED highWater
    PROVE  ChannelInv'
<1> DEFINE f == [fate EXCEPT ![m] = "written"]
<1>1. m \in Channel!Message /\ m \in Nat /\ fate[m] = "pending" /\ rest \in Seq(Channel!Message)
  BY ChannelTypes DEF Offered
<1>2. /\ f \in [Channel!Message -> {"none", "pending", "written", "rejected"}]
      /\ \A n \in Channel!Message : f[n] = IF n = m THEN "written" ELSE fate[n]
  BY <1>1, ChannelTypes
<1>3. ~shut /\ current' = 0 /\ write' = "idle" /\ UNCHANGED <<writerAborted, cancelled>>
  BY DEF Channel!Accept, ChannelInv, Sides
<1>4. CASE wstate = "erroring"
  <2>1. /\ fate' = Channel!RejectQueued(f) /\ wstate' = "errored" /\ waiting' = <<>> /\ closing' = FALSE
        /\ got' = IF reading THEN Append(got, m) ELSE got
        /\ Channel!SinkAbort
    BY <1>4 DEF Channel!Accept, Channel!Settled, Channel!ErrorWritable
  <2>2. shut' = TRUE /\ rstate' = "errored" /\ buffer' = <<>> /\ reading' = FALSE /\ pulls' = FALSE
    BY <1>3, <2>1 DEF Channel!SinkAbort, Channel!StopReadable
  <2> HIDE DEF f
  <2>3. /\ InOrder' /\ fate' \in [Channel!Message -> {"none", "pending", "written", "rejected"}]
        /\ \A n \in Channel!Message : fate'[n] = "written" <=> f[n] = "written"
    <3>1. \A n \in Channel!Message : f[n] = "none" => fate[n] = "none"
      BY <1>2
    <3>2. \A n \in Channel!Message : fate[n] = "none" => f[n] = "none"
      BY <1>1, <1>2
    <3> QED BY <1>2, <1>3, <2>1, <3>1, <3>2, QueueRejected
  <2>4. fate'[m] = "written" /\ \A n \in Channel!Message \ {m} : fate'[n] = "written" <=> fate[n] = "written"
    BY <1>1, <1>2, <2>3
  <2>5. Delivers'
    <3>1. CASE reading
      <4>1. buffer = <<>> /\ Line = got /\ got \in Seq(Channel!Message)
        BY <3>1, ChannelTypes, ConcatEmptySeq DEF ChannelInv, Sides, Line
      <4>2. got' \in Seq(Channel!Message) /\ got' = Append(got, m)
        BY <1>1, <2>1, <3>1, <4>1, AppendProperties
      <4>3. Line' = Append(Line, m)
        BY <2>2, <4>1, <4>2, ConcatEmptySeq DEF Line
      <4> QED BY <1>1, <1>3, <2>2, <2>4, <4>3, LineAppended
    <3>2. CASE ~reading
      <4>1. Line' = got
        BY <2>1, <2>2, <3>2, ChannelTypes, ConcatEmptySeq DEF Line
      <4>2. Rising(got) /\ Held(got) \subseteq Held(Line)
        BY ChannelTypes, LineCut DEF Line, ChannelInv, Delivers
      <4>3. Sent \subseteq Sent'
        BY <2>4 DEF Sent
      <4> QED BY <2>2, <4>1, <4>2, <4>3 DEF ChannelInv, Delivers
    <3> QED BY <3>1, <3>2
  <2>6. Channel!TypeOK'
    <3>1. highWater' \in HighWaters
      BY DEF ChannelInv, Channel!TypeOK
    <3>2. got' \in Seq(Channel!Message)
      BY <1>1, <2>1, ChannelTypes, AppendProperties
    <3> QED BY <1>3, <2>1, <2>2, <2>3, <3>1, <3>2, ChannelTypes DEF Channel!TypeOK
  <2>7. Channel!Bounded'
    BY <2>2, ChannelTypes, ChannelAssumption DEF ChannelInv, Channel!Bounded, Channel!TypeOK
  <2>8. Sides'
    BY <1>3, <2>1, <2>2 DEF ChannelInv, Sides
  <2> QED BY <2>3, <2>5, <2>6, <2>7, <2>8 DEF ChannelInv
<1>5. CASE wstate = "writable"
  <2>1. /\ fate' = f /\ waiting' = rest
        /\ IF reading THEN got' = Append(got, m) /\ buffer' = buffer
                      ELSE buffer' = Append(buffer, m) /\ got' = got
        /\ reading' = FALSE /\ pulls' = TRUE
        /\ UNCHANGED <<rstate, wstate, closing, shut>>
    BY <1>5 DEF Channel!Accept, Channel!Settled, Channel!Enqueued
  <2> HIDE DEF f
  <2>2. got' \in Seq(Channel!Message) /\ buffer' \in Seq(Channel!Message)
    <3>1. Append(got, m) \in Seq(Channel!Message) /\ Append(buffer, m) \in Seq(Channel!Message)
      BY <1>1, ChannelTypes, AppendProperties
    <3> QED BY <2>1, <3>1, ChannelTypes
  <2>3. Line' = Append(Line, m)
    <3>1. CASE reading
      <4>1. buffer = <<>> /\ Line = got
        BY <3>1, ChannelTypes, ConcatEmptySeq DEF ChannelInv, Sides, Line
      <4> QED BY <2>1, <2>2, <3>1, <4>1, ConcatEmptySeq DEF Line
    <3>2. CASE ~reading
      <4>1. <<m>> \in Seq(Channel!Message) /\ buffer' = buffer \o <<m>>
        BY <1>1, <2>1, <3>2, ChannelTypes, ShortSeqs, AppendIsConcat
      <4>2. got \o (buffer \o <<m>>) = (got \o buffer) \o <<m>>
        <5>1. got \in Seq(Channel!Message) /\ buffer \in Seq(Channel!Message)
          BY ChannelTypes
        <5> QED BY <4>1, <5>1, ConcatAssociative
      <4>3. Append(Line, m) = Line \o <<m>>
        BY <1>1, ChannelTypes, AppendIsConcat
      <4> QED BY <2>1, <3>2, <4>1, <4>2, <4>3 DEF Line
    <3> QED BY <3>1, <3>2
  <2>4. Delivers'
    <3>1. fate'[m] = "written" /\ \A n \in Channel!Message \ {m} : fate'[n] = "written" <=> fate[n] = "written"
      BY <1>1, <1>2, <2>1
    <3> QED BY <1>1, <1>3, <2>1, <2>3, <3>1, LineAppended
  <2>5. Channel!TypeOK'
    <3>1. highWater' \in HighWaters
      BY DEF ChannelInv, Channel!TypeOK
    <3>2. rstate' \in {"readable", "closing", "closed", "errored"}
          /\ wstate' \in {"writable", "erroring", "errored", "closed"}
      BY <2>1 DEF ChannelInv, Channel!TypeOK
    <3> QED BY <1>1, <1>2, <1>3, <2>1, <2>2, <3>1, <3>2, ChannelTypes DEF Channel!TypeOK
  <2>6. Channel!Bounded'
    <3>1. CASE reading
      BY <2>1, <3>1 DEF ChannelInv, Channel!Bounded
    <3>2. CASE ~reading
      <4>1. Len(buffer') = Len(buffer) + 1
        BY <1>1, <2>1, <3>2, ChannelTypes, AppendProperties
      <4>2. highWater # Unbounded => Len(buffer) < highWater /\ highWater \in Nat
        BY ChannelAssumption DEF Channel!HasRoom, ChannelInv, Channel!TypeOK
      <4> QED BY <4>1, <4>2, ChannelTypes DEF Channel!Bounded
    <3> QED BY <3>1, <3>2
  <2>7. InOrder'
    <3>1. \A n \in Channel!Message : fate[n] = "pending" /\ n # m => m < n
      BY DEF Offered
    <3>2. \A n \in Channel!Message : fate'[n] = IF n = m THEN "written" ELSE fate[n]
      BY <1>2, <2>1
    <3>3. \A i \in 1..Len(rest) : rest[i] \in Channel!Message
      BY <1>1, LenProperties
    <3>4. \A i \in 1..Len(rest) : fate'[rest[i]] = "pending" /\ 0 < rest[i]
      <4> SUFFICES ASSUME NEW i \in 1..Len(rest) PROVE fate'[rest[i]] = "pending" /\ 0 < rest[i]
        OBVIOUS
      <4> DEFINE n == rest[i]
      <4>1. fate[n] = "pending" /\ m < n /\ n \in Channel!Message
        BY <3>3 DEF Offered
      <4> HIDE DEF n
      <4>2. n \in Nat /\ n # m
        BY <1>1, <4>1, ChannelTypes
      <4>3. fate'[n] = "pending" /\ 0 < n
        BY <1>1, <3>2, <4>1, <4>2
      <4> QED BY <4>3 DEF n
    <3>5. \A n \in Channel!Message : fate'[n] = "pending" => \E i \in 1..Len(rest) : rest[i] = n
      BY <3>2 DEF Offered
    <3>6. \A a, b \in Channel!Message : fate'[a] = "none" /\ b > a => fate'[b] = "none"
      BY <1>1, <3>2 DEF ChannelInv, InOrder
    <3>7. \A a, b \in Channel!Message : fate'[a] = "written" /\ fate'[b] = "pending" => a < b
      BY <3>1, <3>2 DEF ChannelInv, InOrder
    <3> QED BY <1>3, <2>1, <3>4, <3>5, <3>6, <3>7 DEF InOrder, Offered
  <2>8. Sides'
    BY <1>3, <1>5, <2>1 DEF ChannelInv, Sides
  <2> QED BY <2>4, <2>5, <2>6, <2>7, <2>8 DEF ChannelInv
<1> QED BY <1>4, <1>5

LEMMA WriteAttempted ==
    ASSUME ChannelInv, NEW m, NEW rest, Offered(m, rest), Channel!Attempt(m, rest),
           wstate \in {"writable", "erroring"}, UNCHANGED highWater
    PROVE  ChannelInv'
<1>1. /\ cancelled => rstate # "readable"
      /\ writerAborted => wstate # "writable"
  BY DEF ChannelInv, Sides
<1>2. m \in Channel!Message /\ fate[m] = "pending"
  BY DEF Offered
<1>3. \/ Channel!Refuse(m) /\ (wstate = "writable" => rstate # "readable")
      \/ Channel!Park(m, rest)
      \/ /\ Channel!Accept(m, rest) /\ rstate = "readable"
         /\ highWater = Unbounded \/ Channel!HasRoom
  BY <1>1 DEF Channel!Attempt
<1> QED BY <1>2, <1>3, WriteRefused, WriteParked, WriteAccepted

LEMMA SinkWrites ==
    ASSUME ChannelInv, Channel!SinkWrite
    PROVE  ChannelInv'
<1> DEFINE m == Head(waiting)
           rest == Tail(waiting)
<1>1. /\ wstate = "writable" /\ current = 0 /\ waiting # <<>> /\ Channel!Attempt(m, rest)
      /\ UNCHANGED highWater
  BY DEF Channel!SinkWrite
<1>2. /\ m \in Channel!Message /\ rest \in Seq(Channel!Message) /\ Len(rest) = Len(waiting) - 1
      /\ \A i \in 1..Len(rest) : rest[i] = waiting[i + 1]
      /\ Len(waiting) \in Nat \ {0} /\ m = waiting[1]
  BY <1>1, ChannelTypes, HeadTailProperties, EmptySeq
<1> HIDE DEF m, rest
<1>3. \A i \in 1..Len(rest) : i + 1 \in 1..Len(waiting)
  BY <1>2
<1>4. \A n \in Channel!Message : fate[n] = "pending" => n = m \/ \E i \in 1..Len(rest) : rest[i] = n
  <2> SUFFICES ASSUME NEW n \in Channel!Message, fate[n] = "pending", n # m
               PROVE  \E i \in 1..Len(rest) : rest[i] = n
    OBVIOUS
  <2>1. PICK i \in 1..Len(waiting) : waiting[i] = n
    BY <1>1, MessageIs DEF ChannelInv, InOrder
  <2>2. i # 1 /\ i - 1 \in 1..Len(rest) /\ rest[i - 1] = n
    BY <1>2, <2>1
  <2> QED BY <2>2
<1>5. /\ fate[m] = "pending"
      /\ \A i \in 1..Len(rest) : fate[rest[i]] = "pending" /\ m < rest[i]
      /\ \A i, j \in 1..Len(rest) : i < j => rest[i] < rest[j]
  <2>1. 1 \in 1..Len(waiting) /\ \A i \in 1..Len(rest) : 1 < i + 1
    BY <1>2
  <2>2. /\ \A i \in 1..Len(waiting) : fate[waiting[i]] = "pending"
        /\ \A i, j \in 1..Len(waiting) : i < j => waiting[i] < waiting[j]
    BY DEF ChannelInv, InOrder
  <2>3. fate[m] = "pending" /\ \A i \in 1..Len(rest) : fate[rest[i]] = "pending"
    BY <1>2, <1>3, <2>1, <2>2
  <2>4. \A i \in 1..Len(rest) : m < rest[i]
    BY <1>2, <1>3, <2>1, <2>2
  <2>5. \A i, j \in 1..Len(rest) : i < j => rest[i] < rest[j]
    BY <1>2, <1>3, <2>2
  <2> QED BY <2>3, <2>4, <2>5
<1>6. Offered(m, rest)
  BY <1>2, <1>4, <1>5 DEF Offered
<1> QED BY <1>1, <1>6, WriteAttempted

LEMMA WriteContinues ==
    ASSUME ChannelInv, Channel!Continue
    PROVE  ChannelInv'
<1>1. UNCHANGED highWater /\ current # 0
  BY ChannelTypes DEF Channel!Continue
<1>2. current \in Channel!Message /\ fate[current] = "pending" /\ waiting \in Seq(Channel!Message)
  BY <1>1, ChannelTypes DEF ChannelInv, InOrder
<1>3. wstate \in {"writable", "erroring"}
  BY <1>1 DEF ChannelInv, Sides, Channel!TypeOK
<1>4. CASE write = "woken" /\ Channel!Attempt(current, waiting)
  <2>1. Offered(current, waiting)
    BY <1>2 DEF Offered, ChannelInv, InOrder
  <2> QED BY <1>1, <1>3, <1>4, <2>1, WriteAttempted
<1>5. CASE write = "refused" /\ Channel!Refuse(current)
  <2>1. wstate = "writable" => rstate # "readable"
    BY <1>5 DEF ChannelInv, Sides
  <2> QED BY <1>1, <1>2, <1>3, <1>5, <2>1, WriteRefused
<1> QED BY <1>4, <1>5 DEF Channel!Continue

LEMMA ReaderReads ==
    ASSUME ChannelInv, Channel!Read
    PROVE  ChannelInv'
<1>1. /\ ~reading /\ pulls' = TRUE
      /\ UNCHANGED <<highWater, wstate, waiting, closing, writerAborted, shut, cancelled, current, write, fate>>
  BY DEF Channel!Read, Channel!writable
<1>2. InOrder'
  BY <1>1, QueueStays
<1>3. CASE /\ buffer # <<>> /\ got' = Append(got, Head(buffer)) /\ buffer' = Tail(buffer)
           /\ rstate' = (IF rstate = "closing" /\ buffer' = <<>> THEN "closed" ELSE rstate)
           /\ reading' = reading
  <2>1. /\ Head(buffer) \in Channel!Message /\ Tail(buffer) \in Seq(Channel!Message)
        /\ Len(Tail(buffer)) = Len(buffer) - 1
    BY <1>3, ChannelTypes, HeadTailProperties
  <2>2. got' \in Seq(Channel!Message)
    BY <1>3, <2>1, ChannelTypes, AppendProperties
  <2>3. Line' = Line
    BY <1>3, ChannelTypes, HeadMoves DEF Line
  <2>4. rstate # "closed" /\ rstate # "errored"
    BY <1>3 DEF ChannelInv, Sides
  <2>5. Delivers'
    BY <1>1, <2>3, <2>4, LineStays
  <2>6. Channel!TypeOK'
    BY <1>1, <1>3, <2>1, <2>2 DEF ChannelInv, Channel!TypeOK
  <2>7. Channel!Bounded'
    <3>1. highWater # Unbounded => highWater \in Nat
      BY ChannelAssumption DEF ChannelInv, Channel!TypeOK
    <3> QED BY <1>1, <1>3, <2>1, <3>1, ChannelTypes DEF ChannelInv, Channel!Bounded
  <2>8. Sides'
    BY <1>1, <1>3, <2>4 DEF ChannelInv, Sides
  <2> QED BY <1>2, <2>5, <2>6, <2>7, <2>8 DEF ChannelInv
<1>4. CASE buffer = <<>> /\ rstate = "readable" /\ reading' = TRUE /\ UNCHANGED <<buffer, rstate, got>>
  <2>1. Delivers'
    BY <1>1, <1>4, LineStays DEF Line
  <2>2. Channel!TypeOK' /\ Channel!Bounded'
    BY <1>1, <1>4 DEF ChannelInv, Channel!TypeOK, Channel!Bounded
  <2>3. Sides'
    BY <1>1, <1>4 DEF ChannelInv, Sides
  <2> QED BY <1>2, <2>1, <2>2, <2>3 DEF ChannelInv
<1> QED BY <1>3, <1>4 DEF Channel!Read

LEMMA ReadablePulls ==
    ASSUME ChannelInv, Channel!Pull
    PROVE  ChannelInv'
<1>1. /\ pulls' = FALSE /\ write' \in {write, IF write = "parked" THEN "woken" ELSE write}
      /\ UNCHANGED <<highWater, rstate, buffer, reading, wstate, waiting, closing, writerAborted, shut,
                     cancelled, current, fate, got>>
  BY DEF Channel!Pull, Channel!ReleaseCapacity, Channel!writable
<1>2. InOrder' /\ Delivers'
  BY <1>1, QueueStays, LineStays DEF Line
<1>3. Channel!TypeOK'
  BY <1>1 DEF ChannelInv, Channel!TypeOK
<1>4. Channel!Bounded' /\ Sides'
  BY <1>1 DEF ChannelInv, Channel!Bounded, Sides
<1> QED BY <1>2, <1>3, <1>4 DEF ChannelInv

LEMMA ReaderCancels ==
    ASSUME ChannelInv, Channel!Cancel
    PROVE  ChannelInv'
<1>1. /\ rstate' = "closed" /\ buffer' = <<>> /\ reading' = FALSE /\ pulls' = FALSE
      /\ shut' = TRUE /\ cancelled' = TRUE
      /\ write' = (IF write = "parked" THEN "refused" ELSE write)
      /\ UNCHANGED <<highWater, wstate, waiting, closing, writerAborted, current, fate, got>>
  BY DEF Channel!Cancel, Channel!StopReadable, Channel!RejectCapacity, Channel!writable
<1>2. InOrder' /\ Delivers'
  BY <1>1, QueueStays, LineDropped
<1>3. Channel!TypeOK'
  BY <1>1, ChannelTypes DEF ChannelInv, Channel!TypeOK
<1>4. Channel!Bounded'
  BY <1>1, ChannelTypes, ChannelAssumption DEF ChannelInv, Channel!TypeOK, Channel!Bounded
<1>5. Sides'
  BY <1>1 DEF ChannelInv, Sides
<1> QED BY <1>2, <1>3, <1>4, <1>5 DEF ChannelInv

LEMMA MessageWritten ==
    ASSUME ChannelInv, NEW m \in Channel!Message, Channel!Write(m)
    PROVE  ChannelInv'
<1>1. /\ fate[m] = "none" /\ \A o \in 1..(m - 1) : fate[o] # "none"
      /\ UNCHANGED <<highWater, rstate, buffer, reading, pulls, wstate, closing, writerAborted, shut,
                     cancelled, current, write, got>>
      /\ \/ fate' = [fate EXCEPT ![m] = "pending"] /\ waiting' = Append(waiting, m)
         \/ fate' = [fate EXCEPT ![m] = "rejected"] /\ waiting' = waiting
  BY DEF Channel!Write, Channel!Settled, Channel!readable
<1>2. m \in Nat /\ m # current
  BY <1>1, ChannelTypes DEF ChannelInv, InOrder
<1>3. \A n \in Channel!Message : n # m => fate'[n] = fate[n]
  BY <1>1, ChannelTypes
<1>4. fate'[m] \in {"pending", "rejected"}
  BY <1>1, ChannelTypes
<1>5. \A n \in Channel!Message : fate[n] # "none" => n < m
  BY <1>1, <1>2, ChannelTypes DEF ChannelInv, InOrder
<1>6. Delivers'
  <2>1. \A n \in Channel!Message : fate'[n] = "written" <=> fate[n] = "written"
    BY <1>1, <1>3, <1>4
  <2> QED BY <1>1, <2>1, LineStays DEF Line
<1>7. /\ \A a, b \in Channel!Message : fate'[a] = "none" /\ b > a => fate'[b] = "none"
      /\ \A a, b \in Channel!Message : fate'[a] = "written" /\ fate'[b] = "pending" => a < b
  <2>1. \A a \in Channel!Message : a \in 1..(m - 1) \/ a = m \/ a > m
    BY MessageIs
  <2>2. ASSUME NEW a \in Channel!Message, NEW b \in Channel!Message, fate'[a] = "none", b > a
        PROVE  fate'[b] = "none"
    <3>1. a # m /\ fate[a] = "none" /\ a > m
      BY <1>1, <1>3, <1>4, <2>1, <2>2
    <3>2. b # m /\ fate[b] = "none"
      BY <1>2, <2>2, <3>1, ChannelTypes DEF ChannelInv, InOrder
    <3> QED BY <1>3, <3>2
  <2>3. ASSUME NEW a \in Channel!Message, NEW b \in Channel!Message,
               fate'[a] = "written", fate'[b] = "pending"
        PROVE  a < b
    <3>1. a # m /\ fate[a] = "written"
      BY <1>3, <1>4, <2>3
    <3>2. CASE b = m
      BY <1>5, <3>1, <3>2
    <3>3. CASE b # m
      BY <1>3, <2>3, <3>1, <3>3 DEF ChannelInv, InOrder
    <3> QED BY <3>2, <3>3
  <2> QED BY <2>2, <2>3
<1>8. current # 0 => fate'[current] = "pending" /\ current < m
  BY <1>2, <1>3, <1>5, ChannelTypes DEF ChannelInv, InOrder
<1>9. \A i \in 1..Len(waiting) : waiting[i] \in Channel!Message /\ waiting[i] < m
                                 /\ fate'[waiting[i]] = "pending" /\ current < waiting[i]
  <2> SUFFICES ASSUME NEW i \in 1..Len(waiting)
               PROVE  waiting[i] \in Channel!Message /\ waiting[i] < m
                      /\ fate'[waiting[i]] = "pending" /\ current < waiting[i]
    OBVIOUS
  <2>1. waiting[i] \in Channel!Message /\ fate[waiting[i]] = "pending" /\ current < waiting[i]
    BY ChannelTypes, LenProperties DEF ChannelInv, InOrder
  <2> QED BY <1>1, <1>3, <1>5, <2>1
<1>10. CASE fate' = [fate EXCEPT ![m] = "pending"] /\ waiting' = Append(waiting, m)
  <2>1. /\ waiting' \in Seq(Channel!Message) /\ Len(waiting') = Len(waiting) + 1
        /\ waiting'[Len(waiting) + 1] = m /\ \A i \in 1..Len(waiting) : waiting'[i] = waiting[i]
    BY <1>10, ChannelTypes, AppendProperties
  <2>2. \A i \in 1..Len(waiting') : i \in 1..Len(waiting) \/ i = Len(waiting) + 1
    BY <2>1, ChannelTypes
  <2>3. fate'[m] = "pending" /\ 0 < m /\ current < m
    BY <1>2, <1>8, <1>10, ChannelTypes
  <2>4. \A i \in 1..Len(waiting') : fate'[waiting'[i]] = "pending" /\ current < waiting'[i]
    BY <1>9, <2>1, <2>2, <2>3
  <2>5. \A i, j \in 1..Len(waiting') : i < j => waiting'[i] < waiting'[j]
    <3> SUFFICES ASSUME NEW i \in 1..Len(waiting'), NEW j \in 1..Len(waiting'), i < j
                 PROVE  waiting'[i] < waiting'[j]
      OBVIOUS
    <3>1. i \in 1..Len(waiting)
      BY <2>1, ChannelTypes
    <3> QED BY <1>9, <2>1, <2>2, <3>1 DEF ChannelInv, InOrder
  <2>6. \A n \in Channel!Message :
            fate'[n] = "pending" => n = current \/ \E i \in 1..Len(waiting') : waiting'[i] = n
    <3> SUFFICES ASSUME NEW n \in Channel!Message, fate'[n] = "pending", n # current
                 PROVE  \E i \in 1..Len(waiting') : waiting'[i] = n
      OBVIOUS
    <3>1. CASE n = m
      <4>1. Len(waiting) + 1 \in 1..Len(waiting')
        BY <2>1, ChannelTypes
      <4> QED BY <2>1, <3>1, <4>1
    <3>2. CASE n # m
      <4>1. PICK i \in 1..Len(waiting) : waiting[i] = n
        BY <1>3, <3>2 DEF ChannelInv, InOrder
      <4>2. i \in 1..Len(waiting')
        <5>1. Len(waiting) \in Nat
          BY ChannelTypes
        <5> QED BY <2>1, <4>1, <5>1
      <4> QED BY <2>1, <4>1, <4>2
    <3> QED BY <3>1, <3>2
  <2>7. InOrder'
    BY <1>1, <1>7, <1>8, <2>4, <2>5, <2>6 DEF InOrder
  <2>8. Channel!TypeOK'
    BY <1>1, <1>10, <2>1 DEF ChannelInv, Channel!TypeOK
  <2>9. Channel!Bounded' /\ Sides'
    BY <1>1 DEF ChannelInv, Channel!Bounded, Sides
  <2> QED BY <1>6, <2>7, <2>8, <2>9 DEF ChannelInv
<1>11. CASE fate' = [fate EXCEPT ![m] = "rejected"] /\ waiting' = waiting
  <2>1. \A n \in Channel!Message :
            fate'[n] = "pending" => n = current \/ \E i \in 1..Len(waiting) : waiting[i] = n
    BY <1>11, <1>3, ChannelTypes DEF ChannelInv, InOrder
  <2>2. InOrder'
    BY <1>1, <1>7, <1>8, <1>9, <1>11, <2>1 DEF ChannelInv, InOrder
  <2>3. Channel!TypeOK' /\ Channel!Bounded' /\ Sides'
    BY <1>1, <1>11 DEF ChannelInv, Channel!TypeOK, Channel!Bounded, Sides
  <2> QED BY <1>6, <2>2, <2>3 DEF ChannelInv
<1> QED BY <1>1, <1>10, <1>11

LEMMA WriterCloses ==
    ASSUME ChannelInv, Channel!CloseWriter
    PROVE  ChannelInv'
<1>1. /\ closing' = TRUE
      /\ UNCHANGED <<highWater, rstate, buffer, reading, pulls, wstate, waiting, writerAborted, shut,
                     cancelled, current, write, fate, got>>
  BY DEF Channel!CloseWriter, Channel!readable
<1>2. InOrder' /\ Delivers'
  BY <1>1, QueueStays, LineStays DEF Line
<1>3. Channel!TypeOK' /\ Channel!Bounded' /\ Sides'
  BY <1>1 DEF ChannelInv, Channel!TypeOK, Channel!Bounded, Sides
<1> QED BY <1>2, <1>3 DEF ChannelInv

LEMMA WriterAborts ==
    ASSUME ChannelInv, Channel!AbortWriter
    PROVE  ChannelInv'
<1>1. /\ wstate = "writable" /\ writerAborted' = TRUE
      /\ UNCHANGED <<highWater, cancelled, current, got>>
  BY DEF Channel!AbortWriter
<1>2. CASE current # 0
  <2>1. /\ wstate' = "erroring" /\ write' = (IF write = "parked" THEN "refused" ELSE write)
        /\ UNCHANGED <<waiting, closing, rstate, buffer, reading, pulls, shut, fate>>
    BY <1>2 DEF Channel!AbortWriter, Channel!RejectCapacity, Channel!readable
  <2>2. InOrder' /\ Delivers'
    BY <1>1, <2>1, QueueStays, LineStays DEF Line
  <2>3. Channel!TypeOK' /\ Channel!Bounded' /\ Sides'
    BY <1>1, <2>1 DEF ChannelInv, Channel!TypeOK, Channel!Bounded, Sides
  <2> QED BY <2>2, <2>3 DEF ChannelInv
<1>3. CASE current = 0
  <2>1. /\ wstate' = "errored" /\ waiting' = <<>> /\ closing' = FALSE /\ Channel!SinkAbort
        /\ fate' = Channel!RejectQueued(fate) /\ write' = write
    BY <1>3 DEF Channel!AbortWriter, Channel!ErrorWritable
  <2>2. /\ InOrder' /\ fate' \in [Channel!Message -> {"none", "pending", "written", "rejected"}]
        /\ \A n \in Channel!Message : fate'[n] = "written" <=> fate[n] = "written"
    <3>1. fate \in [Channel!Message -> {"none", "pending", "written", "rejected"}] /\ current' = 0
      BY <1>1, <1>3, ChannelTypes
    <3> QED BY <2>1, <3>1, QueueRejected
  <2>3. /\ Delivers' /\ shut' = TRUE /\ rstate' # "readable" /\ reading' = FALSE
        /\ pulls' \in BOOLEAN /\ rstate' \in {"readable", "closing", "closed", "errored"}
        /\ buffer' = buffer \/ buffer' = <<>>
        /\ rstate' \in {"closed", "errored"} => buffer' = <<>>
    BY <1>1, <2>1, <2>2, SinkAborts
  <2>4. Channel!TypeOK'
    <3>1. highWater' \in HighWaters /\ write' \in {"idle", "parked", "woken", "refused"}
      BY <1>1, <2>1 DEF ChannelInv, Channel!TypeOK
    <3>2. buffer' \in Seq(Channel!Message)
      BY <2>3, ChannelTypes
    <3> QED BY <1>1, <1>3, <2>1, <2>2, <2>3, <3>1, <3>2, ChannelTypes DEF Channel!TypeOK
  <2>5. Channel!Bounded'
    BY <1>1, <2>3, ChannelTypes, ChannelAssumption DEF ChannelInv, Channel!Bounded, Channel!TypeOK
  <2>6. Sides'
    BY <1>1, <1>3, <2>1, <2>3 DEF ChannelInv, Sides
  <2> QED BY <2>2, <2>3, <2>4, <2>5, <2>6 DEF ChannelInv
<1> QED BY <1>2, <1>3

(* The end of the readable, from the sink or from a drain. *)
LEMMA ReadableCloses ==
    ASSUME ChannelInv, Channel!CloseReadable, UNCHANGED <<got, fate, cancelled, highWater>>
    PROVE  /\ Delivers' /\ Channel!Bounded' /\ rstate' # "readable" /\ reading' = FALSE
           /\ buffer' = buffer /\ pulls' = pulls
           /\ rstate' \in {"readable", "closing", "closed", "errored"}
           /\ rstate' \in {"closed", "errored"} => buffer = <<>>
<1>1. /\ rstate' = IF rstate # "readable" THEN rstate ELSE IF buffer = <<>> THEN "closed" ELSE "closing"
      /\ reading' = (reading /\ rstate' = "readable") /\ buffer' = buffer /\ pulls' = pulls
  BY DEF Channel!CloseReadable
<1>2. rstate' # "readable"
  BY <1>1
<1>3. reading' = FALSE
  BY <1>1, <1>2
<1>4. Delivers'
  BY <1>1, LineStays DEF Line
<1> QED BY <1>1, <1>2, <1>3, <1>4 DEF ChannelInv, Channel!TypeOK, Channel!Bounded, Sides

LEMMA SinkCloses ==
    ASSUME ChannelInv, Channel!SinkClose
    PROVE  ChannelInv'
<1>1. /\ wstate = "writable" /\ current = 0 /\ closing' = FALSE
      /\ wstate' \in {"errored", "closed"}
      /\ UNCHANGED <<highWater, waiting, writerAborted, cancelled, current, write, fate, got>>
      /\ IF ~shut THEN shut' = TRUE /\ Channel!CloseReadable
                  ELSE UNCHANGED <<shut, rstate, buffer, reading, pulls>>
  BY DEF Channel!SinkClose, Channel!readable
<1>2. /\ Delivers' /\ Channel!Bounded' /\ rstate' # "readable" /\ reading' = FALSE
      /\ buffer' = buffer /\ pulls' = pulls /\ shut' = TRUE
      /\ rstate' \in {"readable", "closing", "closed", "errored"}
      /\ rstate' \in {"closed", "errored"} => buffer = <<>>
  <2>1. CASE ~shut
    BY <1>1, <2>1, ReadableCloses
  <2>2. CASE shut
    <3>1. Delivers'
      BY <1>1, <2>2, LineStays DEF Line
    <3> QED BY <1>1, <2>2, <3>1, ChannelTypes DEF ChannelInv, Sides, Channel!Bounded, Channel!TypeOK
  <2> QED BY <2>1, <2>2
<1>3. InOrder'
  BY <1>1, QueueStays
<1>4. Channel!TypeOK' /\ Sides'
  BY <1>1, <1>2 DEF ChannelInv, Channel!TypeOK, Sides
<1> QED BY <1>2, <1>3, <1>4 DEF ChannelInv

LEMMA ChannelDrains ==
    ASSUME ChannelInv, Channel!Drain
    PROVE  ChannelInv'
<1>1. /\ shut' = TRUE /\ write' = (IF write = "parked" THEN "refused" ELSE write)
      /\ UNCHANGED <<highWater, wstate, waiting, closing, writerAborted, cancelled, current, fate, got>>
  BY DEF Channel!Drain, Channel!RejectCapacity, Channel!writable
<1>2. /\ Delivers' /\ Channel!Bounded' /\ rstate' # "readable" /\ reading' = FALSE
      /\ buffer' = buffer /\ pulls' = pulls
      /\ rstate' \in {"readable", "closing", "closed", "errored"}
      /\ rstate' \in {"closed", "errored"} => buffer = <<>>
  BY <1>1, ReadableCloses DEF Channel!Drain
<1>3. InOrder'
  BY <1>1, QueueStays
<1>4. Channel!TypeOK' /\ Sides'
  BY <1>1, <1>2 DEF ChannelInv, Channel!TypeOK, Sides
<1> QED BY <1>2, <1>3, <1>4 DEF ChannelInv

LEMMA ChannelSteps ==
    ASSUME ChannelInv, Channel!Next
    PROVE  ChannelInv'
BY ReaderReads, ReaderCancels, WriterCloses, WriterAborts, ChannelDrains, ReadablePulls, SinkWrites,
   WriteContinues, SinkCloses, MessageWritten DEF Channel!Next, Channel!Step

LEMMA ChannelIsRight == ChannelInv => Channel!ChannelRight
<1> SUFFICES ASSUME ChannelInv PROVE Channel!ChannelRight
  OBVIOUS
<1>1. Channel!Delivered
  <2>1. /\ DOMAIN Line = 1..Len(Line) /\ Line = got \o buffer
        /\ Held(Line) = {Line[i] : i \in DOMAIN Line}
    BY ChannelTypes, LenProperties DEF Held, Line
  <2>2. \A i \in 1..(Len(Line) - 1) : Line[i] < Line[i + 1]
    BY DEF ChannelInv, Delivers, Rising
  <2>3. /\ Held(Line) \subseteq Sent
        /\ ~cancelled /\ rstate # "errored" => Sent = Held(Line)
    BY DEF ChannelInv, Delivers
  <2> QED BY <2>1, <2>2, <2>3 DEF Channel!Delivered, Sent
<1>2. Channel!ReaderToldSo
  BY DEF ChannelInv, Sides, Channel!ReaderToldSo
<1> QED BY <1>1, <1>2 DEF ChannelInv, Channel!ChannelRight

-----------------------------------------------------------------------------
(* execution/execution.ts *)

(* Settled links are all in front.  A link behind which one was aborted    *)
(* settled or is told; the first link has an executable of its own.        *)
ExecutionStands ==
    /\ \A i \in Execution!Links : step[i] \in {"resolving", "running"} => kind[i] # "none"
    /\ kind[1] \in {"none", "own"}
    /\ \A i \in controller : \A j \in 1..i : j \in controller \/ step[j] = "settled"

StopsInTurn == Execution!AbortReachesBack /\ Execution!CleanedUp /\ Execution!InTurn

LinksInv == Execution!TypeOK /\ StopsInTurn /\ ExecutionStands

(* A link heeds its own controller. *)
LEMMA HeedsItself ==
    ASSUME NEW i \in Nat, i >= 1
    PROVE  i \in Execution!Heeds(i)
BY DEF Execution!Heeds

(* At most one link runs, and those in front of it are settled. *)
LEMMA OneLinkRuns ==
    ASSUME LinksInv, NEW i \in Execution!Links, step[i] \in {"resolving", "running"}
    PROVE  /\ i \in Nat /\ i >= 1 /\ i <= Length /\ Length \in Nat
           /\ \A j \in Execution!Links : j < i => step[j] = "settled"
           /\ \A j \in Execution!Links : j > i => step[j] \in {"idle", "waiting"}
<1>1. Length \in Nat /\ i \in 1..Length
  BY ExecutionAssumption DEF Execution!Links
<1>2. \A k \in Execution!Links : step[k] \in {"resolving", "running", "settled"} =>
          \A j \in 1..(k - 1) : step[j] = "settled"
  BY DEF LinksInv, StopsInTurn, Execution!InTurn
<1>3. \A j \in Execution!Links : j < i => step[j] = "settled"
  BY <1>1, <1>2 DEF Execution!Links
<1>4. ASSUME NEW j \in Execution!Links, j > i
      PROVE  step[j] \in {"idle", "waiting"}
  <2>1. step[j] \in {"idle", "waiting", "resolving", "running", "settled"}
    BY DEF LinksInv, Execution!TypeOK
  <2>2. i \in 1..(j - 1)
    BY <1>1, <1>4 DEF Execution!Links
  <2> QED BY <1>2, <2>1, <2>2
<1> QED BY <1>1, <1>3, <1>4

LEMMA LinksStart == Execution!Init => LinksInv
<1> SUFFICES ASSUME Execution!Init PROVE LinksInv
  OBVIOUS
<1> USE DEF Execution!Init
<1>1. Execution!TypeOK
  BY DEF Execution!TypeOK, Execution!Timer
<1>2. 1 \in Execution!Links
  BY ExecutionAssumption DEF Execution!Links
<1>3. Execution!AbortReachesBack
  BY DEF Execution!AbortReachesBack
<1>4. Execution!CleanedUp
  BY DEF Execution!CleanedUp
<1>5. Execution!InTurn
  BY DEF Execution!InTurn
<1>6. ExecutionStands
  BY <1>2 DEF ExecutionStands
<1> QED BY <1>1, <1>3, <1>4, <1>5, <1>6 DEF LinksInv, StopsInTurn

(* A link settles from its start or its run: the timers of the links up to *)
(* it are cancelled.                                                       *)
LEMMA LinkSettles ==
    ASSUME LinksInv, NEW i \in Execution!Links, step[i] \in {"resolving", "running"},
           NEW ending \in {"none", "ok", "error", "interrupted"},
           NEW chain \in Execution!Timer, NEW ts \in [Execution!Links -> Execution!Timer],
           Execution!SettleWith(i, ending, chain, ts),
           controller' \subseteq Execution!Links, caller' \in BOOLEAN, expired' \in BOOLEAN,
           called' \subseteq Execution!Links, queued' \subseteq Execution!Links,
           signals' \subseteq Execution!Links, UNCHANGED kind,
           \A c \in controller' \ controller : \A j \in 1..c : j \in controller' \/ step[j] = "settled",
           controller \subseteq controller'
    PROVE  LinksInv'
<1>1. /\ i \in Nat /\ i >= 1 /\ i <= Length /\ Length \in Nat
      /\ \A j \in Execution!Links : j < i => step[j] = "settled"
      /\ \A j \in Execution!Links : j > i => step[j] \in {"idle", "waiting"}
  BY OneLinkRuns
<1>2. /\ step' = [step EXCEPT ![i] = "settled"] /\ gives' = [gives EXCEPT ![i] = ending]
      /\ cleaned' = cleaned \cup 1..i
      /\ chainTimer' = Execution!Cancelled(chain)
      /\ timeout' = [j \in Execution!Links |-> IF j \in 1..i THEN Execution!Cancelled(ts[j]) ELSE ts[j]]
  BY <1>1 DEF Execution!SettleWith, Execution!CleanupReaches
<1>3. /\ \A t \in Execution!Timer : Execution!Cancelled(t) \in Execution!Timer \ {"running"}
      /\ 1..i \subseteq Execution!Links
  BY <1>1 DEF Execution!Timer, Execution!Cancelled, Execution!Links
<1>4. Execution!TypeOK'
  <2>1. step' \in [Execution!Links -> {"idle", "waiting", "resolving", "running", "settled"}]
        /\ gives' \in [Execution!Links -> {"none", "ok", "error", "interrupted"}]
    BY <1>2 DEF LinksInv, Execution!TypeOK
  <2>2. timeout' \in [Execution!Links -> Execution!Timer] /\ chainTimer' \in Execution!Timer
    BY <1>2, <1>3
  <2>3. cleaned' \subseteq Execution!Links
    BY <1>2, <1>3 DEF LinksInv, Execution!TypeOK
  <2> QED BY <2>1, <2>2, <2>3 DEF LinksInv, Execution!TypeOK
<1>5. /\ step'[i] = "settled"
      /\ \A j \in Execution!Links : j # i => step'[j] = step[j]
  BY <1>2 DEF LinksInv, Execution!TypeOK
<1>6. \A j \in Execution!Links : step'[j] # "running" /\ (step'[j] = "settled" <=> j <= i)
  BY <1>1, <1>5 DEF Execution!Links
<1>7. Execution!AbortReachesBack'
  <2>1. \A c \in controller' : c \in Execution!Links /\ 1..c \subseteq Execution!Links
    BY <1>1 DEF Execution!Links
  <2> QED BY <1>6, <2>1 DEF Execution!AbortReachesBack
<1>8. Execution!CleanedUp'
  <2>1. chainTimer' # "running"
    BY <1>2, <1>3
  <2>2. \A j \in 1..i : j \in cleaned' /\ timeout'[j] # "running"
    BY <1>2, <1>3
  <2> QED BY <1>1, <1>6, <2>1, <2>2 DEF Execution!CleanedUp, Execution!Links
<1>9. Execution!InTurn'
  BY <1>1, <1>5, <1>6 DEF Execution!InTurn, Execution!Links
<1>10. ExecutionStands'
  <2>1. \A c \in controller' : 1..c \subseteq Execution!Links
    BY <1>1 DEF Execution!Links
  <2>2. \A c \in controller' : \A j \in 1..c : j \in controller' \/ step[j] = "settled"
    BY DEF LinksInv, ExecutionStands
  <2>3. \A j \in Execution!Links : step[j] = "settled" => step'[j] = "settled"
    BY <1>5
  <2>4. \A c \in controller' : \A j \in 1..c : j \in controller' \/ step'[j] = "settled"
    BY <2>1, <2>2, <2>3
  <2>5. \A j \in Execution!Links : step'[j] \in {"resolving", "running"} => kind'[j] # "none"
    BY <1>5 DEF LinksInv, ExecutionStands
  <2> QED BY <2>4, <2>5 DEF LinksInv, ExecutionStands
<1> QED BY <1>4, <1>7, <1>8, <1>9, <1>10 DEF LinksInv, StopsInTurn

(* An abort or a timer: the link that runs settles if it heeds it.         *)
LEMMA LinkStruck ==
    ASSUME LinksInv, NEW callers \in BOOLEAN, NEW brought,
           NEW chain \in Execution!Timer, NEW ts \in [Execution!Links -> Execution!Timer],
           Execution!Strike(controller', callers, chain, ts, brought),
           chain = "running" => chainTimer = "running",
           \A j \in Execution!Links : ts[j] = "running" => timeout[j] = "running",
           controller \subseteq controller', controller' \subseteq Execution!Links,
           \A c \in controller' \ controller : \A j \in 1..c : j \in controller' \/ step[j] = "settled",
           caller' \in BOOLEAN, expired' \in BOOLEAN, signals' \subseteq Execution!Links,
           UNCHANGED <<kind, queued, called>>
    PROVE  LinksInv'
<1> DEFINE struck == {i \in Execution!Links : /\ step[i] = "running"
                                              /\ Execution!Signalled(i, controller', callers, chain, ts, brought)}
<1>1. CASE struck # {}
  <2> DEFINE i == CHOOSE i \in struck : TRUE
  <2>1. i \in struck
    BY <1>1
  <2>2. Execution!SettleWith(i, "interrupted", chain, ts)
    BY <1>1 DEF Execution!Strike
  <2> HIDE DEF i
  <2>3. i \in Execution!Links /\ step[i] \in {"resolving", "running"}
    BY <2>1
  <2>4. called' \subseteq Execution!Links /\ queued' \subseteq Execution!Links
    BY DEF LinksInv, Execution!TypeOK
  <2> QED BY <2>2, <2>3, <2>4, LinkSettles
<1>2. CASE struck = {}
  <2>1. chainTimer' = chain /\ timeout' = ts /\ UNCHANGED <<step, gives, cleaned>>
    BY <1>2 DEF Execution!Strike
  <2>2. Execution!TypeOK'
    BY <2>1 DEF LinksInv, Execution!TypeOK
  <2>3. Execution!AbortReachesBack'
    <3> SUFFICES ASSUME NEW c \in controller', NEW j \in 1..c, step[j] = "running" PROVE FALSE
      BY <2>1 DEF Execution!AbortReachesBack
    <3>1. j \in Execution!Links /\ j \in Nat /\ j >= 1
      BY ExecutionAssumption DEF Execution!Links
    <3>2. j \in controller'
      BY DEF LinksInv, ExecutionStands
    <3>3. Execution!Signalled(j, controller', callers, chain, ts, brought)
      BY <3>1, <3>2, HeedsItself DEF Execution!Signalled
    <3> QED BY <1>2, <3>1, <3>3
  <2>4. Execution!CleanedUp'
    <3>1. \A i \in Execution!Links : 1..i \subseteq Execution!Links
      BY ExecutionAssumption DEF Execution!Links
    <3> QED BY <2>1, <3>1 DEF LinksInv, StopsInTurn, Execution!CleanedUp
  <2>5. Execution!InTurn' /\ ExecutionStands'
    BY <2>1 DEF LinksInv, StopsInTurn, Execution!InTurn, ExecutionStands
  <2> QED BY <2>2, <2>3, <2>4, <2>5 DEF LinksInv, StopsInTurn
<1> QED BY <1>1, <1>2

(* No executable is called, or going to be, in other steps. *)
LEMMA NoneCalled == UNCHANGED <<queued, called>> => Execution!NoLateCall
BY DEF Execution!NoLateCall

LEMMA ExecuteRight ==
    ASSUME LinksInv, NEW i \in Execution!Links, Execution!Execute(i)
    PROVE  LinksInv' /\ Execution!NoLateCall
<1>1. /\ step[i] = "idle"
      /\ step' = [j \in Execution!Links |->
                    IF j > i \/ step[j] # "idle" THEN step[j]
                    ELSE IF j = 1 THEN "resolving" ELSE "waiting"]
      /\ kind' = [kind EXCEPT ![1] = "own"]
      /\ UNCHANGED <<controller, caller, chainTimer, timeout, signals, cleaned, queued, called, gives,
                     expired>>
  BY DEF Execution!Execute
<1>2. Length \in Nat /\ 1 \in Execution!Links /\ Execution!Links = 1..Length
  BY ExecutionAssumption DEF Execution!Links
<1>3. \A j \in Execution!Links :
          \/ step'[j] = step[j]
          \/ step[j] = "idle" /\ j = 1 /\ step'[j] = "resolving"
          \/ step[j] = "idle" /\ j > 1 /\ step'[j] = "waiting"
  BY <1>1, <1>2
<1>4. Execution!TypeOK'
  <2>1. step' \in [Execution!Links -> {"idle", "waiting", "resolving", "running", "settled"}]
    BY <1>1 DEF LinksInv, Execution!TypeOK
  <2>2. kind' \in [Execution!Links -> {"none", "own", "null", "throw"}]
    BY <1>1 DEF LinksInv, Execution!TypeOK
  <2> QED BY <1>1, <2>1, <2>2 DEF LinksInv, Execution!TypeOK
<1>5. \A j \in Execution!Links : /\ step'[j] = "running" <=> step[j] = "running"
                                /\ step'[j] = "settled" <=> step[j] = "settled"
  BY <1>3
<1>6. Execution!AbortReachesBack'
  <2>1. \A c \in controller : 1..c \subseteq Execution!Links
    BY <1>2 DEF LinksInv, Execution!TypeOK
  <2> QED BY <1>1, <1>5, <2>1
          DEF LinksInv, StopsInTurn, Execution!AbortReachesBack
<1>7. Execution!CleanedUp'
  BY <1>1, <1>5 DEF LinksInv, StopsInTurn, Execution!CleanedUp
<1>8. Execution!InTurn'
  <2> SUFFICES ASSUME NEW j \in Execution!Links, step'[j] \in {"resolving", "running", "settled"},
                      NEW k \in 1..(j - 1)
               PROVE  step'[k] = "settled"
    BY DEF Execution!InTurn
  <2>1. k \in Execution!Links /\ j # 1
    BY <1>2
  <2>2. step[j] \in {"resolving", "running", "settled"}
    BY <1>3, <2>1
  <2> QED BY <1>5, <2>1, <2>2 DEF LinksInv, StopsInTurn, Execution!InTurn
<1>9. ExecutionStands'
  <2>1. \A c \in controller' : \A j \in 1..c : j \in controller' \/ step'[j] = "settled"
    <3>1. \A c \in controller : 1..c \subseteq Execution!Links
      BY <1>2 DEF LinksInv, Execution!TypeOK
    <3> QED BY <1>1, <1>5, <3>1 DEF LinksInv, ExecutionStands
  <2>2. kind'[1] = "own" /\ \A j \in Execution!Links : j # 1 => kind'[j] = kind[j]
    BY <1>1, <1>2 DEF LinksInv, Execution!TypeOK
  <2>3. \A j \in Execution!Links : step'[j] \in {"resolving", "running"} => kind'[j] # "none"
    BY <1>3, <2>2 DEF LinksInv, ExecutionStands
  <2> QED BY <2>1, <2>2, <2>3 DEF ExecutionStands
<1> QED BY <1>1, <1>4, <1>6, <1>7, <1>8, <1>9, NoneCalled DEF LinksInv, StopsInTurn

LEMMA DecideRight ==
    ASSUME LinksInv, NEW i \in Execution!Links \ {1}, Execution!Decide(i)
    PROVE  LinksInv' /\ Execution!NoLateCall
<1>1. PICK k \in {"own", "null", "throw"} : kind' = [kind EXCEPT ![i] = k]
  BY DEF Execution!Decide
<1>2. /\ step[i] = "waiting" /\ step[i - 1] = "settled"
      /\ step' = [step EXCEPT ![i] = "resolving"]
      /\ UNCHANGED <<controller, caller, chainTimer, timeout, signals, cleaned, queued, called, gives,
                     expired>>
  BY DEF Execution!Decide
<1>3. /\ Length \in Nat /\ Execution!Links = 1..Length
      /\ i \in Nat /\ i > 1 /\ i - 1 \in Execution!Links
  BY ExecutionAssumption DEF Execution!Links
<1>4. Execution!TypeOK'
  BY <1>1, <1>2 DEF LinksInv, Execution!TypeOK
<1>5. step'[i] = "resolving" /\ \A j \in Execution!Links : j # i => step'[j] = step[j]
  BY <1>2 DEF LinksInv, Execution!TypeOK
<1>6. \A j \in Execution!Links : /\ step'[j] = "running" <=> step[j] = "running"
                                /\ step'[j] = "settled" <=> step[j] = "settled"
  BY <1>2, <1>5
<1>7. Execution!AbortReachesBack'
  <2>1. \A c \in controller : 1..c \subseteq Execution!Links
    BY <1>3 DEF LinksInv, Execution!TypeOK
  <2> QED BY <1>2, <1>6, <2>1
          DEF LinksInv, StopsInTurn, Execution!AbortReachesBack
<1>8. Execution!CleanedUp'
  BY <1>2, <1>6 DEF LinksInv, StopsInTurn, Execution!CleanedUp
<1>9. Execution!InTurn'
  <2> SUFFICES ASSUME NEW j \in Execution!Links, step'[j] \in {"resolving", "running", "settled"},
                      NEW m \in 1..(j - 1)
               PROVE  step'[m] = "settled"
    BY DEF Execution!InTurn
  <2>1. m \in Execution!Links
    BY <1>3
  <2>2. CASE j # i
    BY <1>5, <1>6, <2>1, <2>2 DEF LinksInv, StopsInTurn, Execution!InTurn
  <2>3. CASE j = i
    <3>1. m = i - 1 \/ m \in 1..((i - 1) - 1)
      BY <1>3, <2>3
    <3>2. step[m] = "settled"
      BY <1>2, <1>3, <3>1 DEF LinksInv, StopsInTurn, Execution!InTurn
    <3> QED BY <1>6, <2>1, <3>2
  <2> QED BY <2>2, <2>3
<1>10. ExecutionStands'
  <2>1. \A c \in controller' : \A j \in 1..c : j \in controller' \/ step'[j] = "settled"
    <3>1. \A c \in controller : 1..c \subseteq Execution!Links
      BY <1>3 DEF LinksInv, Execution!TypeOK
    <3> QED BY <1>2, <1>6, <3>1 DEF LinksInv, ExecutionStands
  <2>2. kind'[1] = kind[1] /\ kind'[i] # "none"
        /\ \A j \in Execution!Links : j # i => kind'[j] = kind[j]
    BY <1>1, <1>3 DEF LinksInv, Execution!TypeOK
  <2>3. \A j \in Execution!Links : step'[j] \in {"resolving", "running"} => kind'[j] # "none"
    BY <1>5, <2>2 DEF LinksInv, ExecutionStands
  <2> QED BY <2>1, <2>2, <2>3 DEF LinksInv, ExecutionStands
<1> QED BY <1>2, <1>4, <1>7, <1>8, <1>9, <1>10, NoneCalled DEF LinksInv, StopsInTurn

LEMMA StartRight ==
    ASSUME LinksInv, NEW i \in Execution!Links, Execution!Start(i)
    PROVE  LinksInv' /\ Execution!NoLateCall
<1>1. step[i] = "resolving" /\ UNCHANGED <<kind, controller, caller, signals, called, expired>>
  BY DEF Execution!Start
<1>2. PICK own \in IF kind[i] = "own" THEN {"none", "running"} ELSE {"none"},
           chain \in IF i = 1 THEN {"none", "running"} ELSE {chainTimer} :
          LET ts == [timeout EXCEPT ![i] = own] IN
          IF Execution!Signalled(i, controller, caller, chain, ts, signals)
          THEN Execution!SettleWith(i, "interrupted", chain, ts) /\ queued' = queued
          ELSE /\ step' = [step EXCEPT ![i] = "running"] /\ queued' = {i}
               /\ chainTimer' = chain /\ timeout' = ts
               /\ UNCHANGED <<cleaned, gives>>
  BY DEF Execution!Start
<1> DEFINE ts == [timeout EXCEPT ![i] = own]
<1>3. own \in Execution!Timer /\ chain \in Execution!Timer
  BY <1>2 DEF Execution!Timer, LinksInv, Execution!TypeOK
<1>4. ts \in [Execution!Links -> Execution!Timer] /\ ts[i] = own
      /\ \A j \in Execution!Links : j # i => ts[j] = timeout[j]
  BY <1>3 DEF LinksInv, Execution!TypeOK
<1>5. /\ i \in Nat /\ i >= 1 /\ i <= Length /\ Length \in Nat
      /\ \A j \in Execution!Links : j < i => step[j] = "settled"
      /\ \A j \in Execution!Links : j > i => step[j] \in {"idle", "waiting"}
  BY <1>1, OneLinkRuns
<1>6. CASE Execution!Signalled(i, controller, caller, chain, ts, signals)
  <2>1. Execution!SettleWith(i, "interrupted", chain, ts) /\ queued' = queued
    BY <1>2, <1>6
  <2> HIDE DEF ts
  <2>2. controller' = controller /\ controller \subseteq Execution!Links /\ caller' \in BOOLEAN
        /\ expired' \in BOOLEAN /\ called' \subseteq Execution!Links
        /\ queued' \subseteq Execution!Links /\ signals' \subseteq Execution!Links
    BY <1>1, <2>1 DEF LinksInv, Execution!TypeOK
  <2>3. LinksInv'
    BY <1>1, <1>3, <1>4, <2>1, <2>2, LinkSettles
  <2> QED BY <1>1, <2>1, <2>3, NoneCalled
<1>7. CASE ~Execution!Signalled(i, controller, caller, chain, ts, signals)
  <2>1. /\ step' = [step EXCEPT ![i] = "running"] /\ queued' = {i}
        /\ chainTimer' = chain /\ timeout' = ts /\ UNCHANGED <<cleaned, gives>>
    BY <1>2, <1>7
  <2> HIDE DEF ts
  <2>2. i \notin controller /\ ~caller /\ signals \cap (1..i) = {}
    BY <1>5, <1>7, HeedsItself DEF Execution!Signalled
  <2>3. step'[i] = "running" /\ \A j \in Execution!Links : j # i => step'[j] = step[j]
    BY <2>1 DEF LinksInv, Execution!TypeOK
  <2>4. Execution!TypeOK'
    <3>1. step' \in [Execution!Links -> {"idle", "waiting", "resolving", "running", "settled"}]
      BY <2>1 DEF LinksInv, Execution!TypeOK
    <3> QED BY <1>1, <1>3, <1>4, <2>1, <3>1 DEF LinksInv, Execution!TypeOK
  <2>5. \A j \in Execution!Links : step'[j] = "settled" <=> step[j] = "settled"
    BY <1>1, <2>3
  <2>6. Execution!AbortReachesBack'
    <3> SUFFICES ASSUME NEW c \in controller, NEW j \in 1..c, step'[j] = "running" PROVE FALSE
      BY <1>1 DEF Execution!AbortReachesBack
    <3>1. c \in Execution!Links /\ j \in Execution!Links
      BY <1>5 DEF LinksInv, Execution!TypeOK, Execution!Links
    <3>2. j = i
      BY <1>5, <2>3, <3>1 DEF LinksInv, StopsInTurn, Execution!AbortReachesBack
    <3>3. i \in controller \/ step[i] = "settled"
      BY <3>2 DEF LinksInv, ExecutionStands
    <3> QED BY <1>1, <2>2, <3>3
  <2>7. Execution!CleanedUp'
    <3> SUFFICES ASSUME NEW k \in Execution!Links, step'[k] = "settled"
                 PROVE  /\ 1..k \subseteq cleaned'
                        /\ \A j \in 1..k : timeout'[j] # "running"
                        /\ chainTimer' # "running"
      BY DEF Execution!CleanedUp
    <3>1. step[k] = "settled" /\ k < i /\ k \in Nat /\ k >= 1
      BY <1>1, <1>5, <2>5 DEF Execution!Links
    <3>2. /\ 1..k \subseteq cleaned /\ \A j \in 1..k : timeout[j] # "running"
          /\ chainTimer # "running"
      BY <3>1 DEF LinksInv, StopsInTurn, Execution!CleanedUp
    <3>3. chain = chainTimer
      BY <1>2, <3>1
    <3>4. \A j \in 1..k : j \in Execution!Links /\ j # i
      BY <1>5, <3>1 DEF Execution!Links
    <3>5. \A j \in 1..k : timeout'[j] = timeout[j]
      BY <1>4, <2>1, <3>4
    <3> QED BY <2>1, <3>2, <3>3, <3>5
  <2>8. Execution!InTurn'
    BY <1>1, <1>5, <2>3, <2>5
       DEF LinksInv, StopsInTurn, Execution!InTurn, Execution!Links
  <2>9. ExecutionStands'
    <3>1. \A c \in controller : 1..c \subseteq Execution!Links
      BY <1>5 DEF LinksInv, Execution!TypeOK, Execution!Links
    <3>2. \A c \in controller' : \A j \in 1..c : j \in controller' \/ step'[j] = "settled"
      BY <1>1, <2>5, <3>1 DEF LinksInv, ExecutionStands
    <3>3. \A j \in Execution!Links : step'[j] \in {"resolving", "running"} => kind[j] # "none"
      BY <1>1, <2>3 DEF LinksInv, ExecutionStands
    <3> QED BY <1>1, <3>2, <3>3 DEF LinksInv, ExecutionStands
  <2>10. Execution!NoLateCall
    BY <1>1, <2>1, <2>2 DEF Execution!NoLateCall
  <2> QED BY <2>4, <2>6, <2>7, <2>8, <2>9, <2>10 DEF LinksInv, StopsInTurn
<1> QED BY <1>6, <1>7

LEMMA EndRight ==
    ASSUME LinksInv, NEW i \in Execution!Links, Execution!End(i)
    PROVE  LinksInv' /\ Execution!NoLateCall
<1>1. step[i] = "running" /\ UNCHANGED <<kind, controller, caller, signals, queued, called, expired>>
  BY DEF Execution!End
<1>2. PICK ending \in CASE kind[i] = "own" -> {"ok", "error"}
                       [] kind[i] = "null" -> {gives[i - 1]}
                       [] kind[i] = "throw" -> {"error"} :
          Execution!SettleWith(i, ending, chainTimer, timeout)
  BY DEF Execution!End
<1>3. kind[i] \in {"own", "null", "throw"} /\ (i = 1 => kind[i] = "own")
  BY <1>1 DEF LinksInv, Execution!TypeOK, ExecutionStands
<1>4. ending \in {"none", "ok", "error", "interrupted"}
  <2>1. i # 1 => i - 1 \in Execution!Links
    BY ExecutionAssumption DEF Execution!Links
  <2>2. CASE kind[i] = "null"
    BY <1>2, <1>3, <2>1, <2>2 DEF LinksInv, Execution!TypeOK
  <2>3. CASE kind[i] # "null"
    BY <1>2, <1>3, <2>3
  <2> QED BY <2>2, <2>3
<1>5. /\ chainTimer \in Execution!Timer /\ timeout \in [Execution!Links -> Execution!Timer]
      /\ controller' = controller /\ controller \subseteq Execution!Links /\ caller' \in BOOLEAN
      /\ expired' \in BOOLEAN /\ called' \subseteq Execution!Links
      /\ queued' \subseteq Execution!Links /\ signals' \subseteq Execution!Links
  BY <1>1 DEF LinksInv, Execution!TypeOK
<1>6. LinksInv'
  BY <1>1, <1>2, <1>4, <1>5, LinkSettles
<1> QED BY <1>1, <1>6, NoneCalled

LEMMA AbortRight ==
    ASSUME LinksInv, NEW i \in Execution!Links, Execution!Abort(i)
    PROVE  LinksInv' /\ Execution!NoLateCall
<1> DEFINE live == {j \in Execution!Reach(i) : step[j] = "running"}
           touched == UNION {Execution!CleanupReaches(j) : j \in live}
           ts == [j \in Execution!Links |-> IF j \in touched THEN Execution!Cancelled(timeout[j])
                                                            ELSE timeout[j]]
           chain == IF 1 \in touched THEN Execution!Cancelled(chainTimer) ELSE chainTimer
<1>1. /\ controller' = controller \cup Execution!Reach(i)
      /\ Execution!Strike(controller', caller, chain, ts, signals)
      /\ UNCHANGED <<kind, caller, signals, queued, called, expired>>
  BY DEF Execution!Abort
<1>2. \A t \in Execution!Timer : /\ Execution!Cancelled(t) \in Execution!Timer
                                /\ Execution!Cancelled(t) # "running"
  BY DEF Execution!Timer, Execution!Cancelled
<1> HIDE DEF touched
<1>3. /\ ts \in [Execution!Links -> Execution!Timer] /\ chain \in Execution!Timer
      /\ chain = "running" => chainTimer = "running"
      /\ \A j \in Execution!Links : ts[j] = "running" => timeout[j] = "running"
  BY <1>2 DEF LinksInv, Execution!TypeOK
<1> HIDE DEF ts, chain
<1>4. Length \in Nat /\ i \in Nat /\ i >= 1 /\ i <= Length
  BY ExecutionAssumption DEF Execution!Links
<1>5. controller' \subseteq Execution!Links
  <2>1. \A j \in Execution!Reach(i) : j \in 1..i
    BY DEF Execution!Reach
  <2>2. 1..i \subseteq Execution!Links
    BY <1>4 DEF Execution!Links
  <2>3. controller \subseteq Execution!Links
    BY DEF LinksInv, Execution!TypeOK
  <2> QED BY <1>1, <2>1, <2>2, <2>3
<1>6. \A c \in controller' \ controller : \A j \in 1..c : j \in controller' \/ step[j] = "settled"
  <2> SUFFICES ASSUME NEW c \in Execution!Reach(i), NEW j \in 1..c, step[j] # "settled"
               PROVE  j \in Execution!Reach(i)
    BY <1>1
  <2>1. c \in 1..i /\ \A k \in c..i : step[k] # "settled"
    BY DEF Execution!Reach
  <2>2. \A k \in 1..c : k \in Execution!Links
    BY <1>4, <2>1 DEF Execution!Links
  <2>3. \A k \in j..c : step[k] # "settled"
    <3> SUFFICES ASSUME NEW k \in j..c, step[k] = "settled" PROVE FALSE
      OBVIOUS
    <3>1. k \in Execution!Links /\ k # j /\ j \in 1..(k - 1)
      BY <1>4, <2>1 DEF Execution!Links
    <3> QED BY <3>1 DEF LinksInv, StopsInTurn, Execution!InTurn
  <2>4. \A k \in j..i : k \in j..c \/ k \in c..i
    BY <1>4, <2>1
  <2> QED BY <1>4, <2>1, <2>3, <2>4 DEF Execution!Reach
<1>7. /\ caller \in BOOLEAN /\ caller' \in BOOLEAN /\ expired' \in BOOLEAN
      /\ signals' \subseteq Execution!Links
  BY <1>1 DEF LinksInv, Execution!TypeOK
<1>8. LinksInv'
  BY <1>1, <1>3, <1>5, <1>6, <1>7, LinkStruck
<1> QED BY <1>1, <1>8, NoneCalled

LEMMA CallerAbortsRight ==
    ASSUME LinksInv, Execution!CallerAborts
    PROVE  LinksInv' /\ Execution!NoLateCall
<1>1. /\ caller' = TRUE /\ UNCHANGED <<kind, controller, signals, queued, called, expired>>
      /\ Execution!Strike(controller, TRUE, chainTimer, timeout, signals)
  BY DEF Execution!CallerAborts
<1>2. /\ chainTimer \in Execution!Timer /\ timeout \in [Execution!Links -> Execution!Timer]
      /\ controller' = controller /\ controller \subseteq Execution!Links /\ expired' \in BOOLEAN
      /\ signals' \subseteq Execution!Links
  BY <1>1 DEF LinksInv, Execution!TypeOK
<1>3. Execution!Strike(controller', TRUE, chainTimer, timeout, signals)
  BY <1>1, <1>2
<1>4. LinksInv'
  BY <1>1, <1>2, <1>3, LinkStruck
<1> QED BY <1>1, <1>4, NoneCalled

LEMMA TimerFiresRight ==
    ASSUME LinksInv, NEW i \in Execution!Links, Execution!TimerFires(i)
    PROVE  LinksInv' /\ Execution!NoLateCall
<1> DEFINE ts == [timeout EXCEPT ![i] = "fired"]
<1>1. /\ UNCHANGED <<kind, controller, caller, signals, queued, called, expired>>
      /\ Execution!Strike(controller, caller, chainTimer, ts, signals)
  BY DEF Execution!TimerFires
<1>2. /\ chainTimer \in Execution!Timer /\ ts \in [Execution!Links -> Execution!Timer]
      /\ controller' = controller /\ controller \subseteq Execution!Links /\ expired' \in BOOLEAN
      /\ caller \in BOOLEAN /\ caller' \in BOOLEAN /\ signals' \subseteq Execution!Links
      /\ \A j \in Execution!Links : ts[j] = "running" => timeout[j] = "running"
  BY <1>1 DEF LinksInv, Execution!TypeOK, Execution!Timer
<1> HIDE DEF ts
<1>3. Execution!Strike(controller', caller, chainTimer, ts, signals)
  BY <1>1, <1>2
<1>4. LinksInv'
  BY <1>1, <1>2, <1>3, LinkStruck
<1> QED BY <1>1, <1>4, NoneCalled

LEMMA ExpireRight ==
    ASSUME LinksInv, Execution!Expire
    PROVE  LinksInv' /\ Execution!NoLateCall
<1>1. /\ expired' = TRUE /\ UNCHANGED <<kind, controller, caller, signals, queued, called>>
      /\ \/ Execution!Strike(controller, caller, "fired", timeout, signals)
         \/ UNCHANGED <<step, gives, cleaned, chainTimer, timeout>>
  BY DEF Execution!Expire
<1>2. /\ "fired" \in Execution!Timer /\ timeout \in [Execution!Links -> Execution!Timer]
      /\ controller' = controller /\ controller \subseteq Execution!Links /\ caller \in BOOLEAN
      /\ caller' \in BOOLEAN /\ signals' \subseteq Execution!Links
  BY <1>1 DEF LinksInv, Execution!TypeOK, Execution!Timer
<1>3. CASE Execution!Strike(controller, caller, "fired", timeout, signals)
  <2>1. Execution!Strike(controller', caller, "fired", timeout, signals)
    BY <1>2, <1>3
  <2> QED BY <1>1, <1>2, <2>1, LinkStruck, NoneCalled
<1>4. CASE UNCHANGED <<step, gives, cleaned, chainTimer, timeout>>
  BY <1>1, <1>4, NoneCalled
     DEF LinksInv, ExecutionStands, Execution!TypeOK, StopsInTurn,
         Execution!AbortReachesBack, Execution!CleanedUp, Execution!InTurn
<1> QED BY <1>1, <1>3, <1>4

LEMMA SignalAbortsRight ==
    ASSUME LinksInv, NEW i \in Execution!Links, Execution!SignalAborts(i)
    PROVE  LinksInv' /\ Execution!NoLateCall
<1>1. /\ signals' = signals \cup {i} /\ UNCHANGED <<kind, controller, caller, queued, called, expired>>
      /\ Execution!Strike(controller, caller, chainTimer, timeout, signals')
  BY DEF Execution!SignalAborts
<1>2. /\ chainTimer \in Execution!Timer /\ timeout \in [Execution!Links -> Execution!Timer]
      /\ controller' = controller /\ controller \subseteq Execution!Links /\ expired' \in BOOLEAN
      /\ caller \in BOOLEAN /\ caller' \in BOOLEAN /\ signals' \subseteq Execution!Links
  BY <1>1 DEF LinksInv, Execution!TypeOK
<1>3. Execution!Strike(controller', caller, chainTimer, timeout, signals')
  BY <1>1, <1>2
<1>4. LinksInv'
  BY <1>1, <1>2, <1>3, LinkStruck
<1> QED BY <1>1, <1>4, NoneCalled

LEMMA CallRight ==
    ASSUME LinksInv, Execution!Call
    PROVE  LinksInv' /\ Execution!NoLateCall
<1>1. /\ called' = called \cup queued /\ queued' = {}
      /\ UNCHANGED <<step, kind, controller, caller, chainTimer, timeout, signals, cleaned, gives,
                     expired>>
  BY DEF Execution!Call
<1>2. Execution!TypeOK'
  BY <1>1 DEF LinksInv, Execution!TypeOK
<1>3. StopsInTurn' /\ ExecutionStands'
  BY <1>1 DEF LinksInv, StopsInTurn, ExecutionStands, Execution!AbortReachesBack,
              Execution!CleanedUp, Execution!InTurn
<1> QED BY <1>1, <1>2, <1>3 DEF LinksInv, Execution!NoLateCall

LEMMA LinksStep ==
    ASSUME LinksInv, Execution!Next
    PROVE  LinksInv' /\ Execution!NoLateCall
BY CallerAbortsRight, ExpireRight, CallRight, ExecuteRight, StartRight, EndRight, AbortRight,
   SignalAbortsRight, TimerFiresRight, DecideRight DEF Execution!Next

(* What has begun: a call, a timer, a decision.                            *)
Begun ==
    /\ \A i \in Execution!Links :
          i \in queued \cup called \/ timeout[i] # "none" => step[i] \in {"running", "settled"}
    /\ \A i \in Execution!Links : i > 1 /\ kind[i] # "none" =>
          step[i] \in {"resolving", "running", "settled"}

ExecutionInv == LinksInv /\ Begun /\ Execution!InterruptionLasts

(* The steps behind which no more has begun, and nothing is struck behind  *)
(* which there was a decision.                                             *)
NoneBegins ==
    /\ \A j \in Execution!Links :
          /\ step[j] \in {"running", "settled"} => step'[j] \in {"running", "settled"}
          /\ step[j] = "resolving" => step'[j] \in {"resolving", "settled"}
          /\ timeout'[j] # "none" => timeout[j] # "none" \/ step'[j] = "settled"
          /\ j \in controller' \/ timeout'[j] = "fired" =>
                j \in controller \/ timeout[j] = "fired" \/ step[j] # "settled"
    /\ queued' \cup called' \subseteq queued \cup called
    /\ UNCHANGED kind

(* A link that was decided behind another one finds it settled. *)
LEMMA DecidedBehind ==
    ASSUME ExecutionInv, NEW j \in Execution!Links, j < Length, kind[j + 1] # "none"
    PROVE  step[j] = "settled"
<1>1. Length \in Nat /\ j \in Nat /\ j >= 1 /\ j + 1 \in Execution!Links /\ j \in 1..((j + 1) - 1)
  BY ExecutionAssumption DEF Execution!Links
<1>2. step[j + 1] \in {"resolving", "running", "settled"}
  BY <1>1 DEF ExecutionInv, Begun
<1> QED BY <1>1, <1>2 DEF ExecutionInv, LinksInv, StopsInTurn, Execution!InTurn

LEMMA EndKept ==
    ASSUME ExecutionInv, NoneBegins
    PROVE  Begun' /\ Execution!InterruptionLasts'
<1>1. Begun'
  <2>1. ASSUME NEW i \in Execution!Links, i \in queued' \cup called' \/ timeout'[i] # "none"
        PROVE  step'[i] \in {"running", "settled"}
    BY <2>1 DEF NoneBegins, ExecutionInv, Begun
  <2>2. ASSUME NEW i \in Execution!Links, i > 1, kind'[i] # "none"
        PROVE  step'[i] \in {"resolving", "running", "settled"}
    BY <2>2 DEF NoneBegins, ExecutionInv, Begun
  <2> QED BY <2>1, <2>2 DEF Begun
<1>2. Execution!InterruptionLasts'
  <2> SUFFICES ASSUME NEW j \in Execution!Links, j \in controller' \/ timeout'[j] = "fired",
                      j < Length, kind'[j + 1] \in {"null", "throw"},
                      NEW i \in Execution!Links, i > j
               PROVE  i \notin queued' \cup called'
    BY DEF Execution!InterruptionLasts
  <2>1. kind[j + 1] \in {"null", "throw"} /\ step[j] = "settled"
    BY DecidedBehind DEF NoneBegins
  <2>2. j \in controller \/ timeout[j] = "fired"
    BY <2>1 DEF NoneBegins
  <2>3. i \notin queued \cup called
    BY <2>1, <2>2 DEF ExecutionInv, Execution!InterruptionLasts
  <2> QED BY <2>3 DEF NoneBegins
<1> QED BY <1>1, <1>2

(* A link that settles begins nothing. *)
LEMMA SettlingBegins ==
    ASSUME LinksInv, NEW i \in Execution!Links, step[i] \in {"resolving", "running"},
           NEW ending, NEW chain, NEW ts \in [Execution!Links -> Execution!Timer],
           Execution!SettleWith(i, ending, chain, ts)
    PROVE  \A j \in Execution!Links :
              /\ step[j] \in {"running", "settled"} => step'[j] \in {"running", "settled"}
              /\ step[j] = "resolving" => step'[j] \in {"resolving", "settled"}
              /\ timeout'[j] # "none" => ts[j] # "none"
              /\ timeout'[j] = "fired" => ts[j] = "fired"
<1>1. /\ step' = [step EXCEPT ![i] = "settled"]
      /\ timeout' = [j \in Execution!Links |-> IF j \in Execution!CleanupReaches(i)
                                               THEN Execution!Cancelled(ts[j]) ELSE ts[j]]
  BY DEF Execution!SettleWith
<1>2. \A j \in Execution!Links :
          timeout'[j] = ts[j] \/ (ts[j] = "running" /\ timeout'[j] = "cancelled")
  BY <1>1 DEF Execution!Cancelled
<1>3. \A j \in Execution!Links : step'[j] = step[j] \/ step'[j] = "settled"
  BY <1>1 DEF LinksInv, Execution!TypeOK
<1> QED BY <1>2, <1>3

LEMMA StrikeBegins ==
    ASSUME LinksInv, NEW aborts, NEW callers, NEW chain, NEW brought,
           NEW ts \in [Execution!Links -> Execution!Timer],
           Execution!Strike(aborts, callers, chain, ts, brought)
    PROVE  \A j \in Execution!Links :
              /\ step[j] \in {"running", "settled"} => step'[j] \in {"running", "settled"}
              /\ step[j] = "resolving" => step'[j] \in {"resolving", "settled"}
              /\ timeout'[j] # "none" => ts[j] # "none"
              /\ timeout'[j] = "fired" => ts[j] = "fired"
<1> DEFINE struck == {i \in Execution!Links :
                        /\ step[i] = "running"
                        /\ Execution!Signalled(i, aborts, callers, chain, ts, brought)}
<1>1. CASE struck # {}
  <2> DEFINE i == CHOOSE i \in struck : TRUE
  <2>1. i \in struck
    BY <1>1
  <2>2. Execution!SettleWith(i, "interrupted", chain, ts)
    BY <1>1 DEF Execution!Strike
  <2> HIDE DEF i
  <2>3. i \in Execution!Links /\ step[i] \in {"resolving", "running"}
    BY <2>1
  <2> QED BY <2>2, <2>3, SettlingBegins
<1>2. CASE struck = {}
  <2>1. timeout' = ts /\ UNCHANGED step
    BY <1>2 DEF Execution!Strike
  <2> QED BY <2>1
<1> QED BY <1>1, <1>2

LEMMA StartEnds ==
    ASSUME ExecutionInv, NEW i \in Execution!Links, Execution!Start(i)
    PROVE  Begun' /\ Execution!InterruptionLasts'
<1>1. step[i] = "resolving" /\ UNCHANGED <<kind, controller, caller, signals, called, expired>>
  BY DEF Execution!Start
<1>2. PICK own \in IF kind[i] = "own" THEN {"none", "running"} ELSE {"none"},
           chain \in IF i = 1 THEN {"none", "running"} ELSE {chainTimer} :
          LET ts == [timeout EXCEPT ![i] = own] IN
          IF Execution!Signalled(i, controller, caller, chain, ts, signals)
          THEN Execution!SettleWith(i, "interrupted", chain, ts) /\ queued' = queued
          ELSE /\ step' = [step EXCEPT ![i] = "running"] /\ queued' = {i}
               /\ chainTimer' = chain /\ timeout' = ts
               /\ UNCHANGED <<cleaned, gives>>
  BY DEF Execution!Start
<1> DEFINE ts == [timeout EXCEPT ![i] = own]
<1>3. own \in Execution!Timer /\ own # "fired"
  BY <1>2 DEF Execution!Timer
<1>4. ts \in [Execution!Links -> Execution!Timer] /\ ts[i] = own
      /\ \A j \in Execution!Links : j # i => ts[j] = timeout[j]
  BY <1>3 DEF ExecutionInv, LinksInv, Execution!TypeOK
<1>5. CASE Execution!Signalled(i, controller, caller, chain, ts, signals)
  <2>1. Execution!SettleWith(i, "interrupted", chain, ts) /\ queued' = queued
    BY <1>2, <1>5
  <2>2. step' = [step EXCEPT ![i] = "settled"]
    BY <2>1 DEF Execution!SettleWith
  <2>3. step'[i] = "settled"
    BY <2>2 DEF ExecutionInv, LinksInv, Execution!TypeOK
  <2> HIDE DEF ts
  <2>4. NoneBegins
    BY <1>1, <1>3, <1>4, <2>1, <2>3, SettlingBegins DEF NoneBegins, ExecutionInv
  <2> QED BY <2>4, EndKept
<1>6. CASE ~Execution!Signalled(i, controller, caller, chain, ts, signals)
  <2>1. /\ step' = [step EXCEPT ![i] = "running"] /\ queued' = {i} /\ timeout' = ts
    BY <1>2, <1>6
  <2> HIDE DEF ts
  <2>2. step'[i] = "running" /\ \A j \in Execution!Links : j # i => step'[j] = step[j]
    BY <2>1 DEF ExecutionInv, LinksInv, Execution!TypeOK
  <2>3. Begun'
    BY <1>1, <1>4, <2>1, <2>2 DEF ExecutionInv, Begun
  <2>4. Execution!InterruptionLasts'
    <3> SUFFICES ASSUME NEW j \in Execution!Links, j \in controller \/ timeout'[j] = "fired",
                        j < Length, kind[j + 1] \in {"null", "throw"},
                        NEW k \in Execution!Links, k > j
                 PROVE  k # i /\ k \notin called
      BY <1>1, <2>1 DEF Execution!InterruptionLasts
    <3>1. j \in controller \/ timeout[j] = "fired"
      BY <1>3, <1>4, <2>1
    <3>2. k \notin called
      BY <3>1 DEF ExecutionInv, Execution!InterruptionLasts
    <3>3. CASE k = i
      <4>1. j \in Execution!Heeds(i)
        BY <3>3, ExecutionAssumption DEF Execution!Heeds, Execution!Links
      <4>2. j \in controller \/ ts[j] = "fired"
        BY <2>1
      <4> QED BY <1>6, <4>1, <4>2 DEF Execution!Signalled
    <3> QED BY <3>2, <3>3
  <2> QED BY <2>3, <2>4
<1> QED BY <1>5, <1>6

LEMMA DecideEnds ==
    ASSUME ExecutionInv, NEW i \in Execution!Links \ {1}, Execution!Decide(i)
    PROVE  Begun' /\ Execution!InterruptionLasts'
<1>1. PICK k \in {"own", "null", "throw"} : kind' = [kind EXCEPT ![i] = k]
  BY DEF Execution!Decide
<1>2. /\ step[i] = "waiting" /\ step' = [step EXCEPT ![i] = "resolving"] /\ queued = {}
      /\ UNCHANGED <<controller, timeout, queued, called>>
  BY DEF Execution!Decide
<1>3. /\ step'[i] = "resolving" /\ \A j \in Execution!Links : j # i => step'[j] = step[j]
      /\ \A j \in Execution!Links : j # i => kind'[j] = kind[j]
  BY <1>1, <1>2 DEF ExecutionInv, LinksInv, Execution!TypeOK
<1>4. i \notin queued \cup called /\ timeout[i] = "none"
  BY <1>2 DEF ExecutionInv, Begun
<1>5. Begun'
  BY <1>2, <1>3, <1>4 DEF ExecutionInv, Begun
<1>6. Execution!InterruptionLasts'
  <2> SUFFICES ASSUME NEW j \in Execution!Links, j \in controller \/ timeout[j] = "fired",
                      j < Length, kind'[j + 1] \in {"null", "throw"},
                      NEW m \in Execution!Links, m > j
               PROVE  m \notin called
    BY <1>2 DEF Execution!InterruptionLasts
  <2>1. Length \in Nat /\ j \in Nat /\ m \in Nat /\ i \in Nat /\ Execution!Links = 1..Length
    BY ExecutionAssumption DEF Execution!Links
  <2>2. CASE j + 1 # i
    BY <1>3, <2>1, <2>2 DEF ExecutionInv, Execution!InterruptionLasts
  <2>3. CASE j + 1 = i
    <3>1. m = i \/ i \in 1..(m - 1)
      BY <2>1, <2>3
    <3>2. m # i => step[m] \notin {"running", "settled"}
      BY <1>2, <3>1 DEF ExecutionInv, LinksInv, StopsInTurn, Execution!InTurn
    <3> QED BY <1>4, <3>2 DEF ExecutionInv, Begun
  <2> QED BY <2>2, <2>3
<1> QED BY <1>5, <1>6

LEMMA ExecuteEnds ==
    ASSUME ExecutionInv, NEW i \in Execution!Links, Execution!Execute(i)
    PROVE  Begun' /\ Execution!InterruptionLasts'
<1>1. /\ step' = [j \in Execution!Links |->
                    IF j > i \/ step[j] # "idle" THEN step[j]
                    ELSE IF j = 1 THEN "resolving" ELSE "waiting"]
      /\ kind' = [kind EXCEPT ![1] = "own"] /\ UNCHANGED <<controller, timeout, queued, called>>
  BY DEF Execution!Execute
<1>2. Length \in Nat /\ Execution!Links = 1..Length
  BY ExecutionAssumption DEF Execution!Links
<1>3. \A j \in Execution!Links : step[j] # "idle" => step'[j] = step[j]
  BY <1>1
<1>4. \A j \in Execution!Links : j > 1 => kind'[j] = kind[j]
  BY <1>1, <1>2 DEF ExecutionInv, LinksInv, Execution!TypeOK
<1>5. Begun'
  BY <1>1, <1>3, <1>4 DEF ExecutionInv, Begun
<1>6. \A j \in Execution!Links : j < Length => kind'[j + 1] = kind[j + 1]
  BY <1>2, <1>4
<1>7. Execution!InterruptionLasts'
  BY <1>1, <1>6 DEF ExecutionInv, Execution!InterruptionLasts
<1> QED BY <1>5, <1>7

(* Of the other steps. *)
LEMMA StruckEnds ==
    ASSUME ExecutionInv,
           \/ Execution!CallerAborts \/ Execution!Expire \/ Execution!Call
           \/ \E i \in Execution!Links : \/ Execution!End(i) \/ Execution!Abort(i)
                                         \/ Execution!SignalAborts(i) \/ Execution!TimerFires(i)
    PROVE  Begun' /\ Execution!InterruptionLasts'
<1>0. chainTimer \in Execution!Timer /\ timeout \in [Execution!Links -> Execution!Timer] /\ LinksInv
  BY DEF ExecutionInv, LinksInv, Execution!TypeOK
<1>1. ASSUME Execution!CallerAborts PROVE NoneBegins
  <2>1. /\ UNCHANGED <<kind, controller, queued, called>>
        /\ Execution!Strike(controller, TRUE, chainTimer, timeout, signals)
    BY <1>1 DEF Execution!CallerAborts
  <2> QED BY <1>0, <2>1, StrikeBegins DEF NoneBegins
<1>2. ASSUME Execution!Expire PROVE NoneBegins
  <2>1. UNCHANGED <<kind, controller, queued, called>>
    BY <1>2 DEF Execution!Expire
  <2>2. CASE chainTimer = "running"
    <3>1. Execution!Strike(controller, caller, "fired", timeout, signals)
      BY <1>2, <2>2 DEF Execution!Expire
    <3> QED BY <1>0, <2>1, <3>1, StrikeBegins DEF NoneBegins
  <2>3. CASE chainTimer # "running"
    BY <1>2, <2>1, <2>3 DEF Execution!Expire, NoneBegins
  <2> QED BY <2>2, <2>3
<1>3. ASSUME Execution!Call PROVE NoneBegins
  BY <1>3 DEF Execution!Call, NoneBegins
<1>4. ASSUME NEW i \in Execution!Links, Execution!End(i)
      PROVE  NoneBegins
  <2>1. PICK ending : Execution!SettleWith(i, ending, chainTimer, timeout)
    BY <1>4 DEF Execution!End
  <2>2. step[i] = "running" /\ UNCHANGED <<kind, controller, queued, called>>
    BY <1>4 DEF Execution!End
  <2> QED BY <1>0, <2>1, <2>2, SettlingBegins DEF NoneBegins
<1>5. ASSUME NEW i \in Execution!Links, Execution!Abort(i)
      PROVE  NoneBegins
  <2> DEFINE live == {j \in Execution!Reach(i) : step[j] = "running"}
             touched == UNION {Execution!CleanupReaches(j) : j \in live}
             ts == [j \in Execution!Links |-> IF j \in touched THEN Execution!Cancelled(timeout[j])
                                                              ELSE timeout[j]]
             chain == IF 1 \in touched THEN Execution!Cancelled(chainTimer) ELSE chainTimer
  <2>1. /\ controller' = controller \cup Execution!Reach(i)
        /\ Execution!Strike(controller', caller, chain, ts, signals)
        /\ UNCHANGED <<kind, queued, called>>
    BY <1>5 DEF Execution!Abort
  <2> HIDE DEF touched, chain
  <2>2. /\ ts \in [Execution!Links -> Execution!Timer]
        /\ \A j \in Execution!Links : /\ ts[j] = "none" <=> timeout[j] = "none"
                                      /\ ts[j] = "fired" <=> timeout[j] = "fired"
    BY <1>0 DEF Execution!Timer, Execution!Cancelled
  <2> HIDE DEF ts
  <2>3. \A j \in Execution!Reach(i) : step[j] # "settled"
    BY ExecutionAssumption DEF Execution!Reach, Execution!Links
  <2> QED BY <1>0, <2>1, <2>2, <2>3, StrikeBegins DEF NoneBegins
<1>6. ASSUME NEW i \in Execution!Links, Execution!SignalAborts(i)
      PROVE  NoneBegins
  BY <1>0, <1>6, StrikeBegins DEF Execution!SignalAborts, NoneBegins
<1>7. ASSUME NEW i \in Execution!Links, Execution!TimerFires(i)
      PROVE  NoneBegins
  <2> DEFINE ts == [timeout EXCEPT ![i] = "fired"]
  <2>1. /\ timeout[i] = "running" /\ UNCHANGED <<kind, controller, queued, called>>
        /\ Execution!Strike(controller, caller, chainTimer, ts, signals)
    BY <1>7 DEF Execution!TimerFires
  <2>2. /\ ts \in [Execution!Links -> Execution!Timer] /\ ts[i] = "fired"
        /\ \A j \in Execution!Links : j # i => ts[j] = timeout[j]
    BY <1>0 DEF Execution!Timer
  <2> HIDE DEF ts
  <2>3. step[i] # "settled"
    BY <2>1, ExecutionAssumption
       DEF ExecutionInv, LinksInv, StopsInTurn, Execution!CleanedUp, Execution!Links
  <2> QED BY <1>0, <2>1, <2>2, <2>3, StrikeBegins DEF NoneBegins
<1> QED BY <1>1, <1>2, <1>3, <1>4, <1>5, <1>6, <1>7, EndKept

LEMMA ExecutionStarts == Execution!Init => ExecutionInv
BY LinksStart DEF Execution!Init, ExecutionInv, Begun, Execution!InterruptionLasts

LEMMA ExecutionStays ==
    ASSUME ExecutionInv, UNCHANGED execution
    PROVE  ExecutionInv' /\ Execution!NoLateCall
<1>1. LinksInv'
  BY DEF execution, ExecutionInv, LinksInv, ExecutionStands, StopsInTurn, Execution!TypeOK,
         Execution!AbortReachesBack, Execution!CleanedUp, Execution!InTurn, Execution!Links,
         Execution!Timer
<1>2. NoneBegins
  BY DEF execution, NoneBegins
<1>3. UNCHANGED <<queued, called>>
  BY DEF execution
<1> QED BY <1>1, <1>2, <1>3, EndKept, NoneCalled DEF ExecutionInv

LEMMA ExecutionSteps ==
    ASSUME ExecutionInv, Execution!Next
    PROVE  ExecutionInv' /\ Execution!NoLateCall
<1>1. LinksInv' /\ Execution!NoLateCall
  BY LinksStep DEF ExecutionInv
<1>2. Begun' /\ Execution!InterruptionLasts'
  BY StartEnds, DecideEnds, ExecuteEnds, StruckEnds DEF Execution!Next
<1> QED BY <1>1, <1>2 DEF ExecutionInv

-----------------------------------------------------------------------------
(* event/index.ts, and fromEmitter of generator/index.ts *)

(* An emission in progress.                                                *)
Emission ==
    [event : Events!Events, rest : SUBSET Events!Kinds, start : SUBSET Events!Kinds, inside : BOOLEAN]

(* Emissions in progress are in the order in which they began, and what    *)
(* has been delivered belongs to one that began.                           *)
EmissionsFit ==
    /\ stack \in Seq(Emission) /\ emitted \in 0..MaxEvents
    /\ delivered \in [Events!Kinds -> Seq(Events!Events)]
    /\ \A i \in 1..Len(stack) : stack[i].event <= emitted /\ stack[i].rest \subseteq stack[i].start
    /\ \A i, j \in 1..Len(stack) : i < j => stack[i].event < stack[j].event
    /\ \A k \in Events!Kinds : \A i \in 1..Len(delivered[k]) : delivered[k][i] <= emitted
    /\ Events!EachOnce

(* Only emissions that were going on when it closed still call a readable. *)
ReadableFits ==
    /\ readable = "closed" => "readable" \notin listeners
    /\ readable # "unset" => place["readable"] # 0
    /\ \A i \in 1..Len(stack) :
          readable = "closed" /\ "readable" \in stack[i].rest => stack[i].event \in closedIn
    /\ Events!FailsForAReason

(* The reads that have been answered come first; those after them wait, in *)
(* their order, or found the iterator over.                                *)
AnsweredFirst == Len(delivered["iterator"]) - Len(inbox)

ReadsFit ==
    /\ AnsweredFirst \in 0..Len(reads)
    /\ \A i \in 1..Len(reads) :
          reads[i] = IF i <= AnsweredFirst THEN delivered["iterator"][i]
                     ELSE IF isDone THEN Events!Over ELSE Events!Pending
    /\ \A i \in 1..Len(inbox) : inbox[i] = delivered["iterator"][AnsweredFirst + i]
    /\ IF isDone THEN pending = <<>>
       ELSE /\ Len(pending) = Len(reads) - AnsweredFirst
            /\ \A i \in 1..Len(pending) : pending[i] = AnsweredFirst + i
    /\ pending # <<>> => inbox = <<>>

(* What an emission or a call makes of the emissions and of what was       *)
(* delivered.                                                              *)
LEMMA EmissionsKept ==
    ASSUME EmissionsFit, UNCHANGED <<stack, emitted, delivered>>
    PROVE  EmissionsFit'
BY DEF EmissionsFit, Events!EachOnce, Events!Got

(* A new emission has the greatest number.                                 *)
LEMMA EmissionBegins ==
    ASSUME EmissionsFit, Events!Emit, listeners \subseteq Events!Kinds
    PROVE  EmissionsFit'
<1> USE EventsAssumption DEF EmissionsFit, Events!Emit
<1> DEFINE new == [event |-> emitted + 1, rest |-> listeners, start |-> listeners, inside |-> FALSE]
<1>1. new \in Emission /\ emitted' = emitted + 1 /\ emitted \in Nat /\ emitted' \in 0..MaxEvents /\ delivered' = delivered
  BY DEF Emission, Events!Events
<1>2. /\ stack' \in Seq(Emission) /\ Len(stack') = Len(stack) + 1 /\ stack'[Len(stack) + 1] = new
      /\ \A i \in 1..Len(stack) : stack'[i] = stack[i]
      /\ Len(stack) \in Nat
  <2> HIDE DEF new
  <2>1. stack' = Append(stack, new) /\ stack \in Seq(Emission)
    BY DEF new
  <2> QED BY <1>1, <2>1, AppendProperties, LenProperties
<1>3. \A i \in 1..Len(stack') : i \in 1..Len(stack) \/ i = Len(stack) + 1
  BY <1>2
<1>4. \A i \in 1..Len(stack) : stack[i] \in Emission /\ stack[i].event \in Nat
  <2>1. \A i \in 1..Len(stack) : stack[i] \in Emission
    BY ElementOfSeq
  <2> QED BY <2>1 DEF Emission, Events!Events
<1>5. new.event = emitted + 1 /\ new.rest = listeners /\ new.start = listeners
  OBVIOUS
<1> HIDE DEF new
<1>6. \A i \in 1..Len(stack') : stack'[i].event <= emitted' /\ stack'[i].rest \subseteq stack'[i].start
  BY <1>1, <1>2, <1>3, <1>4, <1>5
<1>7. \A i, j \in 1..Len(stack') : i < j => stack'[i].event < stack'[j].event
  BY <1>1, <1>2, <1>3, <1>4, <1>5
<1>8. \A k \in Events!Kinds : /\ delivered[k] \in Seq(Events!Events) /\ DOMAIN delivered[k] = 1..Len(delivered[k])
                              /\ \A i \in 1..Len(delivered[k]) : delivered[k][i] \in Nat /\ delivered[k][i] <= emitted
  <2> SUFFICES ASSUME NEW k \in Events!Kinds
               PROVE /\ delivered[k] \in Seq(Events!Events) /\ DOMAIN delivered[k] = 1..Len(delivered[k])
                     /\ \A i \in 1..Len(delivered[k]) : delivered[k][i] \in Nat /\ delivered[k][i] <= emitted
    OBVIOUS
  <2>1. delivered[k] \in Seq(Events!Events)
    OBVIOUS
  <2>2. \A i \in 1..Len(delivered[k]) : delivered[k][i] \in Events!Events
    BY <2>1, ElementOfSeq
  <2> QED BY <2>1, <2>2, LenProperties DEF Events!Events
<1>9. \A k \in Events!Kinds : \A i \in 1..Len(delivered'[k]) : delivered'[k][i] <= emitted'
  BY <1>1, <1>8
<1>10. Events!EachOnce'
  <2>1. \A k \in Events!Kinds : emitted + 1 \notin Events!Got(k)
    BY <1>1, <1>8 DEF Events!Got
  <2>2. \A k \in Events!Kinds : Events!Got(k)' = Events!Got(k)
    BY <1>1 DEF Events!Got
  <2>3. DOMAIN stack' = 1..Len(stack') /\ DOMAIN stack = 1..Len(stack)
    BY <1>2, LenProperties
  <2>4. ASSUME NEW i \in 1..Len(stack'), NEW k \in Events!Kinds
        PROVE  stack'[i].event \in Events!Got(k) <=> k \in stack'[i].start \ stack'[i].rest
    <3>1. CASE i = Len(stack) + 1
      BY <1>2, <1>5, <2>1, <3>1
    <3>2. CASE i \in 1..Len(stack)
      BY <1>2, <2>3, <3>2 DEF Events!EachOnce
    <3> QED BY <1>3, <3>1, <3>2
  <2> QED BY <1>1, <2>2, <2>3, <2>4 DEF Events!EachOnce
<1> QED BY <1>1, <1>2, <1>6, <1>7, <1>9, <1>10

(* The innermost emission is one of those in progress.                     *)
LEMMA TopTyped ==
    ASSUME EmissionsFit, stack # <<>>
    PROVE  /\ Len(stack) \in Nat /\ Len(stack) > 0 /\ DOMAIN stack = 1..Len(stack)
           /\ Events!Top = stack[Len(stack)] /\ Events!Top \in Emission
           /\ \A i \in 1..Len(stack) : stack[i] \in Emission /\ stack[i].event \in Nat
<1>1. stack \in Seq(Emission)
  BY DEF EmissionsFit
<1>2. Len(stack) \in Nat /\ Len(stack) > 0 /\ DOMAIN stack = 1..Len(stack)
  BY <1>1, LenProperties, EmptySeq
<1>3. \A i \in 1..Len(stack) : stack[i] \in Emission
  BY <1>1, ElementOfSeq
<1> QED BY <1>2, <1>3 DEF Events!Top, Emission, Events!Events

(* The return of a listener leaves the lists of the emissions alone.       *)
LEMMA ListenerReturns ==
    ASSUME EmissionsFit, Events!UserReturns
    PROVE  EmissionsFit'
<1>1. stack # <<>> /\ stack' = [stack EXCEPT ![Len(stack)].inside = FALSE] /\ delivered' = delivered /\ emitted' = emitted
  BY DEF Events!UserReturns
<1>2. /\ stack \in Seq(Emission) /\ Len(stack) \in Nat /\ Len(stack) > 0 /\ DOMAIN stack = 1..Len(stack)
      /\ \A i \in 1..Len(stack) : stack[i] \in Emission
  BY <1>1, TopTyped DEF EmissionsFit
<1> DEFINE top == [stack[Len(stack)] EXCEPT !.inside = FALSE]
<1>3. /\ top \in Emission /\ top.event = stack[Len(stack)].event /\ top.rest = stack[Len(stack)].rest
      /\ top.start = stack[Len(stack)].start
  <2> DEFINE old == stack[Len(stack)]
  <2>1. old \in Emission
    BY <1>2
  <2>2. top = [old EXCEPT !.inside = FALSE]
    OBVIOUS
  <2> HIDE DEF old, top
  <2>3. /\ top \in Emission /\ top.event = old.event /\ top.rest = old.rest
        /\ top.start = old.start
    BY <2>1, <2>2 DEF Emission
  <2> QED BY <2>3 DEF old
<1>4. stack' = [stack EXCEPT ![Len(stack)] = top]
  BY <1>1, <1>2
<1> HIDE DEF top
<1>5. stack' \in Seq(Emission) /\ Len(stack') = Len(stack) /\ DOMAIN stack' = DOMAIN stack
  BY <1>2, <1>3, <1>4, ExceptSeq
<1>6. \A i \in 1..Len(stack) : /\ stack'[i].event = stack[i].event /\ stack'[i].rest = stack[i].rest
                              /\ stack'[i].start = stack[i].start
  BY <1>2, <1>3, <1>4
<1> QED BY <1>1, <1>2, <1>5, <1>6 DEF EmissionsFit, Events!EachOnce, Events!Got

(* An emission that ends was the innermost.                                *)
LEMMA EmissionOver ==
    ASSUME EmissionsFit, Events!EmissionEnds
    PROVE  EmissionsFit' /\ \A i \in 1..Len(stack') : i \in 1..Len(stack) /\ stack'[i] = stack[i]
<1>1. /\ stack # <<>> /\ stack' = SubSeq(stack, 1, Len(stack) - 1)
      /\ delivered' = delivered /\ emitted' = emitted
  BY DEF Events!EmissionEnds
<1>2. /\ stack \in Seq(Emission) /\ Len(stack) \in Nat /\ Len(stack) > 0 /\ DOMAIN stack = 1..Len(stack)
  BY <1>1, TopTyped DEF EmissionsFit
<1>3. /\ stack' \in Seq(Emission) /\ Len(stack') = Len(stack) - 1
      /\ \A i \in 1..(Len(stack) - 1) : stack'[i] = stack[i]
  BY <1>1, <1>2, SubSeqProperties
<1>4. DOMAIN stack' = 1..Len(stack') /\ \A i \in 1..Len(stack') : i \in 1..Len(stack) /\ stack'[i] = stack[i]
  BY <1>2, <1>3, LenProperties
<1>5. EmissionsFit'
  <2>1. Events!EachOnce'
    BY <1>1, <1>2, <1>4 DEF EmissionsFit, Events!EachOnce, Events!Got
  <2>2. /\ \A i \in 1..Len(stack') : stack'[i].event <= emitted' /\ stack'[i].rest \subseteq stack'[i].start
        /\ \A i, j \in 1..Len(stack') : i < j => stack'[i].event < stack'[j].event
    BY <1>1, <1>4 DEF EmissionsFit
  <2> QED BY <1>1, <1>3, <2>1, <2>2 DEF EmissionsFit
<1> QED BY <1>4, <1>5

(* A call: its listener has the event then, and no other has.              *)
LEMMA ListenerCalled ==
    ASSUME EmissionsFit, NEW k \in Events!Kinds, NEW inside \in BOOLEAN, Events!Calls(k, inside),
           emitted' = emitted
    PROVE  /\ EmissionsFit'
           /\ Events!Top.event \in Events!Events /\ k \in Events!Top.rest
           /\ delivered[k] \in Seq(Events!Events) /\ delivered'[k] = Append(delivered[k], Events!Top.event)
           /\ \A l \in Events!Kinds : l # k => delivered'[l] = delivered[l]
           /\ Len(stack') = Len(stack)
           /\ \A i \in 1..Len(stack) : /\ stack'[i].event = stack[i].event
                                       /\ stack'[i].rest \subseteq stack[i].rest
<1>1. /\ stack # <<>> /\ k \in Events!Top.rest
      /\ delivered' = [delivered EXCEPT ![k] = Append(@, Events!Top.event)]
      /\ stack' = [stack EXCEPT ![Len(stack)].rest = @ \ {k}, ![Len(stack)].inside = inside]
  BY DEF Events!Calls
<1>2. /\ stack \in Seq(Emission) /\ Len(stack) \in Nat /\ Len(stack) > 0 /\ DOMAIN stack = 1..Len(stack)
      /\ Events!Top = stack[Len(stack)] /\ Events!Top \in Emission
      /\ \A i \in 1..Len(stack) : stack[i] \in Emission /\ stack[i].event \in Nat
  BY <1>1, TopTyped DEF EmissionsFit
<1> DEFINE top == [stack[Len(stack)] EXCEPT !.rest = @ \ {k}, !.inside = inside]
           e == Events!Top.event
<1>3. /\ top \in Emission /\ top.event = stack[Len(stack)].event /\ top.rest = stack[Len(stack)].rest \ {k}
      /\ top.start = stack[Len(stack)].start
  BY <1>2 DEF Emission
<1>4. stack' = [stack EXCEPT ![Len(stack)] = top]
  BY <1>1, <1>2
<1>5. e \in Events!Events /\ e \in Nat /\ e = stack[Len(stack)].event /\ e <= emitted
  BY <1>2 DEF Emission, Events!Events, EmissionsFit
<1> HIDE DEF top
<1>6. stack' \in Seq(Emission) /\ Len(stack') = Len(stack) /\ DOMAIN stack' = DOMAIN stack
  BY <1>2, <1>3, <1>4, ExceptSeq
<1>7. /\ \A i \in 1..Len(stack) : i # Len(stack) => stack'[i] = stack[i]
      /\ stack'[Len(stack)] = top
  <2>1. stack' = [i \in 1..Len(stack) |-> IF i = Len(stack) THEN top ELSE stack[i]]
    BY <1>2, <1>4, Zenon
  <2>2. Len(stack) \in 1..Len(stack)
    BY <1>2
  <2> QED BY <2>1, <2>2
<1>8. \A i \in 1..Len(stack) : /\ stack'[i].event = stack[i].event /\ stack'[i].rest \subseteq stack[i].rest
                              /\ stack'[i].start = stack[i].start
  BY <1>2, <1>3, <1>7
<1>9. delivered \in [Events!Kinds -> Seq(Events!Events)] /\ delivered[k] \in Seq(Events!Events)
  BY DEF EmissionsFit
<1>10. /\ delivered'[k] = Append(delivered[k], e)
       /\ \A l \in Events!Kinds : l # k => delivered'[l] = delivered[l]
       /\ delivered' \in [Events!Kinds -> Seq(Events!Events)]
  BY <1>1, <1>5, <1>9, AppendProperties
<1> HIDE DEF e
<1>11. /\ Len(delivered'[k]) = Len(delivered[k]) + 1 /\ Len(delivered[k]) \in Nat
       /\ DOMAIN delivered[k] = 1..Len(delivered[k]) /\ DOMAIN delivered'[k] = 1..(Len(delivered[k]) + 1)
       /\ delivered'[k][Len(delivered[k]) + 1] = e
       /\ \A i \in 1..Len(delivered[k]) : delivered'[k][i] = delivered[k][i]
  BY <1>5, <1>9, <1>10, AppendProperties, LenProperties
<1>12. Events!Got(k)' = Events!Got(k) \cup {e}
  <2>1. Events!Got(k)' = {delivered'[k][i] : i \in 1..(Len(delivered[k]) + 1)}
    BY <1>11 DEF Events!Got
  <2>2. Events!Got(k) = {delivered[k][i] : i \in 1..Len(delivered[k])}
    BY <1>11 DEF Events!Got
  <2>3. \A i \in 1..(Len(delivered[k]) + 1) : i \in 1..Len(delivered[k]) \/ i = Len(delivered[k]) + 1
    BY <1>11
  <2>4. Len(delivered[k]) + 1 \in 1..(Len(delivered[k]) + 1) /\ \A i \in 1..Len(delivered[k]) : i \in 1..(Len(delivered[k]) + 1)
    BY <1>11
  <2> QED BY <1>11, <2>1, <2>2, <2>3, <2>4
<1>13. \A l \in Events!Kinds : l # k => Events!Got(l)' = Events!Got(l)
  BY <1>10 DEF Events!Got
<1>14. e \notin Events!Got(k)
  BY <1>1, <1>2, <1>5 DEF EmissionsFit, Events!EachOnce
<1>15. \A l \in Events!Kinds : \A i \in 1..Len(delivered'[l]) : delivered'[l][i] <= emitted'
  <2> SUFFICES ASSUME NEW l \in Events!Kinds, NEW i \in 1..Len(delivered'[l]) PROVE delivered'[l][i] <= emitted
    OBVIOUS
  <2>1. CASE l # k
    BY <1>10, <2>1 DEF EmissionsFit
  <2>2. CASE l = k /\ i \in 1..Len(delivered[k])
    BY <1>11, <2>2 DEF EmissionsFit
  <2>3. CASE l = k /\ i = Len(delivered[k]) + 1
    BY <1>5, <1>11, <2>3
  <2> QED BY <1>11, <2>1, <2>2, <2>3
<1>16. Events!EachOnce'
  <2>1. ASSUME NEW l \in Events!Kinds, NEW i \in DOMAIN delivered'[l], NEW j \in DOMAIN delivered'[l],
               delivered'[l][i] = delivered'[l][j]
        PROVE  i = j
    <3>1. CASE l # k
      BY <1>10, <2>1, <3>1 DEF EmissionsFit, Events!EachOnce
    <3>2. CASE l = k
      <4>1. i \in 1..(Len(delivered[k]) + 1) /\ j \in 1..(Len(delivered[k]) + 1)
        BY <1>11, <3>2
      <4>2. \A n \in 1..Len(delivered[k]) : delivered[k][n] # e
        BY <1>11, <1>14 DEF Events!Got
      <4>3. CASE i \in 1..Len(delivered[k]) /\ j \in 1..Len(delivered[k])
        BY <1>11, <2>1, <3>2, <4>3 DEF EmissionsFit, Events!EachOnce
      <4> QED BY <1>11, <2>1, <3>2, <4>1, <4>2, <4>3
    <3> QED BY <3>1, <3>2
  <2>2. ASSUME NEW i \in 1..Len(stack), NEW l \in Events!Kinds
        PROVE  stack'[i].event \in Events!Got(l)' <=> l \in stack'[i].start \ stack'[i].rest
    <3>1. stack[i].event \in Events!Got(l) <=> l \in stack[i].start \ stack[i].rest
      BY <1>2 DEF EmissionsFit, Events!EachOnce
    <3>2. CASE i = Len(stack) /\ l = k
      BY <1>1, <1>2, <1>3, <1>5, <1>7, <1>12, <3>2 DEF EmissionsFit
    <3>3. CASE i = Len(stack) /\ l # k
      BY <1>2, <1>3, <1>7, <1>13, <3>1, <3>3
    <3>4. CASE i # Len(stack)
      <4>1. stack[i].event < e
        <5>1. i < Len(stack) /\ Len(stack) \in 1..Len(stack)
          <6>1. Len(stack) \in Nat /\ Len(stack) > 0 /\ i \in 1..Len(stack)
            BY <1>2, <2>2
          <6> QED BY <3>4, <6>1
        <5> QED BY <1>5, <5>1 DEF EmissionsFit
      <4>2. stack[i].event # e
        BY <1>2, <1>5, <4>1
      <4> QED BY <1>7, <1>12, <1>13, <3>1, <3>4, <4>2
    <3> QED BY <3>2, <3>3, <3>4
  <2> QED BY <1>2, <1>6, <2>1, <2>2 DEF Events!EachOnce
<1>17. EmissionsFit'
  <2>1. /\ \A i \in 1..Len(stack') : stack'[i].event <= emitted' /\ stack'[i].rest \subseteq stack'[i].start
        /\ \A i, j \in 1..Len(stack') : i < j => stack'[i].event < stack'[j].event
    BY <1>6, <1>8 DEF EmissionsFit
  <2>2. emitted' \in 0..MaxEvents
    BY DEF EmissionsFit
  <2> QED BY <1>6, <1>10, <1>15, <1>16, <2>1, <2>2 DEF EmissionsFit
<1> QED BY <1>1, <1>5, <1>6, <1>8, <1>9, <1>10, <1>17 DEF e

(* The reads of the iterator.                                              *)
IteratorFits ==
    /\ isDone \in BOOLEAN /\ inbox \in Seq(Events!Events) /\ pending \in Seq(1..MaxReads)
    /\ reads \in Seq(Events!Events \cup {Events!Pending, Events!Over}) /\ Len(reads) <= MaxReads
    /\ ReadsFit

(* Who does not call or read the iterator leaves its reads as they are.    *)
LEMMA IteratorKept ==
    ASSUME IteratorFits, UNCHANGED <<isDone, inbox, pending, reads>>,
           delivered'["iterator"] = delivered["iterator"]
    PROVE  IteratorFits'
BY DEF IteratorFits, ReadsFit, AnsweredFirst, Events!Over, Events!Pending, Events!Events

(* A call answers the read that waits longest, or is kept.                 *)
LEMMA IteratorCalled ==
    ASSUME IteratorFits, EmissionsFit, Events!CallIterator
    PROVE  IteratorFits'
<1> DEFINE heard == delivered["iterator"]
           e == Events!Top.event
<1>1. /\ heard \in Seq(Events!Events) /\ e \in Events!Events /\ delivered'["iterator"] = Append(heard, e)
  BY ListenerCalled DEF Events!CallIterator, Events!Kinds
<1>2. /\ isDone' = isDone
      /\ IF pending = <<>>
         THEN inbox' = Append(inbox, e) /\ pending' = pending /\ reads' = reads
         ELSE /\ reads' = [reads EXCEPT ![Head(pending)] = e]
              /\ pending' = Tail(pending) /\ inbox' = inbox
  BY DEF Events!CallIterator
<1>3. /\ inbox \in Seq(Events!Events) /\ pending \in Seq(1..MaxReads)
      /\ reads \in Seq(Events!Events \cup {Events!Pending, Events!Over})
      /\ Len(heard) \in Nat /\ Len(inbox) \in Nat /\ Len(pending) \in Nat /\ Len(reads) \in Nat
  BY <1>1, LenProperties DEF IteratorFits
<1> DEFINE m == AnsweredFirst
<1>4. m = Len(heard) - Len(inbox) /\ m \in 0..Len(reads) /\ m \in Nat
  BY <1>3 DEF AnsweredFirst, IteratorFits, ReadsFit
<1>5. /\ Len(delivered'["iterator"]) = Len(heard) + 1 /\ delivered'["iterator"][Len(heard) + 1] = e
      /\ \A i \in 1..Len(heard) : delivered'["iterator"][i] = heard[i]
  BY <1>1, AppendProperties
<1>6. /\ \A i \in 1..Len(reads) :
            reads[i] = IF i <= m THEN heard[i] ELSE IF isDone THEN Events!Over ELSE Events!Pending
      /\ \A i \in 1..Len(inbox) : inbox[i] = heard[m + i]
  BY DEF IteratorFits, ReadsFit
<1> HIDE DEF e, m
<1>7. CASE pending = <<>>
  <2>1. /\ inbox' \in Seq(Events!Events) /\ Len(inbox') = Len(inbox) + 1 /\ inbox'[Len(inbox) + 1] = e
        /\ \A i \in 1..Len(inbox) : inbox'[i] = inbox[i]
    <3>1. inbox' = Append(inbox, e) /\ e \in Events!Events /\ inbox \in Seq(Events!Events)
      BY <1>1, <1>2, <1>3, <1>7
    <3> QED BY <3>1, AppendProperties
  <2>2. AnsweredFirst' = m
    BY <1>3, <1>4, <1>5, <2>1 DEF AnsweredFirst
  <2>3. \A i \in 1..Len(reads) : i <= m => delivered'["iterator"][i] = heard[i]
    <3> HIDE DEF heard
    <3>1. m <= Len(heard) /\ m \in Nat /\ Len(heard) \in Nat /\ Len(reads) \in Nat
      BY <1>3, <1>4
    <3>2. \A i \in 1..Len(reads) : i <= m => i \in 1..Len(heard)
      BY <3>1
    <3> QED BY <1>5, <3>2
  <2>4. \A i \in 1..Len(inbox') : inbox'[i] = delivered'["iterator"][m + i]
    <3> SUFFICES ASSUME NEW i \in 1..Len(inbox') PROVE inbox'[i] = delivered'["iterator"][m + i]
      OBVIOUS
    <3>1. CASE i = Len(inbox) + 1
      <4>1. m + i = Len(heard) + 1
        <5> HIDE DEF heard
        <5>1. m = Len(heard) - Len(inbox) /\ Len(heard) \in Nat /\ Len(inbox) \in Nat /\ m \in Nat
          BY <1>3, <1>4
        <5>2. m + (Len(inbox) + 1) = Len(heard) + 1
          BY <5>1
        <5> QED BY <3>1, <5>2
      <4> QED BY <1>5, <2>1, <3>1, <4>1
    <3>2. CASE i \in 1..Len(inbox)
      <4>1. m + i \in 1..Len(heard)
        BY <1>3, <1>4, <3>2
      <4> QED BY <1>5, <1>6, <2>1, <3>2, <4>1
    <3> QED BY <1>3, <2>1, <3>1, <3>2
  <2>5. ReadsFit'
    <3>1. \A i \in 1..Len(reads') :
            reads'[i] = IF i <= m THEN delivered'["iterator"][i]
                        ELSE IF isDone' THEN Events!Over ELSE Events!Pending
      BY <1>2, <1>6, <1>7, <2>3
    <3>2. IF isDone' THEN pending' = <<>>
          ELSE /\ Len(pending') = Len(reads') - m
               /\ \A i \in 1..Len(pending') : pending'[i] = m + i
      BY <1>2, <1>7 DEF IteratorFits, ReadsFit, m
    <3> QED BY <1>2, <1>4, <1>7, <2>2, <2>4, <3>1, <3>2 DEF ReadsFit, Events!Over, Events!Pending
  <2> QED BY <1>2, <1>7, <2>1, <2>5 DEF IteratorFits, Events!Over, Events!Pending, Events!Events
<1>8. CASE pending # <<>>
  <2>1. /\ ~isDone /\ inbox = <<>> /\ Len(pending) = Len(reads) - m
        /\ \A i \in 1..Len(pending) : pending[i] = m + i
    BY <1>8 DEF IteratorFits, ReadsFit, m
  <2>2. Len(pending) > 0 /\ Len(inbox) = 0
    BY <1>3, <1>8, <2>1, EmptySeq
  <2>3. /\ Head(pending) = m + 1 /\ Tail(pending) \in Seq(1..MaxReads)
        /\ Len(Tail(pending)) = Len(pending) - 1
        /\ \A i \in 1..(Len(pending) - 1) : Tail(pending)[i] = pending[i + 1]
    <3>1. Head(pending) = pending[1] /\ 1 \in 1..Len(pending)
      BY <1>3, <1>8, <2>2, HeadTailProperties
    <3> QED BY <1>3, <1>8, <2>1, <3>1, HeadTailProperties
  <2>4. m + 1 \in 1..Len(reads) /\ m = Len(heard)
    BY <1>3, <1>4, <2>1, <2>2
  <2>5. /\ reads' \in Seq(Events!Events \cup {Events!Pending, Events!Over}) /\ Len(reads') = Len(reads)
        /\ reads'[m + 1] = e
        /\ \A i \in 1..Len(reads) : i # m + 1 => reads'[i] = reads[i]
    <3>1. reads' = [reads EXCEPT ![m + 1] = e]
      BY <1>2, <1>8, <2>3
    <3> QED BY <1>1, <1>3, <2>4, <3>1, ExceptSeq
  <2>6. AnsweredFirst' = m + 1
    BY <1>2, <1>3, <1>4, <1>5, <1>8, <2>2 DEF AnsweredFirst
  <2>7. \A i \in 1..Len(reads') :
            reads'[i] = IF i <= m + 1 THEN delivered'["iterator"][i]
                        ELSE IF isDone' THEN Events!Over ELSE Events!Pending
    <3> SUFFICES ASSUME NEW i \in 1..Len(reads)
                 PROVE reads'[i] = IF i <= m + 1 THEN delivered'["iterator"][i]
                                   ELSE IF isDone' THEN Events!Over ELSE Events!Pending
      BY <2>5
    <3>1. CASE i <= m
      <4>1. i \in 1..Len(heard) /\ i # m + 1 /\ i <= m + 1
        BY <1>4, <2>4, <3>1
      <4> QED BY <1>5, <1>6, <2>5, <3>1, <4>1
    <3>2. CASE i = m + 1
      BY <1>4, <1>5, <2>4, <2>5, <3>2
    <3>3. CASE i > m + 1
      <4>1. ~(i <= m) /\ ~(i <= m + 1) /\ i # m + 1
        BY <1>4, <3>3
      <4> QED BY <1>2, <1>6, <2>5, <4>1
    <3> QED BY <1>3, <1>4, <3>1, <3>2, <3>3
  <2>8. /\ Len(pending') = Len(reads') - (m + 1)
        /\ \A i \in 1..Len(pending') : pending'[i] = m + 1 + i
    <3>1. pending' = Tail(pending) /\ Len(pending') = Len(pending) - 1
      BY <1>2, <1>8, <2>3
    <3>2. \A i \in 1..(Len(pending) - 1) : i + 1 \in 1..Len(pending) /\ m + (i + 1) = m + 1 + i
      <4>1. Len(pending) \in Nat /\ m \in Nat
        BY <1>3, <1>4
      <4> QED BY <4>1
    <3> QED BY <1>3, <1>4, <2>1, <2>3, <2>5, <3>1, <3>2
  <2>9. inbox' = <<>> /\ Len(inbox') = 0 /\ isDone' = FALSE
    BY <1>2, <1>8, <2>1, <2>2
  <2>10. m + 1 \in 0..Len(reads') /\ Len(reads') <= MaxReads
    BY <1>4, <2>4, <2>5 DEF IteratorFits
  <2>11. ReadsFit'
    BY <2>6, <2>7, <2>8, <2>9, <2>10 DEF ReadsFit, Events!Over, Events!Pending
  <2> QED BY <1>2, <1>3, <1>8, <2>3, <2>5, <2>9, <2>10, <2>11
          DEF IteratorFits, Events!Over, Events!Pending, Events!Events
<1> QED BY <1>7, <1>8

(* A read takes the event kept longest, or waits behind the others.        *)
LEMMA IteratorRead ==
    ASSUME IteratorFits, EmissionsFit, Events!Read
    PROVE  IteratorFits'
<1> DEFINE heard == delivered["iterator"]
           m == AnsweredFirst
<1>1. /\ Len(reads) < MaxReads /\ isDone' = isDone /\ delivered' = delivered
      /\ isDone => reads' = Append(reads, Events!Over) /\ inbox' = inbox /\ pending' = pending
      /\ ~isDone /\ inbox # <<>> =>
            reads' = Append(reads, Head(inbox)) /\ inbox' = Tail(inbox) /\ pending' = pending
      /\ ~isDone /\ inbox = <<>> =>
            /\ reads' = Append(reads, Events!Pending)
            /\ pending' = Append(pending, Len(reads) + 1) /\ inbox' = inbox
  BY DEF Events!Read
<1>2. /\ inbox \in Seq(Events!Events) /\ pending \in Seq(1..MaxReads) /\ heard \in Seq(Events!Events)
      /\ reads \in Seq(Events!Events \cup {Events!Pending, Events!Over})
      /\ Len(heard) \in Nat /\ Len(inbox) \in Nat /\ Len(pending) \in Nat /\ Len(reads) \in Nat
      /\ isDone \in BOOLEAN
  <2>1. heard \in Seq(Events!Events)
    BY DEF EmissionsFit, Events!Kinds
  <2> QED BY <2>1, LenProperties DEF IteratorFits
<1>3. m = Len(heard) - Len(inbox) /\ m \in 0..Len(reads) /\ m \in Nat
  BY <1>2 DEF AnsweredFirst, IteratorFits, ReadsFit
<1>4. /\ \A i \in 1..Len(reads) :
            reads[i] = IF i <= m THEN heard[i] ELSE IF isDone THEN Events!Over ELSE Events!Pending
      /\ \A i \in 1..Len(inbox) : inbox[i] = heard[m + i]
  BY DEF IteratorFits, ReadsFit
<1>5. /\ isDone => pending = <<>>
      /\ ~isDone => /\ Len(pending) = Len(reads) - m
                    /\ \A i \in 1..Len(pending) : pending[i] = m + i
      /\ pending # <<>> => inbox = <<>>
  BY DEF IteratorFits, ReadsFit
<1> HIDE DEF m
<1>6. PICK v \in Events!Events \cup {Events!Pending, Events!Over} : reads' = Append(reads, v)
  <2>1. inbox # <<>> => Head(inbox) \in Events!Events
    BY <1>2, HeadTailProperties
  <2> QED BY <1>1, <1>2, <2>1
<1>7. /\ reads' \in Seq(Events!Events \cup {Events!Pending, Events!Over})
      /\ Len(reads') = Len(reads) + 1 /\ reads'[Len(reads) + 1] = v
      /\ \A i \in 1..Len(reads) : reads'[i] = reads[i]
      /\ \A i \in 1..Len(reads') : i \in 1..Len(reads) \/ i = Len(reads) + 1
      /\ Len(reads') <= MaxReads
  BY <1>1, <1>2, <1>6, AppendProperties, EventsAssumption
<1>8. CASE isDone
  <2>1. v = Events!Over /\ inbox' = inbox /\ pending' = <<>> /\ Len(pending') = Len(pending)
    BY <1>1, <1>2, <1>5, <1>6, <1>7, <1>8, AppendProperties
  <2>2. AnsweredFirst' = m
    BY <1>1, <2>1 DEF m, AnsweredFirst
  <2>3. \A i \in 1..Len(reads') : reads'[i] = IF i <= m THEN heard[i] ELSE Events!Over
    BY <1>2, <1>3, <1>4, <1>7, <1>8, <2>1
  <2>4. ReadsFit'
    BY <1>1, <1>3, <1>4, <1>7, <1>8, <2>1, <2>2, <2>3 DEF ReadsFit, Events!Over, Events!Pending
  <2> QED BY <1>1, <1>2, <1>5, <1>7, <1>8, <2>1, <2>4 DEF IteratorFits, Events!Over, Events!Pending, Events!Events
<1>9. CASE ~isDone /\ inbox # <<>>
  <2>1. /\ inbox' = Tail(inbox) /\ pending' = <<>> /\ pending = <<>> /\ reads' = Append(reads, Head(inbox))
    BY <1>1, <1>5, <1>9
  <2>2. Len(pending) = 0 /\ m = Len(reads)
    BY <1>2, <1>3, <1>5, <1>9, <2>1
  <2>3. /\ Len(inbox) > 0 /\ Head(inbox) = inbox[1] /\ Tail(inbox) \in Seq(Events!Events)
        /\ Len(Tail(inbox)) = Len(inbox) - 1
        /\ \A i \in 1..(Len(inbox) - 1) : Tail(inbox)[i] = inbox[i + 1]
    BY <1>2, <1>9, HeadTailProperties, EmptySeq
  <2>4. v = heard[m + 1]
    <3>1. reads'[Len(reads) + 1] = Head(inbox)
      <4>1. Head(inbox) \in Events!Events
        BY <1>2, <1>9, HeadTailProperties
      <4> QED BY <1>2, <2>1, <4>1, AppendProperties
    <3>2. 1 \in 1..Len(inbox)
      BY <1>2, <2>3
    <3> QED BY <1>4, <1>7, <2>3, <3>1, <3>2
  <2>5. AnsweredFirst' = m + 1
    <3>1. AnsweredFirst' = Len(heard) - (Len(inbox) - 1)
      BY <1>1, <2>1, <2>3 DEF AnsweredFirst
    <3>2. m = Len(heard) - Len(inbox) /\ Len(heard) \in Nat /\ Len(inbox) \in Nat
      BY <1>2, <1>3
    <3> QED BY <3>1, <3>2
  <2>6. \A i \in 1..Len(reads') : reads'[i] = IF i <= m + 1 THEN heard[i] ELSE Events!Pending
    BY <1>2, <1>3, <1>4, <1>7, <2>2, <2>4
  <2>7. \A i \in 1..Len(inbox') : inbox'[i] = heard[m + 1 + i]
    <3>1. \A i \in 1..(Len(inbox) - 1) : i + 1 \in 1..Len(inbox) /\ m + (i + 1) = m + 1 + i
      <4>1. Len(inbox) \in Nat /\ m \in Nat
        BY <1>2, <1>3
      <4> QED BY <4>1
    <3> QED BY <1>4, <2>1, <2>3, <3>1
  <2>8. Len(pending') = Len(reads') - (m + 1) /\ m + 1 \in 0..Len(reads')
    <3>1. Len(pending') = 0 /\ Len(reads') = Len(reads) + 1 /\ m = Len(reads) /\ Len(reads) \in Nat
      BY <1>2, <1>7, <2>1, <2>2
    <3> QED BY <3>1
  <2>9. ReadsFit'
    BY <1>1, <1>9, <2>1, <2>2, <2>5, <2>6, <2>7, <2>8 DEF ReadsFit, Events!Over, Events!Pending
  <2> QED BY <1>1, <1>2, <1>7, <1>9, <2>1, <2>3, <2>9 DEF IteratorFits, Events!Over, Events!Pending, Events!Events
<1>10. CASE ~isDone /\ inbox = <<>>
  <2>1. /\ reads' = Append(reads, Events!Pending)
        /\ pending' = Append(pending, Len(reads) + 1) /\ inbox' = inbox
    BY <1>1, <1>10
  <2>2. v = Events!Pending
    BY <1>2, <1>7, <2>1, AppendProperties
  <2>3. Len(reads) + 1 \in 1..MaxReads
    BY <1>1, <1>2, EventsAssumption
  <2>4. /\ pending' \in Seq(1..MaxReads) /\ Len(pending') = Len(pending) + 1
        /\ pending'[Len(pending) + 1] = Len(reads) + 1
        /\ \A i \in 1..Len(pending) : pending'[i] = pending[i]
    BY <1>2, <2>1, <2>3, AppendProperties
  <2>5. AnsweredFirst' = m
    BY <1>1, <2>1 DEF m, AnsweredFirst
  <2>6. \A i \in 1..Len(reads') : reads'[i] = IF i <= m THEN heard[i] ELSE Events!Pending
    BY <1>2, <1>3, <1>4, <1>7, <1>10, <2>2
  <2>7. /\ Len(pending') = Len(reads') - m
        /\ \A i \in 1..Len(pending') : pending'[i] = m + i
    <3>1. /\ Len(pending) = Len(reads) - m /\ Len(reads') = Len(reads) + 1
          /\ Len(pending) \in Nat /\ Len(reads) \in Nat /\ m \in Nat
      BY <1>2, <1>3, <1>5, <1>7, <1>10
    <3>2. Len(pending') = Len(reads') - m /\ m + (Len(pending) + 1) = Len(reads) + 1
      BY <2>4, <3>1
    <3>3. ASSUME NEW i \in 1..Len(pending') PROVE pending'[i] = m + i
      <4>1. i \in 1..Len(pending) \/ i = Len(pending) + 1
        <5>1. Len(pending') = Len(pending) + 1 /\ Len(pending) \in Nat
          BY <2>4, <3>1
        <5> QED BY <3>3, <5>1
      <4> QED BY <1>5, <1>10, <2>4, <3>2, <4>1
    <3> QED BY <3>2, <3>3
  <2>8. ReadsFit'
    <3>1. m \in 0..Len(reads')
      BY <1>2, <1>3, <1>7
    <3>2. /\ isDone' = FALSE /\ inbox' = <<>> /\ Len(inbox') = 0 /\ delivered' = delivered
      BY <1>1, <1>2, <1>10, <2>1
    <3> QED BY <2>5, <2>6, <2>7, <3>1, <3>2 DEF ReadsFit, Events!Over, Events!Pending
  <2> QED BY <1>1, <1>2, <1>7, <1>10, <2>1, <2>4, <2>8 DEF IteratorFits, Events!Over, Events!Pending, Events!Events
<1> QED BY <1>2, <1>8, <1>9, <1>10

(* A stop answers all reads that wait.                                     *)
LEMMA IteratorStops ==
    ASSUME IteratorFits, EmissionsFit, Events!Stop
    PROVE  IteratorFits'
<1>1. /\ ~isDone /\ isDone' = TRUE /\ delivered' = delivered /\ inbox' = inbox /\ pending' = <<>>
      /\ reads' = [i \in DOMAIN reads |-> IF reads[i] = Events!Pending THEN Events!Over ELSE reads[i]]
  BY DEF Events!Stop
<1>2. /\ reads \in Seq(Events!Events \cup {Events!Pending, Events!Over})
      /\ Len(reads) \in Nat /\ DOMAIN reads = 1..Len(reads)
      /\ \A i \in 1..Len(reads) : reads[i] \in Events!Events \cup {Events!Pending, Events!Over}
  BY LenProperties, ElementOfSeq DEF IteratorFits
<1>3. /\ Len(reads') = Len(reads) /\ reads' \in Seq(Events!Events \cup {Events!Pending, Events!Over})
  <2>1. reads' \in [1..Len(reads) -> Events!Events \cup {Events!Pending, Events!Over}]
    BY <1>1, <1>2
  <2>2. DOMAIN reads' = 1..Len(reads)
    BY <2>1
  <2>3. reads' \in Seq(Events!Events \cup {Events!Pending, Events!Over})
    BY <1>2, <2>1, SeqDef
  <2> QED BY <1>2, <2>2, <2>3, LenProperties
<1>4. AnsweredFirst' = AnsweredFirst /\ AnsweredFirst \in 0..Len(reads)
  BY <1>1 DEF AnsweredFirst, IteratorFits, ReadsFit
<1>5. \A i \in 1..Len(reads) : i <= AnsweredFirst => reads[i] # Events!Pending
  <2>1. delivered["iterator"] \in Seq(Events!Events)
    BY DEF EmissionsFit, Events!Kinds
  <2>2. inbox \in Seq(Events!Events) /\ Len(inbox) \in Nat /\ Len(delivered["iterator"]) \in Nat
    BY <2>1, LenProperties DEF IteratorFits
  <2>3. \A i \in 1..Len(delivered["iterator"]) : delivered["iterator"][i] # Events!Pending
    <3>1. \A i \in 1..Len(delivered["iterator"]) : delivered["iterator"][i] \in Events!Events
      BY <2>1, ElementOfSeq
    <3> QED BY <3>1 DEF Events!Events, Events!Pending
  <2>4. \A i \in 1..Len(reads) : i <= AnsweredFirst => i \in 1..Len(delivered["iterator"])
    BY <1>2, <1>4, <2>2 DEF AnsweredFirst
  <2> QED BY <2>3, <2>4 DEF IteratorFits, ReadsFit
<1>6. \A i \in 1..Len(reads') :
          reads'[i] = IF i <= AnsweredFirst THEN delivered["iterator"][i] ELSE Events!Over
  <2> SUFFICES ASSUME NEW i \in 1..Len(reads)
               PROVE  reads'[i] = IF i <= AnsweredFirst THEN delivered["iterator"][i] ELSE Events!Over
    BY <1>3
  <2>1. reads[i] = IF i <= AnsweredFirst THEN delivered["iterator"][i] ELSE Events!Pending
    BY <1>1 DEF IteratorFits, ReadsFit
  <2>2. reads'[i] = IF reads[i] = Events!Pending THEN Events!Over ELSE reads[i]
    BY <1>1, <1>2
  <2> QED BY <1>5, <2>1, <2>2
<1>7. \A i \in 1..Len(inbox) : inbox[i] = delivered["iterator"][AnsweredFirst + i]
  BY DEF IteratorFits, ReadsFit
<1>8. ReadsFit'
  BY <1>1, <1>3, <1>4, <1>6, <1>7 DEF ReadsFit, Events!Over, Events!Pending
<1>9. <<>> \in Seq(1..MaxReads) /\ Len(reads') <= MaxReads
  BY <1>3 DEF IteratorFits
<1> QED BY <1>1, <1>3, <1>8, <1>9 DEF IteratorFits, Events!Over, Events!Pending, Events!Events

(* Who is in the set, or on the list of an emission, has a place.          *)
ListenersFit ==
    /\ place \in [Events!Kinds -> Nat] /\ listeners \subseteq Events!Subscribed
    /\ Len(stack) <= MaxDepth /\ readable \in {"unset", "open", "closed"}
    /\ \A i \in 1..Len(stack) : stack[i].rest \subseteq Events!Subscribed

(* A once that settled was subscribed.                                     *)
OnceFits ==
    /\ once \in Events!Events \cup {Events!Pending, Events!Over} /\ Events!OnceFirst
    /\ once # Events!Pending => place["once"] # 0

EventsInv == ListenersFit /\ EmissionsFit /\ OnceFits /\ ReadableFits /\ IteratorFits

(* A step is one of the user's, of an emission, or of a reader.            *)
LEMMA StackSteps ==
    ASSUME EventsInv, Events!Next
    PROVE  /\ EmissionsFit' /\ IteratorFits'
           /\ Len(stack') <= MaxDepth
           /\ \/ Events!Emit
              \/ /\ Len(stack') <= Len(stack)
                 /\ \A i \in 1..Len(stack') : /\ stack'[i].event = stack[i].event
                                              /\ stack'[i].rest \subseteq stack[i].rest
<1> USE DEF EventsInv
<1>0. Len(stack) \in Nat /\ listeners \subseteq Events!Kinds /\ stack \in Seq(Emission)
  BY LenProperties DEF EmissionsFit, ListenersFit, Events!Subscribed
<1>1. ASSUME UNCHANGED <<stack, emitted, delivered>>
      PROVE  /\ EmissionsFit' /\ Len(stack') <= Len(stack) /\ Len(stack') <= MaxDepth
             /\ \A i \in 1..Len(stack') : /\ stack'[i].event = stack[i].event
                                          /\ stack'[i].rest \subseteq stack[i].rest
  <2>1. EmissionsFit'
    BY <1>1, EmissionsKept
  <2> QED BY <1>0, <1>1, <2>1 DEF ListenersFit
<1>2. ASSUME NEW k \in Events!Kinds, NEW inside \in BOOLEAN, Events!Calls(k, inside), emitted' = emitted
      PROVE  /\ EmissionsFit' /\ Len(stack') <= Len(stack) /\ Len(stack') <= MaxDepth
             /\ \A i \in 1..Len(stack') : /\ stack'[i].event = stack[i].event
                                          /\ stack'[i].rest \subseteq stack[i].rest
             /\ k # "iterator" => delivered'["iterator"] = delivered["iterator"]
  <2>1. /\ EmissionsFit' /\ Len(stack') = Len(stack)
        /\ \A i \in 1..Len(stack) : /\ stack'[i].event = stack[i].event
                                    /\ stack'[i].rest \subseteq stack[i].rest
        /\ \A l \in Events!Kinds : l # k => delivered'[l] = delivered[l]
    BY <1>2, ListenerCalled
  <2> QED BY <1>0, <2>1 DEF ListenersFit, Events!Kinds
<1>3. CASE (\E k \in Events!Kinds : Events!Subscribe(k)) \/ Events!Unsubscribe \/ Events!AbortOnce \/ Events!CloseReadable
  <2>1. UNCHANGED <<stack, emitted, delivered, isDone, inbox, pending, reads>>
    BY <1>3 DEF Events!Subscribe, Events!Unsubscribe, Events!AbortOnce, Events!CloseReadable,
                Events!iterator, Events!streams
  <2>2. IteratorFits'
    BY <2>1, IteratorKept
  <2> QED BY <1>1, <2>1, <2>2
<1>4. CASE Events!Emit
  <2>1. IteratorFits'
    BY <1>4, IteratorKept DEF Events!Emit, Events!iterator
  <2>2. EmissionsFit'
    BY <1>0, <1>4, EmissionBegins
  <2>3. Len(stack') <= MaxDepth
    <3>1. Len(stack) < MaxDepth /\ Len(stack') = Len(stack) + 1
      BY <1>0, <1>4, LenProperties DEF Events!Emit
    <3> QED BY <1>0, <3>1, EventsAssumption
  <2> QED BY <1>4, <2>1, <2>2, <2>3
<1>5. CASE Events!CallUser \/ Events!CallIdle \/ Events!CallOnce \/ Events!CallReadable
  <2>1. PICK k \in Events!Kinds, inside \in BOOLEAN : k # "iterator" /\ Events!Calls(k, inside)
    BY <1>5 DEF Events!CallUser, Events!CallIdle, Events!CallOnce, Events!CallReadable, Events!Kinds
  <2>2. UNCHANGED <<emitted, isDone, inbox, pending, reads>>
    BY <1>5 DEF Events!CallUser, Events!CallIdle, Events!CallOnce, Events!CallReadable, Events!iterator
  <2>3. IteratorFits'
    BY <1>2, <2>1, <2>2, IteratorKept
  <2> QED BY <1>2, <2>1, <2>2, <2>3
<1>6. CASE Events!CallIterator
  <2>1. IteratorFits'
    BY <1>6, IteratorCalled
  <2>2. Events!Calls("iterator", FALSE) /\ emitted' = emitted /\ "iterator" \in Events!Kinds
    BY <1>6 DEF Events!CallIterator, Events!Kinds
  <2> QED BY <1>2, <2>1, <2>2
<1>7. CASE Events!UserReturns
  <2>1. IteratorFits'
    BY <1>7, IteratorKept DEF Events!UserReturns, Events!iterator
  <2>2. /\ stack # <<>> /\ stack' = [stack EXCEPT ![Len(stack)].inside = FALSE]
        /\ DOMAIN stack = 1..Len(stack) /\ Len(stack) > 0
        /\ \A i \in 1..Len(stack) : stack[i] \in Emission
    BY <1>7, TopTyped DEF Events!UserReturns
  <2>3. /\ DOMAIN stack' = DOMAIN stack
        /\ \A i \in 1..Len(stack) : stack'[i].event = stack[i].event /\ stack'[i].rest = stack[i].rest
    <3>1. DOMAIN stack' = DOMAIN stack
      BY <2>2
    <3>2. \A i \in 1..Len(stack) : i # Len(stack) => stack'[i] = stack[i]
      BY <2>2
    <3>3. stack'[Len(stack)] = [stack[Len(stack)] EXCEPT !.inside = FALSE]
      <4>1. Len(stack) \in DOMAIN stack
        BY <1>0, <2>2
      <4> QED BY <2>2, <4>1, Zenon
    <3>4. \A r \in Emission : [r EXCEPT !.inside = FALSE].event = r.event /\ [r EXCEPT !.inside = FALSE].rest = r.rest
      BY DEF Emission
    <3>5. stack[Len(stack)] \in Emission
      BY <1>0, <2>2
    <3> HIDE DEF Emission
    <3> QED BY <3>1, <3>2, <3>3, <3>4, <3>5
  <2>4. EmissionsFit'
    BY <1>7, ListenerReturns
  <2>5. Len(stack') = Len(stack)
    <3>1. stack' \in Seq(Emission)
      BY <2>4 DEF EmissionsFit
    <3> QED BY <1>0, <2>2, <2>3, <3>1, LenProperties
  <2> QED BY <1>0, <2>1, <2>3, <2>4, <2>5 DEF ListenersFit
<1>8. CASE Events!EmissionEnds
  <2>1. IteratorFits'
    BY <1>8, IteratorKept DEF Events!EmissionEnds, Events!iterator
  <2>2. EmissionsFit' /\ \A i \in 1..Len(stack') : i \in 1..Len(stack) /\ stack'[i] = stack[i]
    BY <1>8, EmissionOver
  <2>3. Len(stack') <= Len(stack)
    <3>1. Len(stack') \in Nat
      BY <2>2, LenProperties DEF EmissionsFit
    <3>2. Len(stack') = 0 \/ Len(stack') \in 1..Len(stack)
      BY <2>2, <3>1
    <3> QED BY <1>0, <3>2
  <2>4. Len(stack') <= MaxDepth
    <3>1. Len(stack') \in Nat
      BY <2>2, LenProperties DEF EmissionsFit
    <3> QED BY <1>0, <2>3, <3>1, EventsAssumption DEF ListenersFit
  <2>5. \A i \in 1..Len(stack') : stack'[i].event = stack[i].event /\ stack'[i].rest \subseteq stack[i].rest
    BY <2>2
  <2> QED BY <2>1, <2>2, <2>3, <2>4, <2>5
<1>9. CASE Events!Read \/ Events!Stop
  <2>1. IteratorFits'
    BY <1>9, IteratorRead, IteratorStops
  <2>2. UNCHANGED <<stack, emitted, delivered>>
    BY <1>9 DEF Events!Read, Events!Stop
  <2> QED BY <1>1, <2>1, <2>2
<1> QED BY <1>3, <1>4, <1>5, <1>6, <1>7, <1>8, <1>9 DEF Events!Next

(* Who leaves the set was in it; a place once given is kept.               *)
LEMMA SetKept ==
    ASSUME EventsInv, Events!Next
    PROVE  /\ place' \in [Events!Kinds -> Nat] /\ listeners' \subseteq Events!Subscribed'
           /\ \A k \in Events!Kinds : place[k] # 0 => place'[k] = place[k]
           /\ listeners' \subseteq listeners \/ \E k \in Events!Kinds : Events!Subscribe(k)
<1> USE DEF EventsInv, ListenersFit
<1>1. CASE \E k \in Events!Kinds : Events!Subscribe(k)
  <2>1. PICK k \in Events!Kinds : Events!Subscribe(k)
    BY <1>1
  <2>2. Cardinality(Events!Subscribed) \in Nat
    <3>1. IsFiniteSet(Events!Kinds)
      <4>1. IsFiniteSet({"user"} \cup {"idle"})
        BY FS_Singleton, FS_Union
      <4>2. IsFiniteSet({"once"} \cup {"readable"})
        BY FS_Singleton, FS_Union
      <4>3. IsFiniteSet(({"user"} \cup {"idle"}) \cup ({"once"} \cup {"readable"}))
        BY <4>1, <4>2, FS_Union
      <4>4. IsFiniteSet((({"user"} \cup {"idle"}) \cup ({"once"} \cup {"readable"})) \cup {"iterator"})
        BY <4>3, FS_Singleton, FS_Union
      <4>5. (({"user"} \cup {"idle"}) \cup ({"once"} \cup {"readable"})) \cup {"iterator"} = Events!Kinds
        BY DEF Events!Kinds
      <4> QED BY <4>4, <4>5
    <3> QED BY <3>1, FS_Subset, FS_CardinalityType DEF Events!Subscribed
  <2>3. PICK n \in Nat : n # 0 /\ place' = [place EXCEPT ![k] = n] /\ listeners' = listeners \cup {k} /\ place[k] = 0
    <3> DEFINE n == 1 + Cardinality(Events!Subscribed)
    <3>1. n \in Nat /\ n # 0
      BY <2>2
    <3>2. Events!Cardinality(Events!Subscribed) = Cardinality(Events!Subscribed)
      BY DEF Events!Cardinality, Cardinality
    <3>3. place' = [place EXCEPT ![k] = n]
      BY <2>1, <3>2 DEF Events!Subscribe
    <3> HIDE DEF n
    <3>4. listeners' = listeners \cup {k} /\ place[k] = 0
      BY <2>1 DEF Events!Subscribe, Events!Subscribed
    <3> QED BY <3>1, <3>3, <3>4
  <2>4. /\ place' \in [Events!Kinds -> Nat] /\ place'[k] = n
        /\ \A l \in Events!Kinds : l # k => place'[l] = place[l]
    BY <2>3
  <2> QED BY <1>1, <2>3, <2>4 DEF Events!Subscribed
<1>2. CASE place' = place /\ listeners' \subseteq listeners
  BY <1>2 DEF Events!Subscribed
<1>3. (\E k \in Events!Kinds : Events!Subscribe(k)) \/ (place' = place /\ listeners' \subseteq listeners)
  BY DEF Events!Next, Events!Unsubscribe, Events!AbortOnce, Events!CloseReadable, Events!Emit, Events!CallUser,
         Events!CallIdle, Events!UserReturns, Events!CallOnce, Events!CallReadable, Events!CallIterator,
         Events!EmissionEnds, Events!Read, Events!Stop
<1> QED BY <1>1, <1>2, <1>3

(* An emission has on its list who is in the set.                          *)
LEMMA EmitStacks ==
    ASSUME EventsInv, Events!Emit
    PROVE  /\ Len(stack') = Len(stack) + 1 /\ Len(stack) \in Nat
           /\ stack'[Len(stack) + 1].rest = listeners
           /\ \A i \in 1..Len(stack) : stack'[i] = stack[i]
           /\ \A i \in 1..Len(stack') : i \in 1..Len(stack) \/ i = Len(stack) + 1
           /\ UNCHANGED <<listeners, place, delivered, once, readable, closedIn, failures>>
<1> DEFINE new == [event |-> emitted + 1, rest |-> listeners, start |-> listeners, inside |-> FALSE]
<1>1. stack' = Append(stack, new) /\ UNCHANGED <<listeners, place, delivered, once, readable, closedIn, failures>>
  BY DEF Events!Emit, Events!streams
<1>2. stack \in Seq(Emission)
  BY DEF EventsInv, EmissionsFit
<1>3. new.rest = listeners
  OBVIOUS
<1> HIDE DEF new
<1>4. /\ Len(stack') = Len(stack) + 1 /\ Len(stack) \in Nat /\ stack'[Len(stack) + 1] = new
      /\ \A i \in 1..Len(stack) : stack'[i] = stack[i]
  <2>1. stack \in Seq(Emission \cup {new})
    BY <1>2, LenProperties, ElementOfSeq, SeqDef
  <2> QED BY <1>1, <2>1, AppendProperties, LenProperties
<1> QED BY <1>1, <1>3, <1>4

(* Each step keeps the parts of the invariant.                             *)
LEMMA ListenersStay ==
    ASSUME EventsInv, Events!Next
    PROVE  ListenersFit'
<1>1. /\ place' \in [Events!Kinds -> Nat] /\ listeners' \subseteq Events!Subscribed'
      /\ \A k \in Events!Kinds : place[k] # 0 => place'[k] = place[k]
  BY SetKept
<1>2. Events!Subscribed \subseteq Events!Subscribed'
  BY <1>1 DEF Events!Subscribed
<1>3. Len(stack') <= MaxDepth
  BY StackSteps
<1>4. readable' \in {"unset", "open", "closed"}
  BY DEF Events!Next, Events!Subscribe, Events!Unsubscribe, Events!AbortOnce, Events!CloseReadable, Events!Emit,
         Events!CallUser, Events!CallIdle, Events!UserReturns, Events!CallOnce, Events!CallReadable,
         Events!CallIterator, Events!EmissionEnds, Events!Read, Events!Stop, Events!streams, EventsInv, ListenersFit
<1>5. \A i \in 1..Len(stack') : stack'[i].rest \subseteq Events!Subscribed'
  <2>1. CASE Events!Emit
    <3>1. stack'[Len(stack) + 1].rest \subseteq Events!Subscribed'
      BY <1>2, <2>1, EmitStacks DEF EventsInv, ListenersFit
    <3>2. \A i \in 1..Len(stack) : stack'[i].rest \subseteq Events!Subscribed'
      BY <1>2, <2>1, EmitStacks DEF EventsInv, ListenersFit
    <3> QED BY <2>1, <3>1, <3>2, EmitStacks
  <2>2. CASE /\ Len(stack') <= Len(stack)
             /\ \A i \in 1..Len(stack') : stack'[i].rest \subseteq stack[i].rest
    <3>1. Len(stack) \in Nat /\ Len(stack') \in Nat
      BY StackSteps, LenProperties DEF EventsInv, EmissionsFit
    <3>2. \A i \in 1..Len(stack') : i \in 1..Len(stack)
      BY <2>2, <3>1
    <3> QED BY <1>2, <2>2, <3>2 DEF EventsInv, ListenersFit
  <2> QED BY <2>1, <2>2, StackSteps
<1> QED BY <1>1, <1>3, <1>4, <1>5 DEF ListenersFit

LEMMA OnceStays ==
    ASSUME EventsInv, Events!Next
    PROVE  OnceFits'
<1> USE EventsAssumption
<1>0. Events!Over \notin Events!Events /\ Events!Pending \notin Events!Events /\ Events!Over # Events!Pending
  BY DEF Events!Over, Events!Pending, Events!Events
<1>1. /\ place' \in [Events!Kinds -> Nat] /\ "once" \in Events!Kinds
      /\ \A k \in Events!Kinds : place[k] # 0 => place'[k] = place[k]
      /\ listeners' \subseteq listeners \/ \E k \in Events!Kinds : Events!Subscribe(k)
  BY SetKept DEF Events!Kinds
<1>2. CASE Events!AbortOnce
  <2>1. /\ once = Events!Pending /\ once' = Events!Over /\ place["once"] # 0
        /\ delivered' = delivered /\ "once" \notin listeners'
    BY <1>2 DEF Events!AbortOnce, Events!Subscribed
  <2> QED BY <1>0, <1>1, <2>1 DEF OnceFits, Events!OnceFirst, Events!Over, Events!Pending, Events!Events
<1>3. CASE Events!CallOnce
  <2>1. /\ Events!Calls("once", FALSE) /\ emitted' = emitted /\ "once" \notin listeners'
        /\ once' = IF once = Events!Pending THEN Events!Top.event ELSE once
    BY <1>3 DEF Events!CallOnce
  <2>2. /\ Events!Top.event \in Events!Events /\ "once" \in Events!Top.rest
        /\ delivered["once"] \in Seq(Events!Events)
        /\ delivered'["once"] = Append(delivered["once"], Events!Top.event)
    BY <1>1, <2>1, ListenerCalled DEF EventsInv
  <2>3. /\ delivered'["once"] # <<>>
        /\ delivered["once"] # <<>> => delivered'["once"][1] = delivered["once"][1]
        /\ delivered["once"] = <<>> => delivered'["once"][1] = Events!Top.event
    <3>1. /\ Len(delivered'["once"]) = Len(delivered["once"]) + 1 /\ Len(delivered["once"]) \in Nat
          /\ delivered'["once"][Len(delivered["once"]) + 1] = Events!Top.event
          /\ \A i \in 1..Len(delivered["once"]) : delivered'["once"][i] = delivered["once"][i]
          /\ delivered'["once"] \in Seq(Events!Events)
      BY <2>2, AppendProperties, LenProperties
    <3>2. delivered["once"] = <<>> <=> Len(delivered["once"]) = 0
      BY <2>2, EmptySeq
    <3>3. delivered'["once"] # <<>>
      BY <3>1, EmptySeq
    <3> QED BY <3>1, <3>2, <3>3
  <2>4. place'["once"] # 0
    <3>1. Events!Top.rest \subseteq Events!Subscribed
      <4>1. stack # <<>>
        BY <2>1 DEF Events!Calls
      <4>2. Events!Top = stack[Len(stack)] /\ Len(stack) \in 1..Len(stack)
        BY <4>1, TopTyped DEF EventsInv
      <4> QED BY <4>2 DEF EventsInv, ListenersFit
    <3> QED BY <1>1, <2>2, <3>1 DEF Events!Subscribed
  <2>5. once' # Events!Pending
    BY <1>0, <2>1, <2>2
  <2>6. once' \in Events!Events => once' = delivered'["once"][1]
    BY <2>1, <2>3 DEF EventsInv, OnceFits, Events!OnceFirst
  <2>7. once' \in Events!Events \cup {Events!Pending, Events!Over}
    BY <2>1, <2>2 DEF EventsInv, OnceFits
  <2> QED BY <2>1, <2>3, <2>4, <2>5, <2>6, <2>7 DEF OnceFits, Events!OnceFirst, Events!Over, Events!Pending, Events!Events
<1>4. CASE once' = once /\ delivered'["once"] = delivered["once"]
  <2>1. once # Events!Pending => "once" \notin listeners'
    <3>1. CASE listeners' \subseteq listeners
      BY <3>1 DEF EventsInv, OnceFits, Events!OnceFirst
    <3>2. CASE \E k \in Events!Kinds : Events!Subscribe(k)
      <4>1. PICK k \in Events!Kinds : Events!Subscribe(k)
        BY <3>2
      <4>2. listeners' = listeners \cup {k} /\ place[k] = 0
        BY <4>1 DEF Events!Subscribe, Events!Subscribed
      <4> QED BY <4>2 DEF EventsInv, OnceFits, Events!OnceFirst
    <3> QED BY <1>1, <3>1, <3>2
  <2>2. once # Events!Pending => place'["once"] # 0
    BY <1>1 DEF EventsInv, OnceFits
  <2> QED BY <1>4, <2>1, <2>2 DEF EventsInv, OnceFits, Events!OnceFirst, Events!Over, Events!Pending, Events!Events
<1>5. Events!AbortOnce \/ Events!CallOnce \/ (once' = once /\ delivered'["once"] = delivered["once"])
  <2>1. CASE Events!CallUser \/ Events!CallIdle \/ Events!CallReadable \/ Events!CallIterator
    <3>1. PICK k \in Events!Kinds, inside \in BOOLEAN : k # "once" /\ Events!Calls(k, inside)
      BY <2>1 DEF Events!CallUser, Events!CallIdle, Events!CallReadable, Events!CallIterator, Events!Kinds
    <3>2. emitted' = emitted /\ once' = once
      BY <2>1 DEF Events!CallUser, Events!CallIdle, Events!CallReadable, Events!CallIterator, Events!streams
    <3>3. delivered'["once"] = delivered["once"]
      BY <1>1, <3>1, <3>2, ListenerCalled DEF EventsInv
    <3> QED BY <3>2, <3>3
  <2>2. CASE \/ \E k \in Events!Kinds : Events!Subscribe(k)
             \/ Events!Unsubscribe \/ Events!CloseReadable \/ Events!Emit
             \/ Events!UserReturns \/ Events!EmissionEnds \/ Events!Read \/ Events!Stop
    BY <2>2 DEF Events!Subscribe, Events!Unsubscribe, Events!CloseReadable, Events!Emit, Events!UserReturns,
                Events!EmissionEnds, Events!Read, Events!Stop, Events!streams
  <2> QED BY <2>1, <2>2 DEF Events!Next
<1> QED BY <1>2, <1>3, <1>4, <1>5

LEMMA ReadableStays ==
    ASSUME EventsInv, Events!Next
    PROVE  ReadableFits'
<1>1. /\ \A k \in Events!Kinds : place[k] # 0 => place'[k] = place[k]
      /\ listeners' \subseteq listeners \/ \E k \in Events!Kinds : Events!Subscribe(k)
      /\ "readable" \in Events!Kinds /\ place' \in [Events!Kinds -> Nat]
  BY SetKept DEF Events!Kinds
<1>2. ReadableFits /\ readable \in {"unset", "open", "closed"}
  BY DEF EventsInv, ListenersFit
<1>3. Len(stack) \in Nat /\ Len(stack') \in Nat
  BY StackSteps, LenProperties DEF EventsInv, EmissionsFit
<1>4. ASSUME Events!Emit \/ UNCHANGED <<readable, closedIn>>
      PROVE  \A i \in 1..Len(stack') :
                readable' = "closed" /\ "readable" \in stack'[i].rest => stack'[i].event \in closedIn'
  <2>1. CASE Events!Emit
    <3> SUFFICES ASSUME NEW i \in 1..Len(stack'), readable = "closed", "readable" \in stack'[i].rest
                 PROVE  stack'[i].event \in closedIn
      BY <2>1, EmitStacks
    <3>1. "readable" \notin listeners
      BY <1>2 DEF ReadableFits
    <3>2. i \in 1..Len(stack) /\ stack'[i] = stack[i]
      BY <2>1, <3>1, EmitStacks
    <3> QED BY <1>2, <3>2 DEF ReadableFits
  <2>2. CASE /\ Len(stack') <= Len(stack) /\ UNCHANGED <<readable, closedIn>>
             /\ \A i \in 1..Len(stack') : /\ stack'[i].event = stack[i].event
                                          /\ stack'[i].rest \subseteq stack[i].rest
    <3>1. \A i \in 1..Len(stack') : i \in 1..Len(stack)
      BY <1>3, <2>2
    <3> QED BY <1>2, <2>2, <3>1 DEF ReadableFits
  <2> QED BY <1>4, <2>1, <2>2, StackSteps
<1>5. CASE Events!CloseReadable
  <2>1. /\ readable = "open" /\ readable' = "closed" /\ "readable" \notin listeners'
        /\ closedIn' = Events!InProgress /\ stack' = stack /\ failures' = failures /\ place' = place
    BY <1>5 DEF Events!CloseReadable
  <2>2. \A f \in failures : f[2] # "closed"
    BY <1>2, <2>1 DEF ReadableFits, Events!FailsForAReason
  <2>3. \A i \in 1..Len(stack) : stack[i].event \in Events!InProgress
    <3>1. DOMAIN stack = 1..Len(stack)
      BY LenProperties DEF EventsInv, EmissionsFit
    <3> QED BY <3>1 DEF Events!InProgress
  <2> QED BY <1>2, <2>1, <2>2, <2>3 DEF ReadableFits, Events!FailsForAReason
<1>6. CASE \E k \in Events!Kinds : Events!Subscribe(k)
  <2>1. PICK k \in Events!Kinds : Events!Subscribe(k)
    BY <1>6
  <2>2. /\ place[k] = 0 /\ listeners' = listeners \cup {k} /\ failures' = failures
        /\ readable' = IF k = "readable" THEN "open" ELSE readable
        /\ stack' = stack /\ closedIn' = closedIn
    BY <2>1 DEF Events!Subscribe, Events!Subscribed
  <2>3. CASE k = "readable"
    <3>1. readable = "unset" /\ readable' = "open"
      BY <1>2, <2>2, <2>3 DEF ReadableFits
    <3>2. \A f \in failures : f[2] # "closed"
      BY <1>2, <3>1 DEF ReadableFits, Events!FailsForAReason
    <3>3. place'["readable"] # 0
      <4>1. "readable" \in listeners' /\ listeners' \subseteq Events!Subscribed'
        BY <2>2, <2>3, SetKept
      <4> QED BY <4>1 DEF Events!Subscribed
    <3> QED BY <2>2, <3>1, <3>2, <3>3 DEF ReadableFits, Events!FailsForAReason
  <2>4. CASE k # "readable"
    <3>1. readable' = readable /\ (readable = "closed" => "readable" \notin listeners')
      BY <1>2, <2>2, <2>4 DEF ReadableFits
    <3>2. \A f \in failures' : f[2] = "closed" => readable' = "closed" /\ f[1] \in closedIn'
      BY <1>2, <2>2, <3>1 DEF ReadableFits, Events!FailsForAReason
    <3> QED BY <1>1, <1>2, <1>4, <2>2, <3>1, <3>2 DEF ReadableFits, Events!FailsForAReason
  <2> QED BY <2>3, <2>4
<1>7. ASSUME listeners' \subseteq listeners, UNCHANGED <<readable, closedIn>>,
             \A f \in failures' : f \in failures \/ f[2] # "closed"
                                 \/ (readable = "closed" /\ f[1] \in closedIn)
      PROVE  ReadableFits'
  <2>1. Events!FailsForAReason'
    BY <1>2, <1>7 DEF ReadableFits, Events!FailsForAReason
  <2>2. /\ readable' = "closed" => "readable" \notin listeners'
        /\ readable' # "unset" => place'["readable"] # 0
    BY <1>1, <1>2, <1>7 DEF ReadableFits
  <2> QED BY <1>4, <1>7, <2>1, <2>2 DEF ReadableFits
<1>8. CASE Events!CallReadable
  <2>1. /\ Events!Calls("readable", FALSE) /\ UNCHANGED <<listeners, readable, closedIn>>
        /\ failures' = IF readable = "closed" THEN failures \cup {<<Events!Top.event, "closed">>} ELSE failures
    BY <1>8 DEF Events!CallReadable, Events!streams
  <2>2. readable = "closed" => Events!Top.event \in closedIn
    <3>1. stack # <<>> /\ "readable" \in Events!Top.rest
      BY <2>1 DEF Events!Calls
    <3>2. Events!Top = stack[Len(stack)] /\ Len(stack) \in 1..Len(stack)
      BY <3>1, TopTyped DEF EventsInv
    <3> QED BY <1>2, <3>1, <3>2 DEF ReadableFits
  <2> QED BY <1>7, <2>1, <2>2
<1>9. CASE Events!UserReturns
  <2>1. /\ UNCHANGED <<listeners, readable, closedIn>>
        /\ failures' \in {failures, failures \cup {<<Events!Top.event, "user">>}}
    BY <1>9 DEF Events!UserReturns, Events!streams
  <2> QED BY <1>7, <2>1
<1>10. CASE \/ Events!Unsubscribe \/ Events!AbortOnce \/ Events!Emit \/ Events!CallUser \/ Events!CallIdle
            \/ Events!CallOnce \/ Events!CallIterator \/ Events!EmissionEnds \/ Events!Read \/ Events!Stop
  <2>1. UNCHANGED <<readable, closedIn, failures>> /\ listeners' \subseteq listeners
    BY <1>10 DEF Events!Unsubscribe, Events!AbortOnce, Events!Emit, Events!CallUser, Events!CallIdle,
       Events!CallOnce, Events!CallIterator, Events!EmissionEnds, Events!Read, Events!Stop, Events!streams
  <2> QED BY <1>7, <2>1
<1> QED BY <1>5, <1>6, <1>8, <1>9, <1>10 DEF Events!Next

(* What every step keeps holds from the start and between the steps.       *)
LEMMA EventsSteps ==
    ASSUME EventsInv, Events!Next
    PROVE  EventsInv'
BY StackSteps, ListenersStay, OnceStays, ReadableStays DEF EventsInv

LEMMA EventsStay ==
    ASSUME EventsInv, UNCHANGED events
    PROVE  EventsInv'
<1> USE DEF events, EventsInv
<1>1. EmissionsFit' /\ IteratorFits'
  BY EmissionsKept, IteratorKept
<1>2. ListenersFit' /\ OnceFits'
  BY DEF ListenersFit, OnceFits, Events!Subscribed, Events!OnceFirst, Events!Pending, Events!Over, Events!Events
<1>3. ReadableFits'
  BY DEF ReadableFits, Events!FailsForAReason
<1> QED BY <1>1, <1>2, <1>3

LEMMA EventsStart == Events!Init => EventsInv
<1> SUFFICES ASSUME Events!Init PROVE EventsInv
  OBVIOUS
<1> USE EventsAssumption DEF Events!Init
<1>1. /\ <<>> \in Seq(Emission) /\ <<>> \in Seq(Events!Events) /\ <<>> \in Seq(1..MaxReads)
      /\ <<>> \in Seq(Events!Events \cup {Events!Pending, Events!Over})
      /\ Len(<<>>) = 0 /\ DOMAIN <<>> = 1..0
  BY EmptySeq, LenProperties
<1>2. /\ stack = <<>> /\ emitted = 0 /\ inbox = <<>> /\ pending = <<>> /\ reads = <<>> /\ isDone = FALSE
      /\ \A k \in Events!Kinds : delivered[k] = <<>>
      /\ delivered \in [Events!Kinds -> Seq(Events!Events)]
  BY <1>1
<1>3. EmissionsFit
  BY <1>1, <1>2 DEF EmissionsFit, Events!EachOnce
<1>4. ListenersFit
  BY <1>1, <1>2 DEF ListenersFit
<1>5. OnceFits
  BY <1>2 DEF OnceFits, Events!OnceFirst, Events!Kinds, Events!Pending, Events!Events
<1>6. ReadableFits
  BY <1>1, <1>2 DEF ReadableFits, Events!FailsForAReason
<1>7. IteratorFits
  <2>1. AnsweredFirst = 0
    BY <1>1, <1>2 DEF AnsweredFirst, Events!Kinds
  <2>2. ReadsFit
    BY <1>1, <1>2, <2>1 DEF ReadsFit
  <2>3. Len(reads) <= MaxReads
    BY <1>1, <1>2
  <2>4. /\ inbox \in Seq(Events!Events) /\ pending \in Seq(1..MaxReads)
        /\ reads \in Seq(Events!Events \cup {Events!Pending, Events!Over})
    BY <1>1, <1>2, Zenon
  <2> QED BY <1>2, <2>2, <2>3, <2>4 DEF IteratorFits
<1> QED BY <1>3, <1>4, <1>5, <1>6, <1>7 DEF EventsInv

(* The reads that were answered are the first of them.                     *)
LEMMA EventsAreRight == EventsInv => Events!EventsRight
<1> SUFFICES ASSUME EventsInv PROVE Events!EventsRight
  OBVIOUS
<1> USE EventsAssumption DEF EventsInv
<1>1. Events!TypeOK
  BY DEF ListenersFit, EmissionsFit, OnceFits, IteratorFits, Events!TypeOK
<1> DEFINE heard == delivered["iterator"]
           m == AnsweredFirst
<1>2. /\ heard \in Seq(Events!Events) /\ Len(heard) \in Nat /\ Len(inbox) \in Nat /\ Len(reads) \in Nat
      /\ DOMAIN reads = 1..Len(reads) /\ DOMAIN inbox = 1..Len(inbox)
      /\ pending \in Seq(1..MaxReads) /\ Len(pending) \in Nat /\ DOMAIN pending = 1..Len(pending)
      /\ \A i \in 1..Len(heard) : heard[i] \in Events!Events
  <2>1. heard \in Seq(Events!Events)
    BY DEF EmissionsFit, Events!Kinds
  <2> QED BY <2>1, LenProperties, ElementOfSeq DEF IteratorFits
<1>3. m = Len(heard) - Len(inbox) /\ m \in 0..Len(reads) /\ m \in Nat
  BY <1>2 DEF AnsweredFirst, IteratorFits, ReadsFit
<1>4. /\ \A i \in 1..Len(reads) :
            reads[i] = IF i <= m THEN heard[i] ELSE IF isDone THEN Events!Over ELSE Events!Pending
      /\ \A i \in 1..Len(inbox) : inbox[i] = heard[m + i]
      /\ IF isDone THEN pending = <<>>
         ELSE /\ Len(pending) = Len(reads) - m
              /\ \A i \in 1..Len(pending) : pending[i] = m + i
      /\ pending # <<>> => inbox = <<>>
  BY DEF IteratorFits, ReadsFit
<1> HIDE DEF m
<1>5. Events!Over \notin Events!Events /\ Events!Pending \notin Events!Events /\ Events!Over # Events!Pending
  BY DEF Events!Over, Events!Pending, Events!Events
<1>6. \A i \in 1..Len(reads) : /\ i <= m => reads[i] \in Events!Events /\ reads[i] = heard[i]
                               /\ ~(i <= m) => reads[i] = IF isDone THEN Events!Over ELSE Events!Pending
  <2>1. \A i \in 1..Len(reads) : i <= m => i \in 1..Len(heard)
    BY <1>2, <1>3
  <2> QED BY <1>2, <1>4, <2>1
<1>7. Events!Answered = m
  <2>1. {i \in DOMAIN reads : reads[i] \in Events!Events} = 1..m
    <3>1. \A i \in 1..Len(reads) : reads[i] \in Events!Events <=> i <= m
      BY <1>5, <1>6
    <3>2. \A i \in 1..m : i \in 1..Len(reads) /\ i <= m
      BY <1>2, <1>3
    <3> QED BY <1>2, <1>3, <3>1, <3>2
  <2>2. Cardinality(1..m) = m
    <3>1. Cardinality(1..m) = IF 1 > m THEN 0 ELSE m - 1 + 1
      <4>1. 1 \in Int /\ m \in Int
        BY <1>3
      <4> QED BY <4>1, FS_Interval
    <3> QED BY <1>3, <3>1
  <2>3. Events!Answered = Cardinality({i \in DOMAIN reads : reads[i] \in Events!Events})
    BY DEF Events!Answered, Events!Cardinality, Cardinality
  <2> QED BY <2>1, <2>2, <2>3
<1>8. {i \in DOMAIN reads : reads[i] = Events!Pending} = {pending[i] : i \in DOMAIN pending}
  <2>1. CASE isDone
    <3>1. \A i \in 1..Len(reads) : reads[i] # Events!Pending
      BY <1>5, <1>6, <2>1
    <3>2. pending = <<>> /\ Len(pending) = 0
      BY <1>2, <1>4, <2>1, EmptySeq
    <3> QED BY <1>2, <3>1, <3>2
  <2>2. CASE ~isDone
    <3>1. \A i \in 1..Len(reads) : reads[i] = Events!Pending <=> ~(i <= m)
      BY <1>5, <1>6, <2>2
    <3>2. \A i \in 1..Len(reads) : ~(i <= m) => i - m \in 1..Len(pending) /\ pending[i - m] = i
      <4>1. \A i \in 1..Len(reads) : ~(i <= m) => i - m \in 1..Len(pending) /\ m + (i - m) = i
        <5>1. Len(reads) \in Nat /\ m \in Nat /\ Len(pending) = Len(reads) - m
          BY <1>2, <1>3, <1>4, <2>2
        <5> QED BY <5>1
      <4> QED BY <1>4, <2>2, <4>1
    <3>3. \A i \in 1..Len(pending) : pending[i] \in 1..Len(reads) /\ ~(pending[i] <= m)
      <4>1. Len(reads) \in Nat /\ m \in 0..Len(reads) /\ Len(pending) = Len(reads) - m
        BY <1>2, <1>3, <1>4, <2>2
      <4>2. \A i \in 1..Len(pending) : m + i \in 1..Len(reads) /\ ~(m + i <= m)
        BY <4>1
      <4>3. \A i \in 1..Len(pending) : pending[i] = m + i
        BY <1>4, <2>2
      <4> QED BY <4>2, <4>3
    <3> QED BY <1>2, <3>1, <3>2, <3>3
  <2> QED BY <2>1, <2>2
<1>9. Events!ReadsInOrder
  <2>1. Len(heard) = m + Len(inbox)
    BY <1>2, <1>3
  <2>2. pending # <<>> => inbox = <<>> /\ ~isDone
    BY <1>4
  <2>3. \A i \in DOMAIN reads : reads[i] \in Events!Events => i <= m /\ reads[i] = heard[i]
    BY <1>2, <1>5, <1>6
  <2> QED BY <1>2, <1>4, <1>7, <1>8, <2>1, <2>2, <2>3 DEF Events!ReadsInOrder
<1> QED BY <1>1, <1>9 DEF Events!EventsRight, EmissionsFit, OnceFits, ReadableFits

-----------------------------------------------------------------------------
(* generator/index.ts: consume *)

(* Where pull goes on, it has given all that it took but the value at hand;*)
(* an abort closes the iterator, and so does the end of pull.              *)
ConsumeStands ==
    /\ pull = "value" => source = consumed + 1
    /\ pull \in Consume!Pcs \ {"value", "over"} => source = consumed
    /\ stopped => closed
    /\ closed /\ ~stopped => pull = "over"
    /\ returned \in {0, 1}

ConsumeInv == Consume!ConsumeRight /\ ConsumeStands

LEMMA ConsumeStarts == Consume!Init => ConsumeInv
BY ConsumeAssumption
   DEF Consume!Init, ConsumeInv, ConsumeStands, Consume!ConsumeRight, Consume!TypeOK, Consume!Pcs,
       Consume!ClosedOnce, Consume!NoneSkipped

LEMMA ConsumeStays ==
    ASSUME ConsumeInv, UNCHANGED consume
    PROVE  ConsumeInv' /\ Consume!NothingAfterClose
<1> USE DEF consume
<1>1. ConsumeInv'
  BY DEF ConsumeInv, ConsumeStands, Consume!ConsumeRight, Consume!TypeOK, Consume!Pcs,
         Consume!ClosedOnce, Consume!NoneSkipped
<1>2. consumed \in Nat
  BY ConsumeAssumption DEF ConsumeInv, Consume!ConsumeRight, Consume!TypeOK
<1> QED BY <1>1, <1>2 DEF Consume!NothingAfterClose

LEMMA ConsumeSteps ==
    ASSUME ConsumeInv, Consume!Next
    PROVE  ConsumeInv' /\ Consume!NothingAfterClose
<1> USE ConsumeAssumption
    DEF ConsumeInv, ConsumeStands, Consume!ConsumeRight, Consume!TypeOK, Consume!Pcs,
        Consume!ClosedOnce, Consume!NoneSkipped, Consume!NothingAfterClose
<1>1. CASE Consume!Answer
  <2>1. /\ pull = "next" /\ UNCHANGED <<consumed, stopped, closed, returned, over>>
        /\ \/ pull' \in {"done", "threw"} /\ source' = source
           \/ source < MaxValues /\ source' = source + 1 /\ pull' = "value"
    BY <1>1 DEF Consume!Answer
  <2>2. /\ source = consumed /\ consumed \in Nat /\ (closed => stopped)
        /\ stopped \in BOOLEAN /\ closed \in BOOLEAN
    BY <2>1
  <2>3. CASE pull' \in {"done", "threw"} /\ source' = source
    BY <2>1, <2>2, <2>3
  <2>4. CASE source < MaxValues /\ source' = source + 1 /\ pull' = "value"
    BY <2>1, <2>2, <2>4
  <2> QED BY <2>1, <2>3, <2>4
<1>2. CASE Consume!Continue
  <2>1. /\ consumed \in Nat /\ source \in Nat /\ consumed <= source /\ source <= consumed + 1
        /\ source <= MaxValues /\ closed \in BOOLEAN /\ stopped \in BOOLEAN
    OBVIOUS
  <2>2. CASE /\ pull = "value" /\ ~stopped /\ pull' = "callback" /\ consumed' = consumed + 1
             /\ UNCHANGED <<source, stopped, closed, returned, over>>
    <3>1. ~closed /\ source = consumed + 1
      BY <2>2
    <3> QED BY <2>1, <2>2, <3>1
  <2>3. CASE /\ pull = "done" \/ (pull = "value" /\ stopped)
             /\ over' = (IF stopped \/ over # "pending" THEN over ELSE "returned")
             /\ closed' = TRUE /\ returned' = (IF closed THEN returned ELSE returned + 1)
             /\ pull' = "over" /\ UNCHANGED <<consumed, source, stopped>>
    <3>1. returned' = 1 /\ over' \in {"threw", "failed", "returned", "aborted"}
          /\ (over' = "aborted" => stopped) /\ (source = consumed + 1 => stopped)
      BY <2>1, <2>3
    <3> QED BY <2>1, <2>3, <3>1
  <2> QED BY <1>2, <2>2, <2>3 DEF Consume!Continue, Consume!Close, Consume!Settled
<1>3. CASE Consume!CallbackSettles
  BY <1>3 DEF Consume!CallbackSettles
<1>4. CASE Consume!PullAgain
  BY <1>4 DEF Consume!PullAgain
<1>5. CASE Consume!Catch
  <2>1. /\ pull \in {"threw", "failed"} /\ pull' = "over" /\ closed' = TRUE
        /\ returned' = (IF closed THEN returned ELSE returned + 1)
        /\ over' = (IF over = "pending" THEN pull ELSE over)
        /\ UNCHANGED <<source, consumed, stopped>>
    BY <1>5 DEF Consume!Catch, Consume!Close, Consume!Settled
  <2>2. source = consumed /\ consumed \in Nat /\ closed \in BOOLEAN /\ stopped \in BOOLEAN
    BY <2>1
  <2>3. returned' = 1 /\ over' \in {"threw", "failed", "returned", "aborted"}
        /\ (over' = "aborted" => stopped)
    BY <2>1
  <2> QED BY <2>1, <2>2, <2>3
<1>6. CASE Consume!Abort
  <2>1. /\ consumed \in Nat /\ source \in Nat /\ consumed <= source /\ source <= consumed + 1
        /\ closed \in BOOLEAN
    OBVIOUS
  <2>2. ~stopped /\ stopped' = TRUE /\ UNCHANGED <<pull, source, consumed>>
    BY <1>6 DEF Consume!Abort
  <2>3. closed' = TRUE /\ returned' = 1 /\ over' \in {"threw", "failed", "returned", "aborted"}
    BY <1>6, <2>1 DEF Consume!Abort, Consume!Close, Consume!Settled
  <2> QED BY <2>1, <2>2, <2>3
<1> QED BY <1>1, <1>2, <1>3, <1>4, <1>5, <1>6 DEF Consume!Next

-----------------------------------------------------------------------------
(* flow/flow.ts *)

(* A flow that was ended from outside is not in a handler; one that is     *)
(* ended under a handler is overtaken.                                     *)
GeneratorInv == Generator!GeneratorRight /\ (handling => left # "ended")

LEMMA GeneratorStarts == Generator!Init => GeneratorInv
<1> SUFFICES ASSUME Generator!Init PROVE GeneratorInv
  OBVIOUS
<1>1. /\ value = [status |-> "state", state |-> 0] /\ said = [status |-> "state", done |-> FALSE, kept |-> FALSE]
      /\ given = [action |-> FALSE, state |-> FALSE, aborted |-> FALSE]
      /\ handling = FALSE /\ defaultAction \in BOOLEAN /\ flowAborted \in BOOLEAN
      /\ nexts = 0 /\ left = "open" /\ handlers = {}
  BY DEF Generator!Init, Generator!NoAnswer, Generator!NoStep
<1>2. "state" \in Generator!Statuses /\ "state" \notin Generator!DoneStatuses /\ 0 \in 0..MaxCalls
  BY GeneratorAssumption DEF Generator!Statuses, Generator!DoneStatuses
<1>3. given \in Generator!Steps
  BY <1>1 DEF Generator!Steps
<1>4. Generator!TypeOK
  BY <1>1, <1>2, <1>3 DEF Generator!TypeOK
<1> QED BY <1>1, <1>2, <1>4
        DEF GeneratorInv, Generator!GeneratorRight, Generator!DoneIsFinal, Generator!StaysOver

LEMMA GeneratorStays ==
    ASSUME GeneratorInv, UNCHANGED generator
    PROVE  GeneratorInv' /\ Generator!AbortsHonoured
BY DEF generator, GeneratorInv, Generator!GeneratorRight, Generator!TypeOK, Generator!DoneIsFinal,
       Generator!StaysOver, Generator!AbortsHonoured, Generator!IsDone

(* A call of next that is answered at once. *)
LEMMA CallAnswered ==
    ASSUME GeneratorInv, NEW s \in Generator!Steps,
           NEW v \in [status : Generator!Statuses, state : 0..MaxCalls],
           NEW done \in BOOLEAN, NEW kept \in BOOLEAN,
           Generator!Answered(s, v, done, kept), defaultAction' \in BOOLEAN,
           done => Generator!IsDone(v), ~done /\ Generator!IsDone(v) => kept,
           left = "ended" => Generator!IsDone(v),
           flowAborted => done \/ s.aborted
    PROVE  GeneratorInv' /\ Generator!AbortsHonoured
<1>1. /\ ~handling /\ nexts < MaxCalls /\ nexts' = nexts + 1 /\ given' = s
      /\ value' = v /\ said' = [status |-> v.status, done |-> done, kept |-> kept]
      /\ UNCHANGED <<handling, flowAborted, left, handlers>>
  BY DEF Generator!Answered, Generator!Calls, Generator!Answers
<1>2. Generator!TypeOK'
  BY <1>1, GeneratorAssumption DEF GeneratorInv, Generator!GeneratorRight, Generator!TypeOK
<1>3. Generator!DoneIsFinal'
  BY <1>1 DEF Generator!DoneIsFinal, Generator!IsDone
<1>4. Generator!StaysOver'
  BY <1>1 DEF GeneratorInv, Generator!GeneratorRight, Generator!StaysOver, Generator!IsDone
<1>5. Generator!AbortsHonoured
  BY <1>1 DEF Generator!AbortsHonoured
<1> QED BY <1>1, <1>2, <1>3, <1>4, <1>5 DEF GeneratorInv, Generator!GeneratorRight

(* A handler's result is taken, or not. *)
LEMMA HandlerSettles ==
    ASSUME GeneratorInv, NEW v \in [status : Generator!Statuses, state : 0..MaxCalls],
           NEW done \in BOOLEAN, NEW kept \in BOOLEAN, Generator!Returns(v, done, kept),
           done => Generator!IsDone(v), ~done /\ Generator!IsDone(v) => kept,
           given.aborted => v = value, flowAborted => done \/ given.aborted
    PROVE  GeneratorInv' /\ Generator!AbortsHonoured
<1>1. /\ handling /\ handling' = FALSE
      /\ value' = v /\ said' = [status |-> v.status, done |-> done, kept |-> kept]
      /\ left' = IF left = "overtaken" /\ ~Generator!IsDone(v) THEN "open" ELSE left
      /\ UNCHANGED <<defaultAction, given, flowAborted, nexts, handlers>>
  BY DEF Generator!Returns, Generator!Answers
<1>2. Generator!TypeOK'
  BY <1>1 DEF GeneratorInv, Generator!GeneratorRight, Generator!TypeOK
<1>3. Generator!DoneIsFinal'
  BY <1>1 DEF Generator!DoneIsFinal, Generator!IsDone
<1>4. Generator!StaysOver'
  BY <1>1 DEF GeneratorInv, Generator!GeneratorRight, Generator!StaysOver, Generator!IsDone
<1>5. Generator!AbortsHonoured
  BY <1>1 DEF Generator!AbortsHonoured
<1> QED BY <1>1, <1>2, <1>3, <1>4, <1>5 DEF GeneratorInv, Generator!GeneratorRight

LEMMA CallsOfNext ==
    ASSUME GeneratorInv, NEW s \in Generator!Steps,
           \/ Generator!NextEnded(s) \/ Generator!NextAborted(s) \/ Generator!NextInvalid(s)
           \/ Generator!NextFlowAborted(s) \/ Generator!NextState(s) \/ Generator!NextEnd(s)
           \/ Generator!NextMissing(s)
    PROVE  GeneratorInv' /\ Generator!AbortsHonoured
<1> DEFINE ends(status) == [status |-> status, state |-> Generator!Given(s)]
<1>1. /\ value \in [status : Generator!Statuses, state : 0..MaxCalls]
      /\ defaultAction \in BOOLEAN /\ nexts \in 0..MaxCalls /\ s.aborted \in BOOLEAN
      /\ left = "ended" => Generator!IsDone(value)
  BY DEF GeneratorInv, Generator!GeneratorRight, Generator!TypeOK, Generator!StaysOver, Generator!Steps
<1>2. ASSUME nexts < MaxCalls, NEW status \in Generator!Statuses
      PROVE  ends(status) \in [status : Generator!Statuses, state : 0..MaxCalls]
  BY <1>1, <1>2, GeneratorAssumption DEF Generator!Given
<1>3. \A v, done, kept : Generator!Answered(s, v, done, kept) => nexts < MaxCalls
  BY DEF Generator!Answered, Generator!Calls
<1>4. /\ \A status \in {"error", "aborted", "end", "state"} : status \in Generator!Statuses
      /\ \A status \in {"error", "aborted", "end"} : Generator!IsDone(ends(status))
      /\ ~Generator!IsDone(ends("state"))
  BY DEF Generator!Statuses, Generator!DoneStatuses, Generator!IsDone
<1> HIDE DEF ends
<1>5. CASE Generator!NextEnded(s)
  <2>1. Generator!IsDone(value) /\ Generator!Answered(s, value, TRUE, FALSE) /\ UNCHANGED defaultAction
    BY <1>5 DEF Generator!NextEnded
  <2> QED BY <1>1, <2>1, CallAnswered
<1>6. CASE Generator!NextAborted(s)
  <2>1. /\ ~Generator!IsDone(value) /\ s.aborted /\ Generator!Answered(s, value, FALSE, TRUE)
        /\ UNCHANGED defaultAction
    BY <1>6 DEF Generator!NextAborted
  <2> QED BY <1>1, <2>1, CallAnswered
<1>7. CASE Generator!NextInvalid(s)
  <2>1. Generator!Open(s) /\ Generator!Answered(s, ends("error"), TRUE, FALSE) /\ UNCHANGED defaultAction
    BY <1>7 DEF Generator!NextInvalid, ends
  <2>2. ends("error") \in [status : Generator!Statuses, state : 0..MaxCalls]
    BY <1>2, <1>3, <1>4, <2>1
  <2> QED BY <1>1, <1>4, <2>1, <2>2, CallAnswered
<1>8. CASE Generator!NextFlowAborted(s)
  <2>1. /\ Generator!Answered(s, ends("aborted"), TRUE, FALSE) /\ UNCHANGED defaultAction
    BY <1>8 DEF Generator!NextFlowAborted, ends
  <2>2. ends("aborted") \in [status : Generator!Statuses, state : 0..MaxCalls]
    BY <1>2, <1>3, <1>4, <2>1
  <2> QED BY <1>1, <1>4, <2>1, <2>2, CallAnswered
<1>9. CASE Generator!NextState(s)
  <2>1. /\ ~Generator!IsDone(value) /\ ~flowAborted /\ UNCHANGED defaultAction
        /\ Generator!Answered(s, ends("state"), FALSE, FALSE)
    BY <1>9 DEF Generator!NextState, Generator!Open, ends
  <2>2. ends("state") \in [status : Generator!Statuses, state : 0..MaxCalls]
    BY <1>2, <1>3, <1>4, <2>1
  <2> QED BY <1>1, <1>4, <2>1, <2>2, CallAnswered
<1>10. CASE Generator!NextEnd(s)
  <2>1. /\ Generator!Answered(s, ends("end"), TRUE, FALSE) /\ defaultAction' = FALSE
    BY <1>10 DEF Generator!NextEnd, ends
  <2>2. ends("end") \in [status : Generator!Statuses, state : 0..MaxCalls]
    BY <1>2, <1>3, <1>4, <2>1
  <2> QED BY <1>1, <1>4, <2>1, <2>2, CallAnswered
<1>11. CASE Generator!NextMissing(s)
  <2>1. /\ Generator!Answered(s, ends("error"), TRUE, FALSE) /\ defaultAction' = FALSE
    BY <1>11 DEF Generator!NextMissing, ends
  <2>2. ends("error") \in [status : Generator!Statuses, state : 0..MaxCalls]
    BY <1>2, <1>3, <1>4, <2>1
  <2> QED BY <1>1, <1>4, <2>1, <2>2, CallAnswered
<1> QED BY <1>5, <1>6, <1>7, <1>8, <1>9, <1>10, <1>11

LEMMA HandlerStarts ==
    ASSUME GeneratorInv, NEW s \in Generator!Steps, Generator!NextHandler(s)
    PROVE  GeneratorInv' /\ Generator!AbortsHonoured
<1>1. /\ ~Generator!IsDone(value) /\ ~flowAborted /\ ~handling
      /\ nexts < MaxCalls /\ nexts' = nexts + 1 /\ given' = s
      /\ handling' = TRUE /\ defaultAction' = FALSE
      /\ handlers' = handlers \cup {[ended |-> said.done, flow |-> flowAborted, outside |-> left]}
      /\ UNCHANGED <<value, flowAborted, said, left>>
  BY DEF Generator!NextHandler, Generator!Dispatches, Generator!Open, Generator!Calls
<1>2. ~said.done /\ left # "ended"
  BY <1>1 DEF GeneratorInv, Generator!GeneratorRight, Generator!StaysOver
<1>3. Generator!TypeOK'
  <2>1. nexts' \in 0..MaxCalls
    BY <1>1, GeneratorAssumption DEF GeneratorInv, Generator!GeneratorRight, Generator!TypeOK
  <2> QED BY <1>1, <2>1 DEF GeneratorInv, Generator!GeneratorRight, Generator!TypeOK
<1>4. Generator!DoneIsFinal' /\ Generator!AbortsHonoured
  BY <1>1 DEF GeneratorInv, Generator!GeneratorRight, Generator!DoneIsFinal, Generator!AbortsHonoured
<1>5. Generator!StaysOver'
  BY <1>1, <1>2 DEF GeneratorInv, Generator!GeneratorRight, Generator!StaysOver
<1> QED BY <1>1, <1>2, <1>3, <1>4, <1>5 DEF GeneratorInv, Generator!GeneratorRight

LEMMA HandlersEnd ==
    ASSUME GeneratorInv,
           Generator!HandlerIgnored \/ Generator!HandlerFails \/ Generator!HandlerReturns
    PROVE  GeneratorInv' /\ Generator!AbortsHonoured
<1>1. /\ value \in [status : Generator!Statuses, state : 0..MaxCalls] /\ nexts \in 0..MaxCalls
      /\ given.aborted \in BOOLEAN /\ flowAborted \in BOOLEAN
  BY DEF GeneratorInv, Generator!GeneratorRight, Generator!TypeOK, Generator!Steps
<1>2. CASE Generator!HandlerIgnored
  <2>1. given.aborted /\ Generator!Returns(value, FALSE, TRUE)
    BY <1>2 DEF Generator!HandlerIgnored
  <2> QED BY <1>1, <2>1, HandlerSettles
<1>3. CASE Generator!HandlerFails
  <2>1. PICK state \in {value.state, nexts} :
            Generator!Returns([status |-> "error", state |-> state], TRUE, FALSE)
    BY <1>3 DEF Generator!HandlerFails
  <2> DEFINE v == [status |-> "error", state |-> state]
  <2>2. v \in [status : Generator!Statuses, state : 0..MaxCalls] /\ Generator!IsDone(v)
    BY <1>1 DEF Generator!Statuses, Generator!DoneStatuses, Generator!IsDone
  <2>3. ~given.aborted
    BY <1>3 DEF Generator!HandlerFails
  <2> HIDE DEF v
  <2>4. Generator!Returns(v, TRUE, FALSE)
    BY <2>1 DEF v
  <2> QED BY <2>2, <2>3, <2>4, HandlerSettles
<1>4. CASE Generator!HandlerReturns
  <2>1. PICK status \in Generator!Statuses :
            LET v == [status |-> IF flowAborted THEN "aborted" ELSE status, state |-> nexts]
            IN  Generator!Returns(v, Generator!IsDone(v), FALSE)
    BY <1>4 DEF Generator!HandlerReturns
  <2> DEFINE v == [status |-> IF flowAborted THEN "aborted" ELSE status, state |-> nexts]
  <2>2. /\ v \in [status : Generator!Statuses, state : 0..MaxCalls]
        /\ flowAborted => Generator!IsDone(v)
    BY <1>1 DEF Generator!Statuses, Generator!DoneStatuses, Generator!IsDone
  <2>3. ~given.aborted
    BY <1>4 DEF Generator!HandlerReturns
  <2>4. Generator!Returns(v, Generator!IsDone(v), FALSE)
    BY <2>1
  <2> HIDE DEF v
  <2>5. CASE Generator!IsDone(v)
    <3>1. Generator!Returns(v, TRUE, FALSE)
      BY <2>4, <2>5 DEF Generator!Returns, Generator!Answers, Generator!IsDone
    <3> QED BY <2>2, <2>3, <2>5, <3>1, HandlerSettles
  <2>6. CASE ~Generator!IsDone(v)
    <3>1. Generator!Returns(v, FALSE, FALSE)
      <4>1. /\ handling /\ handling' = FALSE /\ value' = v
            /\ said' = [status |-> v.status, done |-> Generator!IsDone(v), kept |-> FALSE]
            /\ left' = IF left = "overtaken" /\ ~Generator!IsDone(v) THEN "open" ELSE left
            /\ UNCHANGED <<defaultAction, given, flowAborted, nexts, handlers>>
        BY <2>4 DEF Generator!Returns, Generator!Answers
      <4>2. Generator!IsDone(v) = FALSE
        BY <2>6
      <4>3. said' = [status |-> v.status, done |-> FALSE, kept |-> FALSE]
        BY <4>1, <4>2
      <4> QED BY <4>1, <4>3 DEF Generator!Returns, Generator!Answers
    <3> QED BY <2>2, <2>3, <2>6, <3>1, HandlerSettles
  <2> QED BY <2>5, <2>6
<1> QED BY <1>2, <1>3, <1>4

LEMMA FlowInterrupted ==
    ASSUME GeneratorInv, Generator!AbortFlow \/ Generator!AbortStep \/ Generator!EndOutside
    PROVE  GeneratorInv' /\ Generator!AbortsHonoured
<1> USE DEF GeneratorInv, Generator!GeneratorRight, Generator!TypeOK, Generator!DoneIsFinal,
            Generator!StaysOver, Generator!AbortsHonoured
<1>1. CASE Generator!AbortFlow
  BY <1>1 DEF Generator!AbortFlow, Generator!IsDone
<1>2. CASE Generator!AbortStep
  BY <1>2 DEF Generator!AbortStep, Generator!Steps, Generator!IsDone
<1>3. CASE Generator!EndOutside
  <2>1. PICK status \in Generator!DoneStatuses : value' = [value EXCEPT !.status = status]
    BY <1>3 DEF Generator!EndOutside
  <2>2. /\ left' = IF handling THEN "overtaken" ELSE "ended"
        /\ UNCHANGED <<defaultAction, handling, given, flowAborted, nexts, said, handlers>>
    BY <1>3 DEF Generator!EndOutside
  <2>3. value' \in [status : Generator!Statuses, state : 0..MaxCalls] /\ Generator!IsDone(value')
    BY <2>1 DEF Generator!Statuses, Generator!IsDone
  <2> QED BY <2>2, <2>3
<1> QED BY <1>1, <1>2, <1>3

LEMMA GeneratorSteps ==
    ASSUME GeneratorInv, Generator!Next
    PROVE  GeneratorInv' /\ Generator!AbortsHonoured
BY CallsOfNext, HandlerStarts, HandlersEnd, FlowInterrupted DEF Generator!Next

-----------------------------------------------------------------------------
(* The components together *)

LEMMA MapRests == MapOver => MapInv
<1> SUFFICES ASSUME MapOver PROVE MapInv
  OBVIOUS
<1> USE BoundsAssumption DEF Map!Item, Map!Reason, Map!NoFailure
<1>1. /\ mItems = 0 /\ mLimit = 1 /\ mNext = 1 /\ running = {} /\ results = {} /\ lost = <<>>
      /\ failure = MaxItems + 1 /\ mSignalled = FALSE /\ answer = "results"
  BY DEF MapOver
<1>2. Map!Lost = {} /\ 1..mItems = {} /\ 1..(mNext - 1) = {}
  BY <1>1 DEF Map!Lost
<1>3. Cardinality(running) = 0
  BY <1>1, FS_EmptySet
<1>4. Map!TypeOK
  <2>1. <<>> \in Seq(1..mItems \cup {0}) /\ 0 \in 0..MaxItems /\ 1 \in 1..MaxLimit /\ 1 \in 1..(mItems + 1)
    BY <1>1, EmptySeq
  <2> QED BY <1>1, <2>1 DEF Map!TypeOK
<1>5. Map!Accounted /\ Map!RightAnswer
  BY <1>1, <1>2, <1>3, MapSize DEF Map!Accounted, Map!RightAnswer
<1> QED BY <1>1, <1>2, <1>4, <1>5 DEF MapInv

LEMMA PrefetchRests == PrefetchOver => PrefetchInv
<1> SUFFICES ASSUME PrefetchOver PROVE PrefetchInv
  OBVIOUS
<1>1. /\ count = 0 /\ window = 1 /\ pc = "done" /\ index = 0 /\ started = 0 /\ fetched = <<>>
      /\ outer = FALSE /\ pSignalled = FALSE /\ yielded = 0 /\ ended = "returned"
  BY DEF PrefetchOver
<1>2. fetched \in [0..(count - 1) -> {"pending", "value", "error"}]
  <2>1. 0..(count - 1) = {}
    BY <1>1
  <2> QED BY <1>1, <2>1
<1>3. Prefetch!TypeOK
  <2>1. 0 \in 0..MaxItems /\ 1 \in 1..MaxLimit /\ 0 \in 0..count
    BY <1>1, BoundsAssumption
  <2> QED BY <1>1, <1>2, <2>1 DEF Prefetch!TypeOK, Prefetch!Fetch, Prefetch!Pcs
<1>4. PrefetchStands /\ Prefetch!WindowKept /\ Prefetch!RightEnd /\ Prefetch!NothingLeft
  BY <1>1 DEF PrefetchStands, Prefetch!WindowKept, Prefetch!RightEnd, Prefetch!NothingLeft, Prefetch!Running
<1> QED BY <1>3, <1>4 DEF PrefetchInv

ConcurrentInv == FirstInv /\ MapInv /\ PrefetchInv

LEMMA ConcurrentStarts == ConcurrentInit \/ ConcurrentOver => ConcurrentInv
BY FirstStarts, MapStarts, PrefetchStarts, MapRests, PrefetchRests
   DEF ConcurrentInit, ConcurrentOver, FirstOver, ConcurrentInv

LEMMA ConcurrentStays ==
    ASSUME ConcurrentInv, UNCHANGED concurrent
    PROVE  ConcurrentInv' /\ ConcurrentVainStep
<1>1. UNCHANGED first /\ UNCHANGED map /\ UNCHANGED prefetch
  BY DEF concurrent
<1> QED BY <1>1, FirstStays, MapStays, PrefetchStays DEF ConcurrentInv, ConcurrentVainStep

LEMMA ConcurrentSteps ==
    ASSUME ConcurrentInv, ConcurrentNext
    PROVE  ConcurrentInv' /\ ConcurrentVainStep
<1>1. \/ First!Next /\ UNCHANGED map /\ UNCHANGED prefetch
      \/ Map!Next /\ UNCHANGED first /\ UNCHANGED prefetch
      \/ Prefetch!Next /\ UNCHANGED first /\ UNCHANGED map
  BY DEF ConcurrentNext
<1> QED BY <1>1, FirstSteps, FirstStays, MapSteps, MapStays, PrefetchSteps, PrefetchStays
        DEF ConcurrentInv, ConcurrentVainStep

(* Each component is right, whether it is the one that runs or rests; a    *)
(* yielder that rests has nothing to do.                                   *)
AsyncInv ==
    /\ ConcurrentInv /\ RetryInv /\ YielderInv /\ DisposerInv
    /\ ChannelInv /\ ExecutionInv /\ EventsInv /\ ConsumeInv /\ GeneratorInv
    /\ runs # "yielder" => micro = <<>>

LEMMA AsyncStarts == Init => AsyncInv
<1> SUFFICES ASSUME Init PROVE AsyncInv
  OBVIOUS
<1>1. ConcurrentInv /\ RetryInv /\ YielderInv /\ DisposerInv
  BY ConcurrentStarts, RetryStarts, RetryRests, YielderStarts, YielderRests, DisposerStarts,
     DisposerRests DEF Init
<1>2. ChannelInv /\ ExecutionInv /\ EventsInv /\ ConsumeInv /\ GeneratorInv
  BY ChannelStarts, ChannelRests, ExecutionStarts, EventsStart, ConsumeStarts, GeneratorStarts
     DEF Init, ExecutionOver, ConsumeOver, GeneratorOver
<1>3. runs # "yielder" => micro = <<>>
  BY DEF Init, YielderOver
<1> QED BY <1>1, <1>2, <1>3 DEF AsyncInv

LEMMA AsyncSteps ==
    ASSUME AsyncInv, [Next]_vars
    PROVE  AsyncInv'
<1>1. /\ ConcurrentNext \/ UNCHANGED concurrent
      /\ Retry!Next \/ UNCHANGED retry
      /\ Yielder!Next \/ UNCHANGED yielder
      /\ Disposer!Next \/ UNCHANGED disposer
  BY DEF Next, vars
<1>2. /\ Channel!Next \/ UNCHANGED channel
      /\ Execution!Next \/ UNCHANGED execution
      /\ Events!Next \/ UNCHANGED events
      /\ Consume!Next \/ UNCHANGED consume
      /\ Generator!Next \/ UNCHANGED generator
      /\ UNCHANGED runs /\ (runs = "yielder" \/ UNCHANGED yielder)
  BY DEF Next, vars
<1>3. ConcurrentInv' /\ RetryInv'
  BY <1>1, ConcurrentSteps, ConcurrentStays, RetrySteps, RetryStays DEF AsyncInv
<1>4. YielderInv' /\ DisposerInv'
  BY <1>1, YielderSteps, YielderStays, DisposerSteps, DisposerStays DEF AsyncInv
<1>5. ChannelInv' /\ ExecutionInv' /\ EventsInv' /\ ConsumeInv' /\ GeneratorInv'
  BY <1>2, ChannelSteps, ChannelStays, ExecutionSteps, ExecutionStays, EventsSteps, EventsStay,
     ConsumeSteps, ConsumeStays, GeneratorSteps, GeneratorStays
     DEF AsyncInv
<1>6. (runs # "yielder" => micro = <<>>)'
  BY <1>2 DEF AsyncInv, yielder
<1> QED BY <1>3, <1>4, <1>5, <1>6 DEF AsyncInv

LEMMA AsyncHolds == Spec => []AsyncInv
BY AsyncStarts, AsyncSteps, PTL DEF Spec

(* Of lists and limits of any length: firstInOrder gives the earliest item *)
(* that hits once all before it have missed, mapConcurrent every result or *)
(* what failed first, prefetchOrdered its values in order, each within its *)
(* limit and with nothing left running (concurrent.ts).                    *)
THEOREM CallsOverLists == Spec => []ConcurrentRight
<1>1. AsyncInv => ConcurrentRight
  <2>1. ASSUME FirstInv PROVE FirstInOrderRight
    BY <2>1, FirstSize DEF FirstInv, FirstSettled, FirstInOrderRight, First!Contained
  <2>2. ASSUME MapInv, PrefetchInv PROVE MapConcurrentRight /\ PrefetchOrderedRight
    BY <2>2 DEF MapInv, PrefetchInv, MapConcurrentRight, PrefetchOrderedRight
  <2> QED BY <2>1, <2>2 DEF AsyncInv, ConcurrentInv, ConcurrentRight
<1> QED BY <1>1, AsyncHolds, PTL

(* Of any number of attempts, callers and budgets: a retry ends for the    *)
(* reason it gives and tells the calls it leaves behind (retry.ts), callers*)
(* of a yielder are resumed in the order they came, each once, and a pump  *)
(* is coming for whoever waits (yielder.ts), and an object is disposed of  *)
(* once, for the reason that came first (disposer.ts).                     *)
THEOREM Turns == Spec => []AsyncRight
<1>1. AsyncInv => AsyncRight
  BY DEF AsyncInv, RetryInv, YielderInv, DisposerInv, AsyncRight
<1> QED BY <1>1, AsyncHolds, PTL

(* Of any mark and any number of writes: a channel buffers no more than    *)
(* its mark, its reader gets what was written in order, each once and all  *)
(* of it unless the channel was cancelled or aborted, and a writer that is *)
(* over does not leave its reader waiting (channel.ts).                    *)
THEOREM ChannelDelivers == Spec => []ChannelRight
<1>1. AsyncInv => ChannelRight
  BY ChannelIsRight DEF AsyncInv, ChannelRight
<1> QED BY <1>1, AsyncHolds, PTL

(* Of chains of any length and flows of any calls: an abort reaches the    *)
(* links before it, a link that settled is cleaned up, one link runs at a  *)
(* time, and an interruption that the next link passes over ends the chain *)
(* (execution.ts); a flow that is over stays over, and an answer is done   *)
(* exactly when it is final (flow.ts).                                     *)
THEOREM Chains == Spec => []ChainsRight
<1>1. AsyncInv => ChainsRight
  BY DEF AsyncInv, ExecutionInv, LinksInv, StopsInTurn, Execution!ChainRight, GeneratorInv, ChainsRight
<1> QED BY <1>1, AsyncHolds, PTL

(* Of any number of listeners, events, reads and nested emissions: an      *)
(* emission calls each listener once that was there when it began, in spite *)
(* of who comes or leaves meanwhile, a once settles with the first event it *)
(* was called with, only an emission that was going on when a readable     *)
(* closed fails for it (event/index.ts), and the reads of an iterator get  *)
(* its events in order, with none lost (fromEmitter, generator/index.ts).  *)
THEOREM EventsDelivered == Spec => []EventsRight
<1>1. AsyncInv => EventsRight
  BY EventsAreRight DEF AsyncInv, ConsumeInv, EventsRight
<1> QED BY <1>1, AsyncHolds, PTL

LEMMA NoVainStep ==
    ASSUME AsyncInv, [Next]_vars
    PROVE  [VainStep]_vars
<1> SUFFICES ASSUME Next PROVE VainStep
  BY DEF Next
<1>1. ConcurrentNext \/ UNCHANGED concurrent
  BY DEF Next
<1>2. ConcurrentVainStep
  BY <1>1, ConcurrentSteps, ConcurrentStays DEF AsyncInv
<1>3. Yielder!KeepsToBudget
  <2>1. CASE runs = "yielder"
    <3>1. Yielder!Next
      BY <2>1 DEF Next
    <3> QED BY <3>1, YielderBudget DEF AsyncInv
  <2>2. CASE runs # "yielder"
    BY <2>2 DEF AsyncInv, Yielder!KeepsToBudget
  <2> QED BY <2>1, <2>2
<1>4. /\ Execution!Next \/ UNCHANGED execution
      /\ Consume!Next \/ UNCHANGED consume
      /\ Generator!Next \/ UNCHANGED generator
  BY DEF Next
<1>5. Execution!NoLateCall /\ Consume!NothingAfterClose /\ Generator!AbortsHonoured
  BY <1>4, ExecutionSteps, ExecutionStays, ConsumeSteps, ConsumeStays, GeneratorSteps, GeneratorStays
     DEF AsyncInv
<1> QED BY <1>2, <1>3, <1>5 DEF VainStep

(* No call over a list starts that cannot matter any more, no caller of a  *)
(* yielder goes on beyond the budget of its turn, and no executable,       *)
(* callback or handler starts, and no handler's result is taken, once what *)
(* it is part of was aborted or closed (concurrent.ts, yielder.ts,         *)
(* execution.ts, generator/index.ts, flow.ts).                             *)
THEOREM NothingInVain == Spec => NothingStartsInVain
BY AsyncHolds, NoVainStep, PTL DEF Spec, NothingStartsInVain
=============================================================================
