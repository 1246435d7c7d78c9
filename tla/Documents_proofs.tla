-------------------------- MODULE Documents_proofs --------------------------
(***************************************************************************)
(* Proofs about what is around the runs of a flow.  The checker: the reads *)
(* that it lets pass find their producers, and it warns of no other, for   *)
(* every set of definitions, any number of nodes and of iterations.  Sets  *)
(* of flows: cycles are reported, once each, and runs are as checked, for  *)
(* every set.  Hosts: they keep their promises for any bounds on the       *)
(* invocations and segments.                                               *)
(***************************************************************************)
EXTENDS MCDocuments, FiniteSetTheorems, SequenceTheorems, WellFoundedInduction, TLAPS

-----------------------------------------------------------------------------
(* A set of naturals that is not empty has a least element. *)
LEMMA LeastOfNaturals ==
    ASSUME NEW S \in SUBSET Nat, S # {}
    PROVE  \E x \in S : \A y \in S : x <= y
<1> DEFINE R == OpToRel(<, Nat)
<1>1. PICK x \in S : \A y \in S : ~ (<<y, x>> \in R)
  <2> HIDE DEF R
  <2> QED BY WFMin, NatLessThanWellFounded DEF R
<1>2. \A y \in S : ~(y < x)
  BY <1>1 DEF OpToRel
<1> QED BY <1>2

(* What holds of 0, and of k + 1 when of k. *)
LEMMA Upwards ==
    ASSUME NEW S \in SUBSET Nat, NEW from \in S, \A k \in S : k >= from => k + 1 \in S
    PROVE  \A k \in Nat : k >= from => k \in S
<1> DEFINE Bad == {k \in Nat : k >= from /\ k \notin S}
<1> SUFFICES ASSUME Bad # {} PROVE FALSE
  OBVIOUS
<1>1. PICK x \in Bad : \A y \in Bad : x <= y
  BY LeastOfNaturals
<1>2. x - 1 \in Nat /\ x - 1 >= from /\ x - 1 \notin Bad
  BY <1>1
<1> QED BY <1>1, <1>2


-----------------------------------------------------------------------------
(* What can be reached, by layers: the sets that come of adding again and  *)
(* again what is next.  As many layers as there are elements are enough.   *)
LayersOf(U, start, step, n, r) ==
    /\ r \in [0..n -> SUBSET U] /\ r[0] = start
    /\ \A i \in 1..n : r[i] = step[r[i - 1]]

LEMMA LayersExist ==
    ASSUME NEW U, NEW start \in SUBSET U, NEW step \in [SUBSET U -> SUBSET U]
    PROVE  \A n \in Nat : \E r : LayersOf(U, start, step, n, r)
<1> DEFINE S == {n \in Nat : \E r : LayersOf(U, start, step, n, r)}
<1>1. 0 \in S
  <2>1. LayersOf(U, start, step, 0, [i \in 0..0 |-> start])
    BY DEF LayersOf
  <2> QED BY <2>1
<1>2. ASSUME NEW n \in S PROVE n + 1 \in S
  <2>1. PICK r : LayersOf(U, start, step, n, r)
    OBVIOUS
  <2> DEFINE q == [i \in 0..(n + 1) |-> IF i = n + 1 THEN step[r[n]] ELSE r[i]]
  <2>2. /\ n \in Nat /\ n \in 0..n /\ 0 \in 0..(n + 1) /\ 0 # n + 1
        /\ \A i \in 0..(n + 1) : i # n + 1 => i \in 0..n
        /\ \A i \in 1..(n + 1) : i - 1 \in 0..n /\ i - 1 # n + 1 /\ (i # n + 1 => i \in 1..n)
    OBVIOUS
  <2>3. r \in [0..n -> SUBSET U] /\ step[r[n]] \in SUBSET U
    BY <2>1, <2>2 DEF LayersOf
  <2>4. q \in [0..(n + 1) -> SUBSET U] /\ q[0] = start
    BY <2>1, <2>2, <2>3 DEF LayersOf
  <2>5. ASSUME NEW i \in 1..(n + 1) PROVE q[i] = step[q[i - 1]]
    <3>1. i \in 0..(n + 1) /\ i - 1 \in 0..(n + 1) /\ q[i - 1] = r[i - 1]
      BY <2>2
    <3>2. CASE i = n + 1
      <4>1. q[i] = step[r[n]] /\ i - 1 = n
        BY <2>2, <3>1, <3>2
      <4> QED BY <3>1, <4>1
    <3>3. CASE i # n + 1
      <4>1. q[i] = r[i] /\ i \in 1..n
        BY <2>2, <3>1, <3>3
      <4> QED BY <2>1, <3>1, <4>1 DEF LayersOf
    <3> QED BY <3>2, <3>3
  <2>6. LayersOf(U, start, step, n + 1, q)
    BY <2>4, <2>5 DEF LayersOf
  <2> QED BY <2>2, <2>6
<1> HIDE DEF S
<1>3. S \in SUBSET Nat
  BY DEF S
<1>4. \A n \in Nat : n >= 0 => n \in S
  BY <1>1, <1>2, <1>3, Upwards
<1> QED BY <1>4 DEF S

(* The last layer is closed under the step. *)
LEMMA LayersClosed ==
    ASSUME NEW U, IsFiniteSet(U), NEW N \in Nat, Cardinality(U) <= N,
           NEW start \in SUBSET U, NEW step \in [SUBSET U -> SUBSET U],
           \A X \in SUBSET U : X \subseteq step[X], step[{}] = {},
           NEW r, LayersOf(U, start, step, N, r)
    PROVE  r[N] \in SUBSET U /\ step[r[N]] = r[N] /\ start \subseteq r[N]
<1>1. /\ r \in [0..N -> SUBSET U] /\ r[0] = start /\ \A i \in 1..N : r[i] = step[r[i - 1]]
      /\ N \in 0..N
  BY DEF LayersOf
<1>2. \A X \in SUBSET U : IsFiniteSet(X) /\ Cardinality(X) \in Nat /\ Cardinality(X) <= N
  BY FS_Subset, FS_CardinalityType
<1>3. start \subseteq r[N]
  <2> DEFINE T == {i \in Nat : i <= N => start \subseteq r[i]}
  <2>1. 0 \in T
    BY <1>1
  <2>2. ASSUME NEW i \in T PROVE i + 1 \in T
    <3> SUFFICES ASSUME i + 1 <= N PROVE start \subseteq r[i + 1]
      OBVIOUS
    <3>1. i \in 0..N /\ i + 1 \in 1..N /\ (i + 1) - 1 = i
      OBVIOUS
    <3>2. r[i] \in SUBSET U /\ r[i + 1] = step[r[i]] /\ start \subseteq r[i]
      BY <1>1, <2>2, <3>1
    <3> QED BY <3>2
  <2> HIDE DEF T
  <2>3. T \in SUBSET Nat
    BY DEF T
  <2>4. N \in T
    BY <2>1, <2>2, <2>3, Upwards
  <2> QED BY <2>4 DEF T
<1> DEFINE S == {i \in Nat : i <= N => step[r[i]] = r[i] \/ Cardinality(r[i]) > i}
<1>8. 0 \in S
  <2>1. CASE start = {}
    BY <1>1, <2>1
  <2>2. CASE start # {}
    BY <1>1, <1>2, <2>2, FS_EmptySet
  <2> QED BY <2>1, <2>2
<1>4. ASSUME NEW i \in S PROVE i + 1 \in S
  <2> SUFFICES ASSUME i + 1 <= N
               PROVE  step[r[i + 1]] = r[i + 1] \/ Cardinality(r[i + 1]) > i + 1
    OBVIOUS
  <2>1. i \in 0..N /\ i + 1 \in 1..N /\ i + 1 \in 0..N /\ (i + 1) - 1 = i /\ i <= N
    OBVIOUS
  <2>2. r[i + 1] = step[r[i]] /\ r[i] \in SUBSET U /\ r[i + 1] \in SUBSET U
    BY <1>1, <2>1
  <2>3. r[i] \subseteq r[i + 1]
    BY <2>2
  <2>5. CASE step[r[i]] = r[i]
    BY <2>2, <2>5
  <2>6. CASE step[r[i]] # r[i]
    <3>1. Cardinality(r[i]) > i
      BY <2>1, <2>6
    <3>2. Cardinality(r[i]) < Cardinality(r[i + 1])
      BY <1>2, <2>2, <2>3, <2>6, FS_Subset
    <3> QED BY <1>2, <2>2, <3>1, <3>2
  <2> QED BY <2>5, <2>6
<1> HIDE DEF S
<1>5. S \in SUBSET Nat
  BY DEF S
<1>6. N \in S
  BY <1>4, <1>5, <1>8, Upwards
<1>7. r[N] \in SUBSET U
  BY <1>1
<1> QED BY <1>2, <1>3, <1>6, <1>7 DEF S

(* And it is the least closed set around the first. *)
LEMMA LayersLeast ==
    ASSUME NEW U, NEW N \in Nat, NEW start \in SUBSET U, NEW step, NEW r,
           LayersOf(U, start, step, N, r),
           NEW X, start \subseteq X, \A Y \in SUBSET X : step[Y] \subseteq X
    PROVE  r[N] \subseteq X
<1> DEFINE S == {i \in Nat : i <= N => r[i] \subseteq X}
<1>1. 0 \in S
  BY DEF LayersOf
<1>2. ASSUME NEW i \in S PROVE i + 1 \in S
  <2> SUFFICES ASSUME i + 1 <= N PROVE r[i + 1] \subseteq X
    OBVIOUS
  <2>1. i + 1 \in 1..N /\ (i + 1) - 1 = i /\ i <= N
    OBVIOUS
  <2>2. r[i + 1] = step[r[i]]
    BY <2>1 DEF LayersOf
  <2> QED BY <2>1, <2>2
<1> HIDE DEF S
<1>3. S \in SUBSET Nat
  BY DEF S
<1>4. N \in S
  BY <1>1, <1>2, <1>3, Upwards
<1> QED BY <1>4 DEF S

(* What is reached is the least set around from that no edge leaves. *)
LEMMA ReachedLeast ==
    ASSUME NEW U, IsFiniteSet(U), NEW from \in SUBSET U, NEW next
    PROVE  /\ ReachedFrom(U, from, next) \in SUBSET U /\ from \subseteq ReachedFrom(U, from, next)
           /\ \A n \in ReachedFrom(U, from, next) : next[n] \cap U \subseteq ReachedFrom(U, from, next)
           /\ \A X \in SUBSET U :
                 from \subseteq X /\ (\A n \in X : next[n] \cap U \subseteq X)
                   => ReachedFrom(U, from, next) \subseteq X
<1> DEFINE N == Cardinality(U)
<1>1. N \in Nat /\ Cardinality(U) <= N
  BY FS_CardinalityType
<1> DEFINE step == [X \in SUBSET U |-> X \cup UNION {next[n] \cap U : n \in X}]
           d == CHOOSE r : r = [i \in 0..N |->
                    IF i = 0 THEN from
                    ELSE r[i - 1] \cup UNION {next[n] \cap U : n \in r[i - 1]}]
<1> HIDE DEF N
<1>2. step \in [SUBSET U -> SUBSET U]
  OBVIOUS
<1>3. \E r : r = [i \in 0..N |->
                    IF i = 0 THEN from
                    ELSE r[i - 1] \cup UNION {next[n] \cap U : n \in r[i - 1]}]
  <2> HIDE DEF step
  <2>1. PICK r : LayersOf(U, from, step, N, r)
    BY <1>1, <1>2, LayersExist
  <2>2. \A i \in 0..N : i # 0 => i \in 1..N /\ i - 1 \in 0..N
    BY <1>1
  <2>3. ASSUME NEW i \in 0..N
        PROVE  r[i] = IF i = 0 THEN from
                      ELSE r[i - 1] \cup UNION {next[n] \cap U : n \in r[i - 1]}
    BY <2>1, <2>2 DEF LayersOf, step
  <2>4. r = [i \in 0..N |-> r[i]]
    BY <2>1 DEF LayersOf
  <2> QED BY <2>3, <2>4
<1>4. d = [i \in 0..N |->
                    IF i = 0 THEN from
                    ELSE d[i - 1] \cup UNION {next[n] \cap U : n \in d[i - 1]}]
  BY <1>3
<1>5. ReachedFrom(U, from, next) = d[N]
  BY DEF ReachedFrom, N
<1> HIDE DEF d
<1>6. /\ 0 \in 0..N
      /\ \A i \in 1..N : i \in 0..N /\ i # 0 /\ i - 1 \in 0..N
  BY <1>1
<1>7. /\ d[0] = from
      /\ \A i \in 1..N :
            d[i] = d[i - 1] \cup UNION {next[n] \cap U : n \in d[i - 1]}
  BY <1>4, <1>6
<1>8. \A i \in 0..N : d[i] \in SUBSET U
  <2> DEFINE S == {i \in Nat : i <= N => d[i] \in SUBSET U}
  <2>1. 0 \in S
    BY <1>7
  <2>2. ASSUME NEW i \in S PROVE i + 1 \in S
    <3> SUFFICES ASSUME i + 1 <= N PROVE d[i + 1] \in SUBSET U
      OBVIOUS
    <3>1. i + 1 \in 1..N /\ (i + 1) - 1 = i /\ i <= N
      BY <1>1
    <3> QED BY <1>7, <3>1
  <2> HIDE DEF S
  <2>3. S \in SUBSET Nat
    BY DEF S
  <2>4. \A i \in Nat : i >= 0 => i \in S
    BY <2>1, <2>2, <2>3, Upwards
  <2> QED BY <1>1, <2>4 DEF S
<1>9. LayersOf(U, from, step, N, d)
  <2>1. d \in [0..N -> SUBSET U]
    BY <1>4, <1>8
  <2> QED BY <1>6, <1>7, <1>8, <2>1 DEF LayersOf
<1>10. step[{}] = {} /\ \A X \in SUBSET U : X \subseteq step[X]
  OBVIOUS
<1>11. d[N] \in SUBSET U /\ step[d[N]] = d[N] /\ from \subseteq d[N]
  <2> HIDE DEF step
  <2> QED BY <1>1, <1>2, <1>9, <1>10, LayersClosed
<1>12. ASSUME NEW n \in d[N] PROVE next[n] \cap U \subseteq d[N]
  BY <1>11
<1>13. ASSUME NEW X \in SUBSET U, from \subseteq X, \A n \in X : next[n] \cap U \subseteq X
       PROVE  d[N] \subseteq X
  <2>1. \A Y \in SUBSET X : step[Y] \subseteq X
    BY <1>13
  <2> HIDE DEF step
  <2> QED BY <1>1, <1>9, <1>13, <2>1, LayersLeast
<1> QED BY <1>5, <1>11, <1>12, <1>13

-----------------------------------------------------------------------------

-----------------------------------------------------------------------------
(* FlowChecker.  The argument does not need to know that the iteration     *)
(* computes the dominators; it is enough that it ends in a solution of     *)
(* their equation: what is in dominators[n] is n or in the dominators of   *)
(* all predecessors.  So a step along any edge keeps what dominates the    *)
(* present node run.                                                       *)

(* The pass has left the nodes before the cursor as the equation has them, *)
(* until it changes one.                                                   *)
Solved(n) == n # Start => dominators[n] = Meet(n)

PassInv ==
    /\ dominators[Start] = {Start}
    /\ phase = "dominators" /\ ~changed => \A n \in Ids : n < cursor => Solved(n)
    /\ phase # "dominators" => \A n \in Ids : Solved(n)

(* Only what has no edge into nothing is walked, and the walk has run what *)
(* dominates the node it has come to.                                      *)
WalkInv ==
    /\ phase \in {"dominators", "checked", "rejected"} => node = Start
    /\ phase \in {"walk", "over"} => \A n \in Ids : Missing \notin Edges(def, n)
    /\ phase # "over" => dominators[node] \subseteq ran \cup {node}

CheckerInv == TypeOK /\ PassInv /\ WalkInv

-----------------------------------------------------------------------------
(* The start is a node. *)
LEMMA StartIsNode == Start \in Ids /\ NodeCount \in Nat /\ Missing \notin Ids
    BY CheckerAssumption DEF Start, Ids, Missing

(* Before the first pass every node is taken to be dominated by all.       *)
LEMMA CheckerStarts == Init => CheckerInv
<1> SUFFICES ASSUME Init PROVE CheckerInv
    OBVIOUS
<1> USE StartIsNode
<1>1. dominators \in [Ids -> SUBSET Ids] /\ dominators[Start] = {Start}
    BY DEF Init
<1>2. cursor \in 1 .. (NodeCount + 1)
    BY DEF Init
<1>3. TypeOK
    BY <1>1, <1>2 DEF Init, TypeOK
<1>4. PassInv
    BY <1>1 DEF Init, PassInv, Ids
<1>5. WalkInv
    BY <1>1 DEF Init, WalkInv
<1> QED
    BY <1>3, <1>4, <1>5 DEF CheckerInv

(* What the equation asks of n is asked of n's predecessors alone.         *)
LEMMA MeetType == TypeOK => \A n \in Ids : Meet(n) \in SUBSET Ids
    BY DEF TypeOK, Meet

-----------------------------------------------------------------------------
(* Refining one node keeps what is written, as sets only ever shrink.      *)
LEMMA DominateStep == CheckerInv /\ Dominate => CheckerInv'
<1> SUFFICES ASSUME CheckerInv, Dominate PROVE CheckerInv'
    OBVIOUS
<1> USE StartIsNode
<1>1. /\ phase = "dominators" /\ cursor \in Ids /\ cursor' = cursor + 1
      /\ UNCHANGED <<def, phase, node, loops, ran>>
    BY DEF Dominate
<1>2. cursor' \in 1 .. (NodeCount + 1)
    BY <1>1 DEF Ids
<1>3. CASE cursor = Start
    <2>1. UNCHANGED <<dominators, changed>>
        BY <1>3 DEF Dominate
    <2>2. TypeOK'
        BY <1>1, <1>2, <2>1 DEF CheckerInv, TypeOK
    <2>3. PassInv'
        <3>1. ASSUME NEW n \in Ids, n < cursor', ~changed' PROVE Solved(n)'
            <4>1. CASE n = Start
                BY <4>1 DEF Solved
            <4>2. CASE n # Start
                <5>1. n < cursor
                    BY <1>1, <1>3, <3>1, <4>2 DEF Ids, Start
                <5>2. Solved(n)
                    BY <1>1, <2>1, <3>1, <5>1 DEF CheckerInv, PassInv
                <5> QED
                    BY <1>1, <2>1, <5>2 DEF Solved, Meet, Predecessors, Edges, BodyTargets,
                                              OtherTargets
            <4> QED
                BY <4>1, <4>2
        <3> QED
            BY <1>1, <2>1, <3>1 DEF CheckerInv, PassInv
    <2>4. WalkInv'
        BY <1>1, <2>1 DEF CheckerInv, WalkInv
    <2> QED
        BY <2>2, <2>3, <2>4 DEF CheckerInv
<1>4. CASE cursor # Start
    <2>1. /\ dominators' = [dominators EXCEPT ![cursor] = Meet(cursor)]
          /\ changed' = (changed \/ Meet(cursor) # dominators[cursor])
        BY <1>4 DEF Dominate
    <2>2. Meet(cursor) \in SUBSET Ids
        BY <1>1, MeetType DEF CheckerInv
    <2>3. dominators' \in [Ids -> SUBSET Ids] /\ dominators'[Start] = dominators[Start]
        BY <1>1, <1>4, <2>1, <2>2 DEF CheckerInv, TypeOK
    <2>4. changed' \in BOOLEAN
        BY <2>1
    <2>5. TypeOK'
        BY <1>1, <1>2, <2>3, <2>4 DEF CheckerInv, TypeOK
    <2>6. PassInv'
        <3>1. ASSUME NEW n \in Ids, n < cursor', ~changed' PROVE Solved(n)'
            <4>1. ~changed /\ Meet(cursor) = dominators[cursor]
                BY <2>1, <3>1
            <4>2. dominators' = dominators
                BY <1>1, <2>1, <4>1 DEF CheckerInv, TypeOK
            <4>3. n < cursor \/ n = cursor
                BY <1>1, <3>1 DEF Ids
            <4>4. Solved(n)
                BY <1>1, <4>1, <4>3 DEF CheckerInv, PassInv, Solved
            <4> QED
                BY <1>1, <4>2, <4>4 DEF Solved, Meet, Predecessors, Edges, BodyTargets,
                                          OtherTargets
        <3> QED
            BY <1>1, <2>3, <3>1 DEF CheckerInv, PassInv
    <2>7. WalkInv'
        BY <1>1, <2>3 DEF CheckerInv, WalkInv, PassInv
    <2> QED
        BY <2>5, <2>6, <2>7 DEF CheckerInv
<1> QED
    BY <1>3, <1>4

(* A pass that has changed nothing has solved the equation for all nodes.  *)
LEMMA PassStep == CheckerInv /\ Pass => CheckerInv'
<1> SUFFICES ASSUME CheckerInv, Pass PROVE CheckerInv'
    OBVIOUS
<1> USE StartIsNode
<1>1. /\ phase = "dominators" /\ cursor \notin Ids /\ changed' = FALSE
      /\ UNCHANGED <<def, dominators, node, loops, ran>>
    BY DEF Pass
<1>2. \A n \in Ids : Solved(n) => Solved(n)'
    BY <1>1 DEF Solved, Meet, Predecessors, Edges, BodyTargets, OtherTargets
<1>3. CASE changed
    <2>1. cursor' = 1 /\ phase' = phase
        BY <1>3 DEF Pass
    <2>2. TypeOK'
        <3>1. cursor' \in 1 .. (NodeCount + 1)
            BY <2>1
        <3> QED
            BY <1>1, <2>1, <3>1, Zenon DEF CheckerInv, TypeOK
    <2>3. PassInv'
        BY <1>1, <2>1 DEF CheckerInv, PassInv, Ids
    <2>4. WalkInv'
        BY <1>1, <2>1 DEF CheckerInv, WalkInv
    <2> QED
        BY <2>2, <2>3, <2>4 DEF CheckerInv
<1>4. CASE ~changed
    <2>1. cursor' = cursor /\ phase' = "checked"
        BY <1>4 DEF Pass
    <2>2. \A n \in Ids : n < cursor
        BY <1>1 DEF CheckerInv, TypeOK, Ids
    <2>3. TypeOK'
        BY <1>1, <2>1 DEF CheckerInv, TypeOK
    <2>4. PassInv'
        BY <1>1, <1>2, <1>4, <2>1, <2>2 DEF CheckerInv, PassInv
    <2>5. WalkInv'
        BY <1>1, <2>1 DEF CheckerInv, WalkInv
    <2> QED
        BY <2>3, <2>4, <2>5 DEF CheckerInv
<1> QED
    BY <1>3, <1>4

(* What leads into nothing is an error, so it is rejected. *)
LEMMA CheckStep == CheckerInv /\ Check => CheckerInv'
<1> SUFFICES ASSUME CheckerInv, Check PROVE CheckerInv'
    OBVIOUS
<1>1. /\ phase = "checked" /\ phase' = IF Issues(def) = {} THEN "walk" ELSE "rejected"
      /\ UNCHANGED <<def, dominators, cursor, changed, node, loops, ran>>
    BY DEF Check
<1>2. Issues(def) = {} => \A n \in Ids : Missing \notin Edges(def, n)
    BY DEF Issues
<1>3. \A n \in Ids : Solved(n) => Solved(n)'
    BY <1>1 DEF Solved, Meet, Predecessors, Edges, BodyTargets, OtherTargets
<1>4. TypeOK'
    BY <1>1 DEF CheckerInv, TypeOK
<1>5. PassInv'
    BY <1>1, <1>3 DEF CheckerInv, PassInv
<1>6. (\A n \in Ids : Missing \notin Edges(def, n)) => (\A n \in Ids : Missing \notin Edges(def', n))
    BY <1>1
<1>7. WalkInv'
    BY <1>1, <1>2, <1>6 DEF CheckerInv, WalkInv
<1> QED
    BY <1>4, <1>5, <1>7 DEF CheckerInv

-----------------------------------------------------------------------------
(* A move along an edge, or back to the node itself: what dominates the    *)
(* target dominates the node the run comes from, or is the target.         *)
LEMMA MoveStep ==
    ASSUME CheckerInv, phase = "walk", NEW t, t \in Edges(def, node) \/ t = node,
           Move(t), loops' \in [Ids -> Nat], Edges(def, node) \subseteq Targets
    PROVE  CheckerInv'
<1> USE StartIsNode
<1>1. node' = t /\ ran' = ran \cup {node} /\ UNCHANGED <<def, dominators, cursor, changed, phase>>
    BY DEF Move
<1>2. node \in Ids /\ t \in Ids
    BY DEF CheckerInv, TypeOK, WalkInv, Targets
<1>3. \A n \in Ids : Solved(n) => Solved(n)'
    BY <1>1 DEF Solved, Meet, Predecessors, Edges, BodyTargets, OtherTargets
<1>4. dominators[t] \subseteq ran \cup {node, t}
    <2>1. dominators[node] \subseteq ran \cup {node}
        BY DEF CheckerInv, WalkInv
    <2>2. CASE t = node
        BY <2>1, <2>2
    <2>3. CASE t = Start
        BY <2>3 DEF CheckerInv, PassInv
    <2>4. CASE t # node /\ t # Start
        <3>1. node \in Predecessors(def, t)
            BY <1>2, <2>4 DEF Predecessors
        <3>2. dominators[t] = Meet(t)
            BY <1>2, <2>4 DEF CheckerInv, PassInv, Solved
        <3>3. dominators[t] \subseteq {t} \cup dominators[node]
            BY <3>1, <3>2 DEF Meet
        <3> QED
            BY <2>1, <3>3
    <2> QED
        BY <2>2, <2>3, <2>4
<1>5. TypeOK'
    BY <1>1, <1>2 DEF CheckerInv, TypeOK
<1>6. PassInv'
    BY <1>1, <1>3 DEF CheckerInv, PassInv
<1>7. \A n \in Ids : Missing \notin Edges(def', n)
    BY <1>1 DEF CheckerInv, WalkInv
<1>8. WalkInv'
    BY <1>1, <1>4, <1>7 DEF WalkInv
<1> QED
    BY <1>5, <1>6, <1>8 DEF CheckerInv

(* The edges of a node of the definition lead to nodes or to nothing.      *)
LEMMA EdgeTypes == CheckerInv => /\ def[node] \in Shape
                           /\ Edges(def, node) \subseteq Targets
<1> SUFFICES ASSUME CheckerInv PROVE def[node] \in Shape /\ Edges(def, node) \subseteq Targets
    OBVIOUS
<1>1. def[node] \in Shape
    BY CheckerAssumption DEF CheckerInv, TypeOK
<1>2. BodyTargets(def, node) \subseteq Targets
    BY <1>1 DEF BodyTargets, Optional, Shape
<1>3. OtherTargets(def, node) \subseteq Targets
    <2>1. def[node].kind \in {"step", "loop", "end"}
        BY <1>1 DEF Shape
    <2>2. CASE def[node].kind = "step"
        BY <1>1, <2>2 DEF OtherTargets, Shape
    <2>3. CASE def[node].kind = "loop"
        BY <1>1, <2>3 DEF OtherTargets, Optional, Shape
    <2>4. CASE def[node].kind = "end"
        BY <2>4 DEF OtherTargets
    <2> QED
        BY <2>1, <2>2, <2>3, <2>4
<1> QED
    BY <1>1, <1>2, <1>3 DEF Edges

(* A run over an accepted definition moves along the edges of its kinds.   *)
LEMMA WalkStep == CheckerInv /\ (Step \/ LoopExit \/ LoopBody \/ LoopExhausted) => CheckerInv'
<1> SUFFICES ASSUME CheckerInv, Step \/ LoopExit \/ LoopBody \/ LoopExhausted PROVE CheckerInv'
    OBVIOUS
<1>1. def[node] \in Shape /\ Edges(def, node) \subseteq Targets
    BY EdgeTypes
<1>2. loops \in [Ids -> Nat] /\ node \in Ids
    BY DEF CheckerInv, TypeOK
<1>3. CASE Step
    <2>1. PICK t \in def[node].to : Move(t)
        BY <1>3 DEF Step
    <2>2. t \in Edges(def, node)
        BY <1>3, <2>1 DEF Step, Walking, Edges, OtherTargets
    <2>3. loops' \in [Ids -> Nat] /\ phase = "walk"
        BY <1>2, <1>3 DEF Step, Walking
    <2> QED
        BY <1>1, <2>1, <2>2, <2>3, MoveStep
<1>4. CASE LoopExit
    <2>1. def[node].exit \in Edges(def, node) /\ phase = "walk" /\ Move(def[node].exit)
        BY <1>4 DEF LoopExit, Walking, Edges, OtherTargets
    <2>2. loops' \in [Ids -> Nat]
        BY <1>2, <1>4 DEF LoopExit
    <2> QED
        BY <1>1, <2>1, <2>2, MoveStep
<1>5. CASE LoopBody
    <2>1. loops' \in [Ids -> Nat] /\ phase = "walk"
        BY <1>2, <1>5 DEF LoopBody, Walking
    <2>2. CASE def[node].body = None
        <3>1. Move(node)
            BY <1>5, <2>2 DEF LoopBody
        <3> QED
            BY <1>1, <2>1, <3>1, MoveStep
    <2>3. CASE def[node].body # None
        <3>1. Move(def[node].body)
            BY <1>5, <2>3 DEF LoopBody
        <3>2. def[node].body \in Edges(def, node)
            BY <1>5, <2>3 DEF LoopBody, Walking, Edges, BodyTargets, Optional
        <3> QED
            BY <1>1, <2>1, <3>1, <3>2, MoveStep
    <2> QED
        BY <2>2, <2>3
<1>6. CASE LoopExhausted
    <2>1. def[node].exhausted \in Edges(def, node) /\ phase = "walk" /\ Move(def[node].exhausted)
        BY <1>6 DEF LoopExhausted, Walking, Edges, OtherTargets, Optional
    <2>2. loops' \in [Ids -> Nat]
        BY <1>2, <1>6 DEF LoopExhausted
    <2> QED
        BY <1>1, <2>1, <2>2, MoveStep
<1> QED
    BY <1>3, <1>4, <1>5, <1>6

(* A run that ends or stops reads nothing more.                            *)
LEMMA StopStep == CheckerInv /\ Stop => CheckerInv'
<1> SUFFICES ASSUME CheckerInv, Stop PROVE CheckerInv'
    OBVIOUS
<1>1. /\ phase = "walk" /\ phase' = "over" /\ ran' = ran \cup {node}
      /\ UNCHANGED <<def, dominators, cursor, changed, node, loops>>
    BY DEF Stop, Walking
<1>2. \A n \in Ids : Solved(n) => Solved(n)'
    BY <1>1 DEF Solved, Meet, Predecessors, Edges, BodyTargets, OtherTargets
<1>3. TypeOK'
    BY <1>1 DEF CheckerInv, TypeOK
<1>4. PassInv'
    BY <1>1, <1>2 DEF CheckerInv, PassInv
<1>5. \A n \in Ids : Missing \notin Edges(def', n)
    BY <1>1 DEF CheckerInv, WalkInv
<1>6. WalkInv'
    BY <1>1, <1>5 DEF WalkInv
<1> QED
    BY <1>3, <1>4, <1>6 DEF CheckerInv

(* The invariant is kept by every step of the checker and of the run.      *)
LEMMA CheckerNext == CheckerInv /\ [Next]_vars => CheckerInv'
<1> SUFFICES ASSUME CheckerInv, [Next]_vars PROVE CheckerInv'
    OBVIOUS
<1>1. CASE Dominate \/ Pass \/ Check
    BY <1>1, DominateStep, PassStep, CheckStep
<1>2. CASE Step \/ LoopExit \/ LoopBody \/ LoopExhausted \/ Stop
    BY <1>2, WalkStep, StopStep
<1>3. CASE UNCHANGED vars
    <2>1. UNCHANGED <<def, dominators, cursor, changed, phase, node, loops, ran>>
        BY <1>3 DEF vars
    <2>2. \A n \in Ids : Solved(n) => Solved(n)'
        BY <2>1 DEF Solved, Meet, Predecessors, Edges, BodyTargets, OtherTargets
    <2>3. (\A n \in Ids : Missing \notin Edges(def, n)) => (\A n \in Ids : Missing \notin Edges(def', n))
        BY <2>1
    <2>4. TypeOK'
        BY <2>1 DEF CheckerInv, TypeOK
    <2>5. PassInv'
        BY <2>1, <2>2 DEF CheckerInv, PassInv
    <2>6. WalkInv'
        BY <2>1, <2>3 DEF CheckerInv, WalkInv
    <2> QED
        BY <2>4, <2>5, <2>6 DEF CheckerInv
<1> QED
    BY <1>1, <1>2, <1>3 DEF Next

(* A read of results.<producer> that has no warning finds its producer     *)
(* run, whichever way the run came to the reader (checker.ts checkReads,   *)
(* computeDominators).                                                     *)
THEOREM Reads == Spec => []ReadsFindProducers
<1>1. Init => CheckerInv
    BY CheckerStarts
<1>2. CheckerInv /\ [Next]_vars => CheckerInv'
    BY CheckerNext
<1>3. CheckerInv => ReadsFindProducers
    <2> SUFFICES ASSUME CheckerInv, phase = "walk", NEW p \in Ids, ~MaybeMissing(node, p), p # node
                 PROVE  p \in ran
        BY DEF ReadsFindProducers
    <2>1. p \in dominators[node]
        BY DEF MaybeMissing
    <2> QED
        BY <2>1 DEF CheckerInv, WalkInv
<1> QED
    BY <1>1, <1>2, <1>3, PTL DEF Spec

-----------------------------------------------------------------------------
(* What the checker reaches is the least set with the start that is closed. *)
LEMMA ReachedIs ==
    ASSUME NEW from \in SUBSET Ids, NEW next
    PROVE  /\ Reached(from, next) \in SUBSET Ids /\ from \subseteq Reached(from, next)
           /\ \A n \in Reached(from, next) : next[n] \cap Ids \subseteq Reached(from, next)
           /\ \A X \in SUBSET Ids :
                 from \subseteq X /\ (\A n \in X : next[n] \cap Ids \subseteq X)
                   => Reached(from, next) \subseteq X
<1>1. IsFiniteSet(Ids)
  BY CheckerAssumption, FS_Interval DEF Ids
<1> QED BY <1>1, ReachedLeast DEF Reached

(* The nodes that can be reached without p, and without them no edge.      *)
LEMMA AvoidingIs ==
    ASSUME NEW d, NEW p \in Ids
    PROVE  /\ p # Start => Start \in Avoiding(d, p)
           /\ \A q \in Avoiding(d, p), n \in Ids :
                 n \in Edges(d, q) /\ n # p => n \in Avoiding(d, p)
           /\ \A X \in SUBSET Ids :
                 (p # Start => Start \in X)
                 /\ (\A q \in X, n \in Ids : n \in Edges(d, q) /\ n # p => n \in X)
                   => Avoiding(d, p) \subseteq X
<1> DEFINE next == [n \in Ids |-> Edges(d, n) \ {p}]
<1>1. Start \in Ids /\ {Start} \ {p} \in SUBSET Ids
  BY CheckerAssumption DEF Start, Ids
<1>2. Avoiding(d, p) = Reached({Start} \ {p}, next)
  BY DEF Avoiding
<1>3. \A q \in Ids : next[q] \cap Ids = {n \in Ids : n \in Edges(d, q) /\ n # p}
  OBVIOUS
<1> HIDE DEF next
<1>4. /\ Reached({Start} \ {p}, next) \in SUBSET Ids
      /\ {Start} \ {p} \subseteq Reached({Start} \ {p}, next)
      /\ \A n \in Reached({Start} \ {p}, next) : next[n] \cap Ids \subseteq Reached({Start} \ {p}, next)
      /\ \A X \in SUBSET Ids :
             {Start} \ {p} \subseteq X /\ (\A n \in X : next[n] \cap Ids \subseteq X)
                => Reached({Start} \ {p}, next) \subseteq X
  BY <1>1, ReachedIs
<1>5. ASSUME NEW q \in Avoiding(d, p), NEW n \in Ids, n \in Edges(d, q), n # p
      PROVE  n \in Avoiding(d, p)
  <2>1. q \in Ids /\ n \in next[q] \cap Ids
    BY <1>2, <1>3, <1>4, <1>5
  <2> QED BY <1>2, <1>4, <2>1
<1>6. ASSUME NEW X \in SUBSET Ids, p # Start => Start \in X,
             \A q \in X, n \in Ids : n \in Edges(d, q) /\ n # p => n \in X
      PROVE  Avoiding(d, p) \subseteq X
  <2>1. {Start} \ {p} \subseteq X
    BY <1>6
  <2>2. \A q \in X : next[q] \cap Ids \subseteq X
    BY <1>3, <1>6
  <2> QED BY <1>2, <1>4, <2>1, <2>2
<1>7. p # Start => Start \in Avoiding(d, p)
  BY <1>2, <1>4
<1> QED BY <1>5, <1>6, <1>7

(* Where every node can be reached, each but the start has an edge into it. *)
LEMMA ReachableHasEdge ==
    ASSUME NEW d, Unreachable(d) = {}, NEW n \in Ids, n # Start
    PROVE  Predecessors(d, n) # {}
<1> SUFFICES ASSUME Predecessors(d, n) = {} PROVE FALSE
  OBVIOUS
<1> DEFINE next == [m \in Ids |-> Edges(d, m)]
           X == Ids \ {n}
<1>1. Start \in Ids /\ {Start} \in SUBSET Ids
  BY CheckerAssumption DEF Start, Ids
<1>2. \A m \in X : next[m] \cap Ids \subseteq X
  BY DEF Predecessors
<1>3. Reachable(d, Start) = Reached({Start}, next)
  BY DEF Reachable
<1>4. Reached({Start}, next) \subseteq X
  <2> HIDE DEF next
  <2>1. X \in SUBSET Ids /\ {Start} \subseteq X
    BY <1>1
  <2> HIDE DEF X
  <2> QED BY <1>1, <1>2, <2>1, ReachedIs
<1> QED BY <1>3, <1>4 DEF Unreachable

(* The iteration takes no dominator away. *)
NoneLost ==
    Unreachable(def) = {} =>
        \A n, p \in Ids : n \notin Avoiding(def, p) => p \in dominators[n]

(* At first everything dominates every node but the start.                 *)
LEMMA NoneLostAtFirst == Init => NoneLost
<1> SUFFICES ASSUME Init, NEW n \in Ids, NEW p \in Ids, n \notin Avoiding(def, p)
             PROVE  p \in dominators[n]
  BY DEF NoneLost
<1>1. n = Start => p = Start
  BY AvoidingIs
<1> QED BY <1>1 DEF Init

(* What is on every way to a node is so for each node before it.           *)
LEMMA NoneLostByMeet ==
    ASSUME NoneLost, Unreachable(def) = {}, NEW n \in Ids, n # Start,
           NEW p \in Ids, n \notin Avoiding(def, p)
    PROVE  p \in Meet(n)
<1>1. Predecessors(def, n) # {}
  BY ReachableHasEdge
<1>2. ASSUME NEW q \in Predecessors(def, n), p # n PROVE p \in dominators[q]
  <2>1. q \in Ids /\ n \in Edges(def, q)
    BY DEF Predecessors
  <2>2. q \notin Avoiding(def, p)
    BY <1>2, <2>1, AvoidingIs
  <2> QED BY <2>1, <2>2 DEF NoneLost
<1> QED BY <1>1, <1>2 DEF Meet

(* Only Dominate takes something away, and by the equation.                *)
LEMMA NoneLostStep ==
    ASSUME CheckerInv, NoneLost, [Next]_vars
    PROVE  NoneLost'
<1>1. CASE UNCHANGED <<def, dominators>>
  <2>1. def' = def /\ dominators' = dominators
    BY <1>1
  <2> QED BY <2>1 DEF NoneLost
<1>2. CASE Dominate /\ cursor # Start
  <2>1. cursor \in Ids /\ def' = def /\ dominators' = [dominators EXCEPT ![cursor] = Meet(cursor)]
    BY <1>2 DEF Dominate
  <2>2. dominators \in [Ids -> SUBSET Ids]
    BY DEF CheckerInv, TypeOK
  <2>3. ASSUME Unreachable(def) = {}, NEW n \in Ids, NEW p \in Ids, n \notin Avoiding(def, p)
        PROVE  p \in dominators'[n]
    <3>1. CASE n = cursor
      BY <1>2, <2>1, <2>2, <2>3, <3>1, NoneLostByMeet
    <3>2. CASE n # cursor
      BY <2>1, <2>2, <2>3, <3>2 DEF NoneLost
    <3> QED BY <3>1, <3>2
  <2> QED BY <2>1, <2>3 DEF NoneLost
<1>3. UNCHANGED <<def, dominators>> \/ (Dominate /\ cursor # Start)
  BY DEF Next, vars, Dominate, Pass, Check, Step, LoopExit, LoopBody, LoopExhausted, Stop, Move
<1> QED BY <1>1, <1>2, <1>3

(* A solution of the equation has no more than the dominators. *)
LEMMA NoneAdded ==
    ASSUME CheckerInv, phase = "checked", NEW n \in Ids, NEW p \in dominators[n]
    PROVE  n \notin Avoiding(def, p)
<1>1. p \in Ids /\ dominators \in [Ids -> SUBSET Ids] /\ dominators[Start] = {Start}
  BY DEF CheckerInv, TypeOK, PassInv
<1> DEFINE X == {m \in Ids : p \notin dominators[m]}
<1>2. p # Start => Start \in X
  BY <1>1, CheckerAssumption DEF Start, Ids
<1>3. ASSUME NEW q \in X, NEW m \in Ids, m \in Edges(def, q), m # p
      PROVE  m \in X
  <2>1. CASE m = Start
    BY <1>1, <1>3, <2>1
  <2>2. CASE m # Start
    <3>1. q \in Predecessors(def, m)
      BY <1>3 DEF Predecessors
    <3>2. dominators[m] = Meet(m)
      BY <2>2 DEF CheckerInv, PassInv, Solved
    <3>3. p \notin Meet(m)
      BY <1>3, <3>1 DEF Meet
    <3> QED BY <3>2, <3>3
  <2> QED BY <2>1, <2>2
<1>4. X \in SUBSET Ids
  OBVIOUS
<1>5. Avoiding(def, p) \subseteq X
  <2> HIDE DEF X
  <2> QED BY <1>1, <1>2, <1>3, <1>4, AvoidingIs
<1> QED BY <1>5

(* The iteration computes the dominators: the checker warns of a read      *)
(* exactly if a way to its node avoids its producer.                       *)
THEOREM Warnings == Spec => []WarningsExact
<1>1. CheckerInv /\ NoneLost => WarningsExact
  <2> SUFFICES ASSUME CheckerInv, NoneLost, phase = "checked", Unreachable(def) = {}, NEW n \in Ids
               PROVE  dominators[n] = {p \in Ids : n \notin Avoiding(def, p)}
    BY DEF WarningsExact
  <2>1. dominators[n] \subseteq Ids
    BY DEF CheckerInv, TypeOK
  <2> QED BY <2>1, NoneAdded DEF NoneLost
<1>2. Init => CheckerInv /\ NoneLost
  BY CheckerStarts, NoneLostAtFirst
<1>3. CheckerInv /\ NoneLost /\ [Next]_vars => CheckerInv' /\ NoneLost'
  BY CheckerNext, NoneLostStep
<1> QED BY <1>1, <1>2, <1>3, PTL DEF Spec

-----------------------------------------------------------------------------
(* FlowSets.  The search for components is Tarjan's, on the links that the *)
(* stage considers.                                                        *)

(* There is a finite number of flows; the root is one of them.             *)
LEMMA FlowNumbersFinite ==
    /\ FlowCount \in Nat \ {0} /\ MaxDepth \in Nat \ {0}
    /\ IsFiniteSet(Sets!Flows) /\ Cardinality(Sets!Flows) = FlowCount
    /\ Sets!Root \in Sets!Flows /\ Sets!Missing \notin Sets!Flows /\ 0 \notin Sets!Flows
BY SetsAssumption, FS_Interval DEF Sets!Flows, Sets!Root, Sets!Missing

(* The sizes and searches of the instance are those of this module.        *)
LEMMA SetsSize == \A S : Sets!Cardinality(S) = Cardinality(S)
BY DEF Sets!Cardinality, Cardinality

LEMMA SetsReached ==
    ASSUME NEW U, NEW from, NEW next
    PROVE  Sets!ReachedFrom(U, from, next) = ReachedFrom(U, from, next)
BY SetsSize, Zenon DEF Sets!ReachedFrom, ReachedFrom

(* Where ways lead to is the least set that no way leaves. *)
LEMMA LeadsToIs ==
    ASSUME NEW W, NEW f \in Sets!Flows
    PROVE  /\ Sets!LeadsTo(W, f) \in SUBSET Sets!Flows
           /\ \A t \in Sets!Flows : <<f, t>> \in W => t \in Sets!LeadsTo(W, f)
           /\ \A v \in Sets!LeadsTo(W, f), t \in Sets!Flows :
                 <<v, t>> \in W => t \in Sets!LeadsTo(W, f)
           /\ \A X \in SUBSET Sets!Flows :
                 (\A t \in Sets!Flows : <<f, t>> \in W => t \in X)
                 /\ (\A v \in X, t \in Sets!Flows : <<v, t>> \in W => t \in X)
                   => Sets!LeadsTo(W, f) \subseteq X
<1> DEFINE next == [g \in Sets!Flows |-> {t \in Sets!Flows : <<g, t>> \in W}]
           R == ReachedFrom(Sets!Flows, next[f], next)
<1>1. \A g \in Sets!Flows, t \in Sets!Flows : t \in next[g] <=> <<g, t>> \in W
  OBVIOUS
<1>2. \A g \in Sets!Flows : next[g] \in SUBSET Sets!Flows
  OBVIOUS
<1>8. Sets!LeadsTo(W, f) = Sets!ReachedFrom(Sets!Flows, next[f], next)
  BY DEF Sets!LeadsTo
<1> HIDE DEF next
<1>3. Sets!LeadsTo(W, f) = R
  BY <1>8, SetsReached
<1>4. /\ R \in SUBSET Sets!Flows /\ next[f] \subseteq R
      /\ \A n \in R : next[n] \cap Sets!Flows \subseteq R
      /\ \A X \in SUBSET Sets!Flows :
            next[f] \subseteq X /\ (\A n \in X : next[n] \cap Sets!Flows \subseteq X) => R \subseteq X
  <2>1. next[f] \in SUBSET Sets!Flows /\ IsFiniteSet(Sets!Flows)
    BY <1>2, FlowNumbersFinite
  <2> DEFINE from == next[f]
  <2> HIDE DEF from
  <2>2. from \in SUBSET Sets!Flows
    BY <2>1 DEF from
  <2>3. /\ ReachedFrom(Sets!Flows, from, next) \in SUBSET Sets!Flows
        /\ from \subseteq ReachedFrom(Sets!Flows, from, next)
        /\ \A n \in ReachedFrom(Sets!Flows, from, next) :
              next[n] \cap Sets!Flows \subseteq ReachedFrom(Sets!Flows, from, next)
        /\ \A X \in SUBSET Sets!Flows :
              from \subseteq X /\ (\A n \in X : next[n] \cap Sets!Flows \subseteq X)
                 => ReachedFrom(Sets!Flows, from, next) \subseteq X
    BY <2>1, <2>2, ReachedLeast
  <2> QED BY <2>3 DEF from
<1> HIDE DEF R
<1>5. \A t \in Sets!Flows : <<f, t>> \in W => t \in R
  BY <1>1, <1>4
<1>6. ASSUME NEW v \in R, NEW t \in Sets!Flows, <<v, t>> \in W PROVE t \in R
  <2>1. v \in Sets!Flows
    BY <1>4
  <2>2. t \in next[v]
    BY <1>1, <1>6, <2>1
  <2> QED BY <1>4, <2>2
<1>7. ASSUME NEW X \in SUBSET Sets!Flows, \A t \in Sets!Flows : <<f, t>> \in W => t \in X,
             \A v \in X, t \in Sets!Flows : <<v, t>> \in W => t \in X
      PROVE  R \subseteq X
  <2>1. next[f] \subseteq X
    BY <1>1, <1>2, <1>7
  <2>2. \A n \in X : next[n] \cap Sets!Flows \subseteq X
    BY <1>1, <1>7
  <2> QED BY <1>4, <2>1, <2>2
<1> QED BY <1>3, <1>4, <1>5, <1>6, <1>7

(* One flow leads to another over ways, or is the other. *)
LeadsOn(W, f, g) == f = g \/ g \in Sets!LeadsTo(W, f)

(* Nothing leads out of a set that no way leaves.                          *)
LEMMA LeadsStay ==
    ASSUME NEW W, NEW f \in Sets!Flows, NEW X \in SUBSET Sets!Flows, f \in X,
           \A v \in X, t \in Sets!Flows : <<v, t>> \in W => t \in X
    PROVE  \A g : LeadsOn(W, f, g) => g \in X
<1>1. Sets!LeadsTo(W, f) \subseteq X
  BY LeadsToIs
<1> QED BY <1>1 DEF LeadsOn

(* Leading on is transitive.                                               *)
LEMMA LeadsFar ==
    ASSUME NEW W, NEW f \in Sets!Flows, NEW g, NEW h, LeadsOn(W, f, g), LeadsOn(W, g, h)
    PROVE  LeadsOn(W, f, h) /\ h \in Sets!Flows
<1>1. Sets!LeadsTo(W, f) \in SUBSET Sets!Flows
  BY LeadsToIs
<1>2. g \in Sets!Flows
  BY <1>1 DEF LeadsOn
<1>3. Sets!LeadsTo(W, g) \in SUBSET Sets!Flows
  BY <1>2, LeadsToIs
<1>4. CASE f = g
  BY <1>3, <1>4 DEF LeadsOn
<1>5. CASE g \in Sets!LeadsTo(W, f)
  <2>1. Sets!LeadsTo(W, g) \subseteq Sets!LeadsTo(W, f)
    <3> DEFINE X == Sets!LeadsTo(W, f)
    <3>1. X \in SUBSET Sets!Flows /\ \A v \in X, t \in Sets!Flows : <<v, t>> \in W => t \in X
      BY LeadsToIs
    <3>2. \A t \in Sets!Flows : <<g, t>> \in W => t \in X
      BY <1>5, <3>1
    <3> HIDE DEF X
    <3>3. Sets!LeadsTo(W, g) \subseteq X
      BY <1>2, <3>1, <3>2, LeadsToIs
    <3> QED BY <3>3 DEF X
  <2> QED BY <1>1, <1>5, <2>1 DEF LeadsOn
<1> QED BY <1>4, <1>5 DEF LeadsOn

LEMMA LeadsByWay ==
    ASSUME NEW W, NEW f \in Sets!Flows, NEW g \in Sets!Flows, <<f, g>> \in W
    PROVE  LeadsOn(W, f, g)
BY LeadsToIs DEF LeadsOn

-----------------------------------------------------------------------------
(* Links are from flows, and those that count lead to flows. *)
Link == [from : Sets!Flows, edge : {"call", "goto"}, to : Sets!Flows \cup {Sets!Missing}]

LinksTyped == flows \in SUBSET Sets!Flows /\ links \in Seq(Link)

(* A visit: of a flow, and the links of it that are left.                 *)
Visits == [flow : Sets!Flows, rest : SUBSET Nat]

SearchTyped ==
    /\ index \in [Sets!Flows -> Nat] /\ low \in [Sets!Flows -> Nat]
    /\ component \in [Sets!Flows -> Nat]
    /\ stack \in Seq(Sets!Flows) /\ calls \in Seq(Visits)

Numbered == {f \in Sets!Flows : index[f] # 0}

OnStack == {f \in Sets!Flows : index[f] # 0 /\ component[f] = 0}

(* The flows whose visit is not over. *)
Entered == {calls[k].flow : k \in 1..Len(calls)}

Ways == {<<links[i].from, links[i].to>> : i \in Sets!Considered}

Leads(f, g) == LeadsOn(Ways, f, g)

LookedAt == {i \in Sets!Considered : \A k \in 1..Len(calls) : i \notin calls[k].rest}

(* Numbers go up, each flow's is its own, and so are those of components. *)
Numbers ==
    /\ \A f, g \in Numbered : index[f] = index[g] => f = g
    /\ \A f \in Sets!Flows : index[f] < Sets!Counter
    /\ \A f \in Sets!Flows : component[f] # 0 => index[f] # 0
    /\ \A f \in Sets!Flows : component[f] < Sets!Count

StackFits ==
    /\ \A f \in OnStack : \E i \in 1..Len(stack) : stack[i] = f
    /\ \A i \in 1..Len(stack) : stack[i] \in OnStack
    /\ \A i, j \in 1..Len(stack) : i < j => index[stack[i]] < index[stack[j]]

(* A visit waits for the one that it began for its next link. *)
CallsFit ==
    /\ \A k \in 1..Len(calls) :
          /\ calls[k].flow \in OnStack
          /\ \A i \in calls[k].rest : i \in Sets!Considered /\ links[i].from = calls[k].flow
    /\ \A j, k \in 1..Len(calls) : j < k => index[calls[j].flow] < index[calls[k].flow]
    /\ \A k \in 1..Len(calls) : k < Len(calls) =>
          calls[k].rest # {} /\ links[Sets!Foremost(calls[k].rest)].to = calls[k + 1].flow

(* On the stack each leads to those above it, and to one that is visited. *)
Up == \A x, y \in OnStack : index[x] <= index[y] => Leads(x, y)

Down == \A y \in OnStack : \E g \in Entered : index[g] <= index[y] /\ Leads(y, g)

(* The low number is that of a flow on the stack that can be reached. *)
LowFits ==
    \A f \in OnStack :
        low[f] <= index[f] /\ \E z \in OnStack : index[z] = low[f] /\ Leads(f, z)

(* What is closed off is not left; what was seen of a flow on the stack    *)
(* counts in its low number, or is closed off; and what a flow that is not *)
(* visited any more has found counts in that of the visit it belongs to.   *)
NoneLeave ==
    \A i \in Sets!Considered : component[links[i].from] # 0 => component[links[i].to] # 0

Seen ==
    \A i \in LookedAt : links[i].from \in OnStack =>
        \/ component[links[i].to] # 0
        \/ links[i].to \in OnStack /\ low[links[i].from] <= index[links[i].to]

Passed ==
    \A y \in OnStack \ Entered : \E g \in Entered :
        /\ index[g] < index[y] /\ low[g] <= low[y]
        /\ \A h \in Entered : index[h] <= index[g] \/ index[h] > index[y]

(* Components are right as soon as they are there. *)
Cut ==
    \A f, g \in Sets!Flows : component[f] # 0 /\ component[g] # 0 =>
        (component[f] = component[g] <=> Leads(f, g) /\ Leads(g, f))

SearchInv ==
    /\ SearchTyped /\ Numbers /\ StackFits /\ CallsFit
    /\ Up /\ Down /\ LowFits /\ NoneLeave /\ Seen /\ Passed /\ Cut

-----------------------------------------------------------------------------
(* What is considered has two ends.                                        *)
LEMMA ConsideredTyped ==
    ASSUME LinksTyped
    PROVE  /\ Sets!Considered \in SUBSET Nat
           /\ \A i \in Sets!Considered :
                 links[i].from \in Sets!Flows /\ links[i].to \in Sets!Flows
                 /\ <<links[i].from, links[i].to>> \in Ways
<1>1. Sets!Considered \in SUBSET (1..Len(links))
  BY DEF LinksTyped, Sets!Considered
<1>2. \A i \in 1..Len(links) : links[i].from \in Sets!Flows
  <2>1. \A i \in 1..Len(links) : links[i] \in Link
    BY DEF LinksTyped
  <2> QED BY <2>1 DEF Link
<1>3. \A i \in Sets!Considered : links[i].to \in Sets!Flows
  BY DEF LinksTyped, Sets!Considered
<1> QED BY <1>1, <1>2, <1>3 DEF Ways, LinksTyped

(* Where nothing is numbered there is nothing to be wrong. *)
Fresh ==
    /\ index = Sets!Unnumbered /\ component = Sets!Unnumbered /\ low = Sets!Unnumbered
    /\ stack = <<>> /\ calls = <<>>

(* So the invariant of the search holds before it begins.                  *)
LEMMA FreshFits == LinksTyped /\ Fresh => SearchInv
<1> SUFFICES ASSUME LinksTyped, Fresh PROVE SearchInv
  OBVIOUS
<1>1. \A f \in Sets!Flows : index[f] = 0 /\ component[f] = 0 /\ low[f] = 0
  BY DEF Fresh, Sets!Unnumbered
<1>2. SearchTyped /\ OnStack = {} /\ Numbered = {} /\ Len(stack) = 0 /\ Len(calls) = 0
  BY <1>1 DEF Fresh, SearchTyped, Sets!Unnumbered, OnStack, Numbered
<1>3. Numbers
  <2>1. {f \in Sets!Flows : index[f] # 0} = {}
    BY <1>1
  <2>2. {component[f] : f \in Sets!Flows} \ {0} = {}
    BY <1>1
  <2>3. Sets!Counter = 1 /\ Sets!Count = 1
    BY <2>1, <2>2, SetsSize, FS_EmptySet DEF Sets!Counter, Sets!Count
  <2> QED BY <1>1, <1>2, <2>3 DEF Numbers
<1>4. Up /\ Down /\ LowFits /\ Passed /\ StackFits /\ CallsFit
  BY <1>2 DEF Up, Down, LowFits, Passed, StackFits, CallsFit
<1>5. NoneLeave /\ Cut
  BY <1>1, ConsideredTyped DEF NoneLeave, Cut
<1>6. Seen
  BY <1>2 DEF Seen
<1> QED BY <1>2, <1>3, <1>4, <1>5, <1>6 DEF SearchInv

-----------------------------------------------------------------------------
(* The ways are made of the links, the flows and the phase.                *)
LEMMA SameWays ==
    ASSUME UNCHANGED <<links, flows, stage>>
    PROVE  /\ Sets!Considered' = Sets!Considered /\ Ways' = Ways /\ links' = links
           /\ \A x, y : Leads(x, y)' <=> Leads(x, y)
           /\ \A f : Sets!Successors(f)' = Sets!Successors(f)
<1>1. Sets!Considered' = Sets!Considered /\ links' = links
  BY DEF Sets!Considered
<1>2. Ways' = Ways
  BY <1>1 DEF Ways
<1>3. \A f : Sets!Successors(f)' = Sets!Successors(f)
  BY <1>1 DEF Sets!Successors
<1> QED BY <1>1, <1>2, <1>3 DEF Leads

(* The next number is one more than there are flows with a number.         *)
LEMMA NumbersCount ==
    ASSUME SearchTyped
    PROVE  /\ IsFiniteSet(Numbered) /\ Sets!Counter = 1 + Cardinality(Numbered)
           /\ Cardinality(Numbered) \in Nat
<1>1. Sets!Counter = 1 + Cardinality(Numbered)
  BY SetsSize DEF Sets!Counter, Numbered
<1>2. IsFiniteSet(Numbered)
  BY FlowNumbersFinite, FS_Subset DEF Numbered
<1> QED BY <1>1, <1>2, FS_CardinalityType

(* The one that is visited now is the last that was entered. *)
LEMMA CallerIsLast ==
    ASSUME SearchInv, calls # <<>>
    PROVE  /\ Len(calls) \in Nat /\ Len(calls) > 0
           /\ Sets!Caller = calls[Len(calls)] /\ Sets!Caller.flow \in Entered
           /\ Sets!Caller.flow \in OnStack
           /\ Sets!Caller.rest \in SUBSET Sets!Successors(Sets!Caller.flow)
           /\ \A h \in Entered : h \in OnStack /\ index[h] <= index[Sets!Caller.flow]
<1>1. calls \in Seq(Visits)
  BY DEF SearchInv, SearchTyped
<1>2. Len(calls) \in Nat /\ Len(calls) > 0 /\ Len(calls) \in 1..Len(calls)
  BY <1>1
<1>3. Sets!Caller = calls[Len(calls)]
  BY DEF Sets!Caller
<1>4. Sets!Caller.flow \in Entered
  BY <1>2, <1>3 DEF Entered
<1>5. Sets!Caller.flow \in OnStack /\ Sets!Caller.rest \in SUBSET Sets!Successors(Sets!Caller.flow)
  BY <1>2, <1>3 DEF SearchInv, CallsFit, Sets!Successors
<1>6. ASSUME NEW h \in Entered PROVE h \in OnStack /\ index[h] <= index[Sets!Caller.flow]
  <2>1. PICK k \in 1..Len(calls) : h = calls[k].flow
    BY DEF Entered
  <2>2. h \in OnStack
    BY <2>1 DEF SearchInv, CallsFit
  <2>3. index[h] \in Nat /\ index[Sets!Caller.flow] \in Nat
    BY <1>5, <2>2 DEF SearchInv, SearchTyped, OnStack
  <2>4. k = Len(calls) \/ k < Len(calls)
    BY <1>2
  <2>5. k < Len(calls) => index[calls[k].flow] < index[calls[Len(calls)].flow]
    BY <1>2 DEF SearchInv, CallsFit
  <2> QED BY <1>3, <2>1, <2>2, <2>3, <2>4, <2>5
<1> QED BY <1>2, <1>3, <1>4, <1>5, <1>6

(* The foremost of some links is one of them.                              *)
LEMMA ForemostIs ==
    ASSUME NEW S \in SUBSET Nat, S # {}
    PROVE  Sets!Foremost(S) \in S
<1>1. \E i \in S : \A j \in S : i <= j
  BY LeastOfNaturals
<1> QED BY <1>1 DEF Sets!Foremost

(* A flow that is entered goes on top, and all below lead to it. *)
LEMMA EnterKeeps ==
    ASSUME LinksTyped, SearchInv, UNCHANGED <<links, flows, stage>>,
           NEW f \in Sets!Flows, index[f] = 0, Sets!Enter(f),
           calls # <<>> => Sets!Caller.rest # {} /\ f = Sets!Target
    PROVE  SearchInv'
<1> USE DEF SearchInv
<1>1. /\ index' = [index EXCEPT ![f] = Sets!Counter] /\ low' = [low EXCEPT ![f] = Sets!Counter]
      /\ stack' = Append(stack, f) /\ component' = component
      /\ calls' = Append(calls, [flow |-> f, rest |-> Sets!Successors(f)])
  BY DEF Sets!Enter
<1>2. /\ Sets!Considered' = Sets!Considered /\ Ways' = Ways /\ links' = links
      /\ \A x, y : Leads(x, y)' <=> Leads(x, y)
      /\ \A g : Sets!Successors(g)' = Sets!Successors(g)
  BY SameWays
<1>3. /\ Sets!Counter \in Nat /\ Sets!Counter # 0 /\ Sets!Counter' = Sets!Counter + 1
      /\ \A g \in Sets!Flows : index[g] \in Nat /\ index[g] < Sets!Counter
  <2>1. /\ IsFiniteSet(Numbered) /\ Sets!Counter = 1 + Cardinality(Numbered)
        /\ Cardinality(Numbered) \in Nat
    BY NumbersCount
  <2>6. \A g \in Sets!Flows : index'[g] = IF g = f THEN Sets!Counter ELSE index[g]
    BY <1>1 DEF SearchTyped
  <2>7. Sets!Counter # 0
    BY <2>1
  <2>8. \A g \in Sets!Flows : index'[g] # 0 <=> g = f \/ index[g] # 0
    BY <2>6, <2>7
  <2>2. Numbered' = Numbered \cup {f} /\ f \notin Numbered
    BY <2>8 DEF Numbered
  <2>3. Cardinality(Numbered') = Cardinality(Numbered) + 1
    BY <2>1, <2>2, FS_AddElement
  <2>4. Sets!Counter' = 1 + Cardinality(Numbered')
    BY SetsSize DEF Sets!Counter, Numbered
  <2>5. \A g \in Sets!Flows : index[g] \in Nat /\ index[g] < Sets!Counter
    BY DEF SearchTyped, Numbers
  <2> QED BY <2>1, <2>3, <2>4, <2>5
<1>4. /\ index'[f] = Sets!Counter /\ low'[f] = Sets!Counter
      /\ \A g \in Sets!Flows : g # f => index'[g] = index[g] /\ low'[g] = low[g]
  BY <1>1 DEF SearchTyped
<1>5. Sets!Considered \in SUBSET Nat /\ Sets!Successors(f) \in SUBSET Sets!Considered
  BY ConsideredTyped DEF Sets!Successors
<1>6. SearchTyped'
  <2>1. index' \in [Sets!Flows -> Nat] /\ low' \in [Sets!Flows -> Nat]
    BY <1>1, <1>3 DEF SearchTyped
  <2>2. [flow |-> f, rest |-> Sets!Successors(f)] \in Visits
    BY <1>5 DEF Visits
  <2> HIDE DEF SearchInv
  <2>3. stack' \in Seq(Sets!Flows) /\ calls' \in Seq(Visits)
    BY <1>1, <2>2 DEF SearchInv, SearchTyped
  <2> QED BY <1>1, <2>1, <2>3 DEF SearchInv, SearchTyped
<1>7. f \notin OnStack /\ OnStack' = OnStack \cup {f} /\ OnStack \in SUBSET Sets!Flows
  <2>1. component[f] = 0
    BY DEF Numbers
  <2>2. ASSUME NEW g \in Sets!Flows PROVE g \in OnStack' <=> g \in OnStack \cup {f}
    BY <1>1, <1>3, <1>4, <2>1 DEF OnStack
  <2> QED BY <2>2 DEF OnStack
<1>8. /\ Len(calls) \in Nat /\ Len(calls') = Len(calls) + 1
      /\ calls'[Len(calls) + 1] = [flow |-> f, rest |-> Sets!Successors(f)]
      /\ \A k \in 1..Len(calls) : calls'[k] = calls[k]
      /\ \A k \in 1..Len(calls') : k \in 1..Len(calls) \/ k = Len(calls) + 1
  BY <1>1 DEF SearchTyped
<1>9. Entered' = Entered \cup {f} /\ Entered \subseteq OnStack
  <2>1. Entered \subseteq OnStack
    BY DEF Entered, CallsFit
  <2>2. \A k \in 1..Len(calls) : k \in 1..Len(calls')
    BY <1>8
  <2>3. Len(calls) + 1 \in 1..Len(calls')
    BY <1>8
  <2>4. \A g : g \in Entered' <=> \E k \in 1..Len(calls') : g = calls'[k].flow
    BY DEF Entered
  <2>5. \A g : g \in Entered <=> \E k \in 1..Len(calls) : g = calls[k].flow
    BY DEF Entered
  <2>6. \A g \in Entered' : g \in Entered \cup {f}
    BY <1>8, <2>4, <2>5
  <2>7. \A g \in Entered : g \in Entered'
    BY <1>8, <2>2, <2>4, <2>5
  <2>8. f \in Entered'
    BY <1>8, <2>3, <2>4
  <2> QED BY <2>1, <2>6, <2>7, <2>8
<1>10. ASSUME NEW i \in LookedAt' PROVE i \in LookedAt /\ links[i].from # f
  <2>1. i \in Sets!Considered /\ \A k \in 1..Len(calls') : i \notin calls'[k].rest
    BY <1>2 DEF LookedAt
  <2>2. \A k \in 1..Len(calls) : i \notin calls[k].rest
    BY <1>8, <2>1
  <2>3. i \notin Sets!Successors(f)
    BY <1>8, <2>1
  <2> QED BY <2>1, <2>2, <2>3 DEF LookedAt, Sets!Successors
<1>11. Numbers'
  <2>1. \A g \in Sets!Flows : index'[g] < Sets!Counter'
    BY <1>3, <1>4
  <2>2. Sets!Count' = Sets!Count
    BY <1>1 DEF Sets!Count
  <2>3. \A g \in Sets!Flows : component'[g] # 0 => index'[g] # 0
    BY <1>1, <1>3, <1>4 DEF Numbers
  <2>4. \A g \in Sets!Flows : component'[g] < Sets!Count'
    BY <1>1, <2>2 DEF Numbers
  <2>5. \A g, h \in Sets!Flows : index'[g] # 0 /\ index'[g] = index'[h] => g = h
    BY <1>3, <1>4 DEF Numbers, Numbered
  <2> QED BY <2>1, <2>3, <2>4, <2>5 DEF Numbers, Numbered
<1>12. StackFits'
  <2>1. /\ Len(stack) \in Nat /\ Len(stack') = Len(stack) + 1 /\ stack'[Len(stack) + 1] = f
        /\ \A i \in 1..Len(stack) : stack'[i] = stack[i] /\ i \in 1..Len(stack')
        /\ \A i \in 1..Len(stack') : i \in 1..Len(stack) \/ i = Len(stack) + 1
        /\ Len(stack) + 1 \in 1..Len(stack')
    BY <1>1 DEF SearchTyped
  <2>2. \A g \in OnStack' : \E i \in 1..Len(stack') : stack'[i] = g
    BY <1>7, <2>1 DEF StackFits
  <2>3. \A i \in 1..Len(stack') : stack'[i] \in OnStack'
    BY <1>7, <2>1 DEF StackFits
  <2>4. ASSUME NEW i \in 1..Len(stack'), NEW j \in 1..Len(stack'), i < j
        PROVE  index'[stack'[i]] < index'[stack'[j]]
    <3>1. i \in 1..Len(stack) /\ stack'[i] = stack[i] /\ stack[i] \in OnStack
      BY <2>1, <2>4 DEF StackFits
    <3>2. index'[stack'[i]] = index[stack[i]] /\ index[stack[i]] < Sets!Counter
      BY <1>3, <1>4, <1>7, <3>1
    <3>3. CASE j = Len(stack) + 1
      BY <1>4, <2>1, <3>2, <3>3
    <3>4. CASE j \in 1..Len(stack)
      <4>1. stack'[j] = stack[j] /\ stack[j] \in OnStack /\ index[stack[i]] < index[stack[j]]
        BY <2>1, <2>4, <3>1, <3>4 DEF StackFits
      <4> QED BY <1>4, <1>7, <3>2, <4>1
    <3> QED BY <2>1, <3>3, <3>4
  <2> QED BY <2>2, <2>3, <2>4 DEF StackFits
<1>13. CallsFit'
  <2>1. ASSUME NEW k \in 1..Len(calls') 
        PROVE  /\ calls'[k].flow \in OnStack'
               /\ \A i \in calls'[k].rest :
                     i \in Sets!Considered' /\ links'[i].from = calls'[k].flow
    <3>1. CASE k \in 1..Len(calls)
      BY <1>2, <1>7, <1>8, <3>1 DEF CallsFit
    <3>2. CASE k = Len(calls) + 1
      BY <1>2, <1>7, <1>8, <3>2 DEF Sets!Successors
    <3> QED BY <1>8, <3>1, <3>2
  <2>2. ASSUME NEW j \in 1..Len(calls'), NEW k \in 1..Len(calls'), j < k
        PROVE  index'[calls'[j].flow] < index'[calls'[k].flow]
    <3>1. j \in 1..Len(calls) /\ calls'[j] = calls[j] /\ calls[j].flow \in OnStack
      BY <1>8, <2>2 DEF CallsFit
    <3>2. index'[calls'[j].flow] = index[calls[j].flow] /\ index[calls[j].flow] < Sets!Counter
      BY <1>3, <1>4, <1>7, <3>1
    <3>3. CASE k = Len(calls) + 1
      BY <1>4, <1>8, <3>2, <3>3
    <3>4. CASE k \in 1..Len(calls)
      <4>1. calls'[k] = calls[k] /\ calls[k].flow \in OnStack
            /\ index[calls[j].flow] < index[calls[k].flow]
        BY <1>8, <2>2, <3>1, <3>4 DEF CallsFit
      <4> QED BY <1>4, <1>7, <3>2, <4>1
    <3> QED BY <1>8, <3>3, <3>4
  <2>3. ASSUME NEW k \in 1..Len(calls'), k < Len(calls')
        PROVE  calls'[k].rest # {} /\ links'[Sets!Foremost(calls'[k].rest)].to = calls'[k + 1].flow
    <3>1. k \in 1..Len(calls) /\ calls'[k] = calls[k]
      BY <1>8, <2>3
    <3>2. CASE k < Len(calls)
      <4>1. k + 1 \in 1..Len(calls) /\ calls'[k + 1] = calls[k + 1]
        BY <1>8, <3>1, <3>2
      <4> QED BY <1>2, <3>1, <3>2, <4>1 DEF CallsFit
    <3>3. CASE k = Len(calls)
      <4>1. calls # <<>>
        BY <3>1
      <4>2. Sets!Caller = calls[k] /\ Sets!Caller.rest # {} /\ f = Sets!Target
        BY <3>3, <4>1 DEF Sets!Caller
      <4>3. calls'[k + 1].flow = f
        BY <1>8, <3>3
      <4> QED BY <1>2, <3>1, <4>2, <4>3 DEF Sets!Target
    <3> QED BY <1>8, <3>1, <3>2, <3>3
  <2> QED BY <2>1, <2>2, <2>3 DEF CallsFit
<1>14. \A x \in OnStack : Leads(x, f)
  <2> SUFFICES ASSUME NEW x \in OnStack PROVE Leads(x, f)
    OBVIOUS
  <2>1. PICK g \in Entered : index[g] <= index[x] /\ Leads(x, g)
    BY DEF Down
  <2>2. calls # <<>>
    BY <2>1 DEF Entered
  <2>3. /\ Sets!Caller.flow \in OnStack /\ g \in OnStack /\ index[g] <= index[Sets!Caller.flow]
        /\ Sets!Caller.rest \in SUBSET Sets!Successors(Sets!Caller.flow)
    BY <2>1, <2>2, CallerIsLast
  <2>4. Leads(g, Sets!Caller.flow)
    BY <2>3 DEF Up
  <2>5. Sets!Caller.rest \in SUBSET Nat /\ Sets!Foremost(Sets!Caller.rest) \in Sets!Caller.rest
    BY <1>5, <2>2, <2>3, ForemostIs, ConsideredTyped DEF Sets!Successors
  <2>6. <<Sets!Caller.flow, f>> \in Ways
    BY <2>2, <2>3, <2>5, ConsideredTyped DEF Sets!Target, Sets!Successors
  <2>7. Leads(Sets!Caller.flow, f)
    BY <1>7, <2>3, <2>6, LeadsByWay DEF Leads
  <2> QED BY <1>7, <2>1, <2>3, <2>4, <2>7, LeadsFar DEF Leads
<1>15. Up'
  <2> SUFFICES ASSUME NEW x \in OnStack', NEW y \in OnStack', index'[x] <= index'[y]
               PROVE  Leads(x, y)
    BY <1>2 DEF Up
  <2>1. CASE x \in OnStack /\ y \in OnStack
    BY <1>4, <1>7, <2>1 DEF Up
  <2>2. CASE x = f /\ y \in OnStack
    BY <1>3, <1>4, <1>7, <2>2
  <2>3. CASE x \in OnStack /\ y = f
    BY <1>14, <2>3
  <2>4. CASE x = f /\ y = f
    BY <2>4 DEF Leads, LeadsOn
  <2> QED BY <1>7, <2>1, <2>2, <2>3, <2>4
<1>16. Down'
  <2> SUFFICES ASSUME NEW y \in OnStack'
               PROVE  \E g \in Entered' : index'[g] <= index'[y] /\ Leads(y, g)
    BY <1>2 DEF Down
  <2>1. CASE y = f
    BY <1>3, <1>4, <1>9, <2>1 DEF Leads, LeadsOn
  <2>2. CASE y \in OnStack
    <3>1. PICK g \in Entered : index[g] <= index[y] /\ Leads(y, g)
      BY <2>2 DEF Down
    <3>2. index'[g] = index[g] /\ index'[y] = index[y]
      BY <1>4, <1>7, <1>9, <2>2
    <3> QED BY <1>9, <3>1, <3>2
  <2> QED BY <1>7, <2>1, <2>2
<1>17. LowFits'
  <2> SUFFICES ASSUME NEW x \in OnStack'
               PROVE  low'[x] <= index'[x]
                      /\ \E z \in OnStack' : index'[z] = low'[x] /\ Leads(x, z)
    BY <1>2 DEF LowFits
  <2>1. CASE x = f
    BY <1>3, <1>4, <1>7, <2>1 DEF Leads, LeadsOn
  <2>2. CASE x \in OnStack
    <3>1. PICK z \in OnStack : index[z] = low[x] /\ Leads(x, z)
      BY <2>2 DEF LowFits
    <3>2. low[x] <= index[x]
      BY <2>2 DEF LowFits
    <3>3. index'[z] = index[z] /\ index'[x] = index[x] /\ low'[x] = low[x]
      BY <1>4, <1>7, <2>2
    <3> QED BY <1>7, <3>1, <3>2, <3>3
  <2> QED BY <1>7, <2>1, <2>2
<1>18. NoneLeave' /\ Cut'
  BY <1>1, <1>2 DEF NoneLeave, Cut
<1>19. Seen'
  <2> SUFFICES ASSUME NEW i \in LookedAt', links[i].from \in OnStack'
               PROVE  \/ component[links[i].to] # 0
                      \/ links[i].to \in OnStack' /\ low'[links[i].from] <= index'[links[i].to]
    BY <1>1, <1>2 DEF Seen
  <2>1. i \in LookedAt /\ links[i].from \in OnStack
    BY <1>7, <1>10
  <2>2. component[links[i].to] # 0 \/ (links[i].to \in OnStack /\ low[links[i].from] <= index[links[i].to])
    BY <2>1 DEF Seen
  <2> QED BY <1>4, <1>7, <2>1, <2>2
<1>20. Passed'
  <2> SUFFICES ASSUME NEW y \in OnStack' \ Entered'
               PROVE  \E g \in Entered' :
                        /\ index'[g] < index'[y] /\ low'[g] <= low'[y]
                        /\ \A h \in Entered' : index'[h] <= index'[g] \/ index'[h] > index'[y]
    BY DEF Passed
  <2>1. y \in OnStack \ Entered
    BY <1>7, <1>9
  <2>2. PICK g \in Entered :
            /\ index[g] < index[y] /\ low[g] <= low[y]
            /\ \A h \in Entered : index[h] <= index[g] \/ index[h] > index[y]
    BY <2>1 DEF Passed
  <2>3. \A h \in OnStack : index'[h] = index[h] /\ low'[h] = low[h]
    BY <1>4, <1>7
  <2>4. index'[f] > index'[y]
    BY <1>3, <1>4, <1>7, <2>1, <2>3
  <2> QED BY <1>9, <2>1, <2>2, <2>3, <2>4
<1> QED BY <1>6, <1>11, <1>12, <1>13, <1>15, <1>16, <1>17, <1>18, <1>19, <1>20

(* Going on with the next link leaves the rest of the calls as they are.   *)
LEMMA AdvancedIs ==
    ASSUME NEW all \in Seq(Visits), all # <<>>
    PROVE  /\ Sets!Advanced(all) \in Seq(Visits)
           /\ Len(Sets!Advanced(all)) = Len(all) /\ Len(all) \in Nat /\ Len(all) \in 1..Len(all)
           /\ \A k \in 1..Len(all) : Sets!Advanced(all)[k].flow = all[k].flow
           /\ \A k \in 1..Len(all) : k # Len(all) => Sets!Advanced(all)[k] = all[k]
           /\ Sets!Advanced(all)[Len(all)].rest
                = all[Len(all)].rest \ {Sets!Foremost(all[Len(all)].rest)}
<1>1. Len(all) \in Nat /\ Len(all) \in 1..Len(all) /\ DOMAIN all = 1..Len(all)
  OBVIOUS
<1> DEFINE n == Len(all)
           last == all[n]
           r == last.rest \ {Sets!Foremost(last.rest)}
           new == [flow |-> last.flow, rest |-> r]
<1>2. last \in Visits
  BY <1>1
<1>3. Sets!Advanced(all) = [all EXCEPT ![n] = [last EXCEPT !.rest = r]]
  BY DEF Sets!Advanced
<1> HIDE DEF last
<1>4. last.flow \in Sets!Flows /\ last.rest \in SUBSET Nat
  BY <1>2 DEF Visits
<1>5. r \in SUBSET Nat
  BY <1>4
<1> HIDE DEF r
<1>6. [last EXCEPT !.rest = r] = new
  BY <1>2 DEF Visits
<1>7. new \in Visits /\ new.flow = last.flow /\ new.rest = r
  BY <1>4, <1>5 DEF Visits
<1>8. Sets!Advanced(all) = [all EXCEPT ![n] = new]
  BY <1>3, <1>6
<1> HIDE DEF new
<1>9. /\ Sets!Advanced(all) \in Seq(Visits)
      /\ Len(Sets!Advanced(all)) = Len(all) /\ Sets!Advanced(all)[n] = new
      /\ \A k \in 1..Len(all) : k # n => Sets!Advanced(all)[k] = all[k]
  <2> DEFINE V == Visits
  <2> HIDE DEF V
  <2>1. all \in Seq(V) /\ new \in V
    BY <1>7 DEF V
  <2>2. /\ [all EXCEPT ![n] = new] \in Seq(V)
        /\ Len([all EXCEPT ![n] = new]) = Len(all)
        /\ \A k \in 1..Len(all) : [all EXCEPT ![n] = new][k] = IF k = n THEN new ELSE all[k]
    BY <1>1, <2>1, ExceptSeq
  <2>3. n \in 1..Len(all)
    BY <1>1
  <2> QED BY <1>8, <2>2, <2>3 DEF V
<1> QED BY <1>1, <1>7, <1>9 DEF r, last

(* The link that is looked at comes from the flow that is visited.         *)
LEMMA TargetIs ==
    ASSUME LinksTyped, SearchInv, calls # <<>>, Sets!Caller.rest # {}
    PROVE  LET m == Sets!Foremost(Sets!Caller.rest)
           IN  /\ m \in Sets!Caller.rest /\ m \in Sets!Considered /\ m \in Nat
               /\ links[m].from = Sets!Caller.flow /\ links[m].to = Sets!Target
               /\ Sets!Target \in Sets!Flows /\ Leads(Sets!Caller.flow, Sets!Target)
<1>1. Sets!Caller.rest \in SUBSET Sets!Successors(Sets!Caller.flow) /\ Sets!Caller.flow \in OnStack
  BY CallerIsLast
<1>2. Sets!Caller.rest \in SUBSET Nat
  BY <1>1, ConsideredTyped DEF Sets!Successors
<1> DEFINE m == Sets!Foremost(Sets!Caller.rest)
<1>3. m \in Sets!Caller.rest /\ m \in Nat
  BY <1>2, ForemostIs
<1> HIDE DEF m
<1>4. m \in Sets!Considered /\ links[m].from = Sets!Caller.flow
  BY <1>1, <1>3 DEF Sets!Successors
<1>5. links[m].to = Sets!Target
  BY DEF m, Sets!Target
<1>6. Sets!Target \in Sets!Flows /\ <<Sets!Caller.flow, Sets!Target>> \in Ways
  BY <1>4, <1>5, ConsideredTyped
<1>7. Leads(Sets!Caller.flow, Sets!Target)
  BY <1>1, <1>6, LeadsByWay DEF Leads, OnStack
<1> QED BY <1>3, <1>4, <1>5, <1>6, <1>7 DEF m

(* A visit that looks at a flow lowers its number to what it has seen.     *)
LEMMA LookKeeps ==
    ASSUME LinksTyped, SearchInv, UNCHANGED <<links, flows, stage>>, Sets!Look
    PROVE  SearchInv'
<1> DEFINE f == Sets!Caller.flow
           m == Sets!Foremost(Sets!Caller.rest)
           t == Sets!Target
<1>1. /\ calls # <<>> /\ Sets!Caller.rest # {} /\ index[t] # 0
      /\ index' = index /\ component' = component /\ stack' = stack
      /\ calls' = Sets!Advanced(calls)
      /\ low' = IF component[t] # 0 THEN low ELSE [low EXCEPT ![f] = Sets!LeastOf(@, index[t])]
  BY DEF Sets!Look, Sets!Visiting
<1>2. /\ Sets!Considered' = Sets!Considered /\ Ways' = Ways /\ links' = links
      /\ \A x, y : Leads(x, y)' <=> Leads(x, y)
  BY SameWays
<1>3. /\ m \in Sets!Caller.rest /\ m \in Sets!Considered /\ m \in Nat
      /\ links[m].from = f /\ links[m].to = t /\ t \in Sets!Flows /\ Leads(f, t)
  BY <1>1, TargetIs
<1>4. /\ Len(calls) \in Nat /\ Len(calls) > 0 /\ Sets!Caller = calls[Len(calls)]
      /\ f \in Entered /\ f \in OnStack /\ f \in Sets!Flows
  BY <1>1, CallerIsLast DEF OnStack
<1> HIDE DEF f, m, t
<1>5. /\ calls' \in Seq(Visits)
      /\ Len(calls') = Len(calls) /\ Len(calls) \in 1..Len(calls)
      /\ \A k \in 1..Len(calls) : calls'[k].flow = calls[k].flow
      /\ \A k \in 1..Len(calls) : k # Len(calls) => calls'[k] = calls[k]
      /\ calls'[Len(calls)].rest = calls[Len(calls)].rest \ {m}
  BY <1>1, <1>4, AdvancedIs DEF SearchInv, SearchTyped, m
<1>6. /\ low' \in [Sets!Flows -> Nat]
      /\ \A g \in Sets!Flows : low'[g] <= low[g] /\ (g # f => low'[g] = low[g])
      /\ component[t] # 0 => low' = low
      /\ component[t] = 0 => low'[f] <= index[t]
      /\ low'[f] = low[f] \/ (component[t] = 0 /\ low'[f] = index[t])
  <2>1. low \in [Sets!Flows -> Nat] /\ index[t] \in Nat /\ low[f] \in Nat
    BY <1>3, <1>4 DEF SearchInv, SearchTyped
  <2>2. Sets!LeastOf(low[f], index[t]) \in Nat /\ Sets!LeastOf(low[f], index[t]) <= low[f]
        /\ Sets!LeastOf(low[f], index[t]) <= index[t]
        /\ Sets!LeastOf(low[f], index[t]) \in {low[f], index[t]}
    BY <2>1 DEF Sets!LeastOf
  <2>3. CASE component[t] # 0
    BY <1>1, <2>1, <2>3
  <2>4. CASE component[t] = 0
    BY <1>1, <1>4, <2>1, <2>2, <2>4
  <2> QED BY <2>3, <2>4
<1>7. OnStack' = OnStack /\ Numbered' = Numbered /\ Sets!Counter' = Sets!Counter /\ Sets!Count' = Sets!Count
  BY <1>1 DEF OnStack, Numbered, Sets!Counter, Sets!Count
<1>8. Entered' = Entered
  BY <1>5 DEF Entered
<1>9. SearchTyped' /\ Numbers' /\ StackFits' /\ NoneLeave' /\ Cut' /\ Up' /\ Down'
  <2>1. SearchTyped'
    BY <1>1, <1>5, <1>6 DEF SearchInv, SearchTyped
  <2>2. Numbers' /\ StackFits'
    BY <1>1, <1>7 DEF SearchInv, Numbers, StackFits
  <2>3. NoneLeave' /\ Cut'
    BY <1>1, <1>2 DEF SearchInv, NoneLeave, Cut
  <2>4. Up' /\ Down'
    BY <1>1, <1>2, <1>7, <1>8 DEF SearchInv, Up, Down
  <2> QED BY <2>1, <2>2, <2>3, <2>4
<1>10. ASSUME NEW i \in LookedAt' PROVE i \in LookedAt \/ i = m
  <2>1. i \in Sets!Considered /\ \A k \in 1..Len(calls) : i \notin calls'[k].rest
    BY <1>2, <1>5 DEF LookedAt
  <2>2. i # m => \A k \in 1..Len(calls) : i \notin calls[k].rest
    BY <1>5, <2>1
  <2> QED BY <2>1, <2>2 DEF LookedAt
<1>11. CallsFit'
  <2>1. ASSUME NEW k \in 1..Len(calls')
        PROVE  /\ calls'[k].flow \in OnStack'
               /\ \A i \in calls'[k].rest : i \in Sets!Considered' /\ links'[i].from = calls'[k].flow
    <3>1. calls'[k].rest \subseteq calls[k].rest /\ calls'[k].flow = calls[k].flow /\ k \in 1..Len(calls)
      BY <1>5
    <3> QED BY <1>2, <1>7, <3>1 DEF SearchInv, CallsFit
  <2>2. \A j, k \in 1..Len(calls') : j < k => index'[calls'[j].flow] < index'[calls'[k].flow]
    BY <1>1, <1>5 DEF SearchInv, CallsFit
  <2>3. ASSUME NEW k \in 1..Len(calls'), k < Len(calls')
        PROVE  calls'[k].rest # {} /\ links'[Sets!Foremost(calls'[k].rest)].to = calls'[k + 1].flow
    <3>1. k \in 1..Len(calls) /\ k + 1 \in 1..Len(calls) /\ calls'[k] = calls[k] /\ k < Len(calls)
          /\ calls'[k + 1].flow = calls[k + 1].flow
      BY <1>4, <1>5, <2>3
    <3> QED BY <1>2, <3>1 DEF SearchInv, CallsFit
  <2> QED BY <2>1, <2>2, <2>3 DEF CallsFit
<1>12. LowFits'
  <2> SUFFICES ASSUME NEW x \in OnStack
               PROVE  low'[x] <= index[x] /\ \E z \in OnStack : index[z] = low'[x] /\ Leads(x, z)
    BY <1>1, <1>2, <1>7 DEF LowFits
  <2>1. x \in Sets!Flows /\ index[x] \in Nat /\ low[x] \in Nat /\ low'[x] \in Nat
    BY <1>6 DEF SearchInv, SearchTyped, OnStack
  <2>2. low[x] <= index[x] /\ \E z \in OnStack : index[z] = low[x] /\ Leads(x, z)
    BY DEF SearchInv, LowFits
  <2>3. low'[x] <= index[x]
    BY <1>6, <2>1, <2>2
  <2>4. CASE low'[x] = low[x]
    BY <2>2, <2>3, <2>4
  <2>5. CASE low'[x] # low[x]
    <3>1. x = f /\ component[t] = 0 /\ low'[f] = index[t]
      BY <1>6, <2>1, <2>5
    <3>2. t \in OnStack
      BY <1>1, <1>3, <3>1 DEF OnStack
    <3> QED BY <1>3, <2>3, <3>1, <3>2
  <2> QED BY <2>4, <2>5
<1>13. Seen'
  <2> SUFFICES ASSUME NEW i \in LookedAt', links[i].from \in OnStack
               PROVE  \/ component[links[i].to] # 0
                      \/ links[i].to \in OnStack /\ low'[links[i].from] <= index[links[i].to]
    BY <1>1, <1>2, <1>7 DEF Seen
  <2>1. CASE i = m
    BY <1>1, <1>3, <1>6, <2>1 DEF OnStack
  <2>2. CASE i \in LookedAt
    <3>1. \/ component[links[i].to] # 0
          \/ links[i].to \in OnStack /\ low[links[i].from] <= index[links[i].to]
      BY <2>2 DEF SearchInv, Seen
    <3>2. links[i].from \in Sets!Flows /\ low'[links[i].from] <= low[links[i].from]
      BY <1>6 DEF OnStack
    <3>3. /\ low[links[i].from] \in Nat /\ low'[links[i].from] \in Nat
          /\ links[i].to \in OnStack => index[links[i].to] \in Nat
      BY <1>6, <3>2 DEF SearchInv, SearchTyped, OnStack
    <3> QED BY <3>1, <3>2, <3>3
  <2> QED BY <1>10, <2>1, <2>2
<1>14. Passed'
  <2> SUFFICES ASSUME NEW y \in OnStack \ Entered
               PROVE  \E g \in Entered :
                        /\ index[g] < index[y] /\ low'[g] <= low'[y]
                        /\ \A h \in Entered : index[h] <= index[g] \/ index[h] > index[y]
    BY <1>1, <1>7, <1>8 DEF Passed
  <2>1. PICK g \in Entered :
            /\ index[g] < index[y] /\ low[g] <= low[y]
            /\ \A h \in Entered : index[h] <= index[g] \/ index[h] > index[y]
    BY DEF SearchInv, Passed
  <2>2. g \in Sets!Flows /\ y \in Sets!Flows /\ y # f
    BY <1>1, <1>4, CallerIsLast DEF OnStack
  <2>3. low'[g] <= low[g] /\ low'[y] = low[y] /\ low[g] \in Nat /\ low'[g] \in Nat /\ low[y] \in Nat
    BY <1>6, <2>2 DEF SearchInv, SearchTyped
  <2>4. low'[g] <= low'[y]
    BY <2>1, <2>3
  <2> QED BY <2>1, <2>4
<1> QED BY <1>9, <1>11, <1>12, <1>13, <1>14 DEF SearchInv

(* All links of a flow have been looked at when no visit of it goes on.    *)
LEMMA LookedAtAll ==
    ASSUME LinksTyped, SearchInv, calls # <<>>, Sets!Caller.rest = {},
           NEW i \in Sets!Considered,
           links[i].from = Sets!Caller.flow \/ links[i].from \notin Entered
    PROVE  i \in LookedAt
<1> SUFFICES ASSUME NEW k \in 1..Len(calls), i \in calls[k].rest PROVE FALSE
  BY DEF LookedAt
<1>1. links[i].from = calls[k].flow /\ calls[k].flow \in Entered
  BY DEF SearchInv, CallsFit, Entered
<1>2. Len(calls) \in Nat /\ Sets!Caller = calls[Len(calls)]
  BY CallerIsLast
<1>3. k # Len(calls)
  BY <1>2
<1>4. index[calls[k].flow] < index[calls[Len(calls)].flow]
  BY <1>2, <1>3 DEF SearchInv, CallsFit
<1>5. index[calls[k].flow] \in Nat
  BY <1>1, CallerIsLast DEF OnStack, SearchInv, SearchTyped
<1> QED BY <1>1, <1>2, <1>4, <1>5

LEMMA PrefixIs ==
    ASSUME NEW S, NEW s \in Seq(S), NEW k \in 0..Len(s)
    PROVE  /\ SubSeq(s, 1, k) \in Seq(S) /\ Len(SubSeq(s, 1, k)) = k
           /\ \A i \in 1..k : SubSeq(s, 1, k)[i] = s[i] /\ i \in 1..Len(s)
           /\ k > 0 => SubSeq(s, 1, k) # <<>>
<1>1. Len(s) \in Nat /\ k \in Nat /\ k <= Len(s) /\ 1 \in Int /\ k \in Int
  OBVIOUS
<1>2. \A i \in 1..k : s[i] \in S
  BY <1>1
<1>3. /\ SubSeq(s, 1, k) \in Seq(S)
      /\ Len(SubSeq(s, 1, k)) = IF 1 <= k THEN k - 1 + 1 ELSE 0
      /\ \A i \in 1..(k - 1 + 1) : SubSeq(s, 1, k)[i] = s[1 + i - 1]
  BY <1>1, <1>2, SubSeqProperties
<1>4. Len(SubSeq(s, 1, k)) = k
  BY <1>1, <1>3
<1>5. \A i \in 1..k : SubSeq(s, 1, k)[i] = s[i]
  BY <1>1, <1>3
<1>6. k > 0 => SubSeq(s, 1, k) # <<>>
  <2> DEFINE t == SubSeq(s, 1, k)
  <2>1. Len(t) = k
    BY <1>4
  <2> HIDE DEF t
  <2>2. k > 0 => t # <<>>
    BY <2>1
  <2> QED BY <2>2 DEF t
<1> QED BY <1>1, <1>3, <1>4, <1>5, <1>6

(* A visit that ends hands its number to the one that began it.            *)
LEMMA ReturnCalls ==
    ASSUME LinksTyped, SearchInv, UNCHANGED <<links, flows, stage>>, Sets!Return
    PROVE  LET f == Sets!Caller.flow
           IN  /\ calls' \in Seq(Visits) /\ index' = index /\ f \in OnStack /\ f \in Entered
               /\ Entered' = Entered \ {f}
               /\ \A h \in Entered' : index[h] < index[f] /\ h \in OnStack
               /\ Len(calls') \in Nat
               /\ \A k \in 1..Len(calls') :
                     /\ k \in 1..Len(calls) /\ calls'[k].flow = calls[k].flow
                     /\ calls'[k].flow \in Entered'
                     /\ calls'[k].rest \subseteq calls[k].rest
               /\ \A k \in 1..Len(calls') : k < Len(calls') => calls'[k] = calls[k] /\ k < Len(calls)
               /\ low' \in [Sets!Flows -> Nat]
               /\ \A x \in Sets!Flows : low'[x] <= low[x]
               /\ \A x \in Sets!Flows :
                     low'[x] # low[x] => low'[x] = low[f] /\ x \in Entered' /\ Leads(x, f)
               /\ Entered' # {} =>
                     \E g \in Entered' : low'[g] <= low[f] /\ \A h \in Entered' : index[h] <= index[g]
               /\ \A i \in LookedAt' : i \in LookedAt
                     \/ (links[i].to = f /\ low'[links[i].from] <= low[f])
<1> DEFINE f == Sets!Caller.flow
           n == Len(calls)
           outer == SubSeq(calls, 1, n - 1)
           g == calls[n - 1].flow
           m == Sets!Foremost(calls[n - 1].rest)
<1>1. /\ calls # <<>> /\ Sets!Caller.rest = {} /\ index' = index
      /\ IF outer = <<>> THEN low' = low /\ calls' = outer
         ELSE /\ low' = [low EXCEPT ![outer[Len(outer)].flow] = Sets!LeastOf(@, low[f])]
              /\ calls' = Sets!Advanced(outer)
  BY DEF Sets!Return, Sets!Visiting
<1>2. /\ n \in Nat /\ n > 0 /\ Sets!Caller = calls[n] /\ n \in 1..n
      /\ f \in Entered /\ f \in OnStack /\ f \in Sets!Flows
  BY <1>1, CallerIsLast DEF OnStack
<1>3. calls \in Seq(Visits) /\ index \in [Sets!Flows -> Nat] /\ low \in [Sets!Flows -> Nat]
  BY DEF SearchInv, SearchTyped
<1> HIDE DEF f
<1>4. outer \in Seq(Visits) /\ Len(outer) = n - 1 /\ \A k \in 1..(n - 1) : outer[k] = calls[k]
  <2>1. n - 1 \in 0..Len(calls)
    BY <1>2
  <2> QED BY <1>3, <2>1, PrefixIs
<1>5. CASE n = 1
  <2>1. outer = <<>>
    BY <1>5, SubSeqEmpty
  <2>2. low' = low /\ calls' = <<>>
    BY <1>1, <2>1
  <2>3. Len(calls') = 0 /\ calls' \in Seq(Visits)
    BY <2>2
  <2>4. Entered' = {} /\ Entered = {f}
    <3>1. Entered' = {}
      BY <2>3 DEF Entered
    <3>2. \A h \in Entered : h = f
      BY <1>2, <1>5 DEF Entered, f
    <3> QED BY <1>2, <3>1, <3>2
  <2>5. ASSUME NEW i \in LookedAt' PROVE i \in LookedAt
    <3>1. i \in Sets!Considered
      BY SameWays DEF LookedAt
    <3>2. \A k \in 1..Len(calls) : k = n
      BY <1>2, <1>5
    <3> QED BY <1>1, <1>2, <3>1, <3>2 DEF LookedAt
  <2>6. \A x \in Sets!Flows : low'[x] <= low[x]
    BY <1>3, <2>2
  <2> QED BY <1>1, <1>2, <1>3, <2>2, <2>3, <2>4, <2>5, <2>6 DEF f
<1>6. CASE n > 1
  <2>1. n - 1 \in 1..n /\ n - 1 \in Nat /\ n - 1 < n /\ outer # <<>> /\ Len(outer) \in 1..Len(outer)
    <3>1. n - 1 \in 1..n /\ n - 1 \in Nat /\ n - 1 < n /\ n - 1 \in 0..Len(calls) /\ n - 1 > 0
      BY <1>2, <1>6
    <3>2. outer # <<>>
      BY <1>3, <3>1, PrefixIs
    <3>3. Len(outer) = n - 1
      BY <1>4
    <3> QED BY <3>1, <3>2, <3>3
  <2>2. outer[Len(outer)] = calls[n - 1]
    BY <1>4, <2>1
  <2>3. low' = [low EXCEPT ![g] = Sets!LeastOf(@, low[f])] /\ calls' = Sets!Advanced(outer)
    BY <1>1, <2>1, <2>2
  <2>4. /\ calls' \in Seq(Visits) /\ Len(calls') = n - 1
        /\ \A k \in 1..(n - 1) : calls'[k].flow = calls[k].flow
        /\ \A k \in 1..(n - 1) : k # n - 1 => calls'[k] = calls[k]
        /\ calls'[n - 1].rest = calls[n - 1].rest \ {m}
    <3> HIDE DEF outer
    <3> QED BY <1>4, <2>1, <2>2, <2>3, AdvancedIs
  <2>5. /\ g \in Entered /\ g \in OnStack /\ g \in Sets!Flows /\ index[g] < index[f] /\ g # f
    <3>1. g \in Entered
      BY <2>1 DEF Entered
    <3>2. index[calls[n - 1].flow] < index[calls[n].flow]
      BY <1>2, <2>1 DEF SearchInv, CallsFit
    <3>3. g \in OnStack
      BY <1>1, <3>1, CallerIsLast
    <3> QED BY <1>2, <1>3, <3>1, <3>2, <3>3 DEF f, OnStack
  <2> DEFINE last == calls[n - 1]
  <2>6. /\ last.rest # {} /\ m \in last.rest /\ m \in Sets!Considered
        /\ links[m].to = f /\ links[m].from = g /\ Leads(g, f)
    <3>1. last.rest # {} /\ links[m].to = calls[(n - 1) + 1].flow
      BY <1>2, <2>1 DEF SearchInv, CallsFit
    <3>2. \A i \in last.rest : i \in Sets!Considered /\ links[i].from = g
      BY <2>1 DEF SearchInv, CallsFit
    <3>3. last.rest \in SUBSET Nat
      BY <3>2, ConsideredTyped
    <3>4. m \in last.rest
      BY <3>1, <3>3, ForemostIs
    <3>5. (n - 1) + 1 = n
      BY <1>2
    <3>6. links[m].to = f
      BY <1>2, <3>1, <3>5 DEF f
    <3>7. <<g, f>> \in Ways
      BY <3>2, <3>4, <3>6, ConsideredTyped
    <3> QED BY <1>2, <2>5, <3>1, <3>2, <3>4, <3>6, <3>7, LeadsByWay DEF Leads
  <2> HIDE DEF m
  <2>7. /\ \A k \in 1..(n - 1) : calls'[k].rest \subseteq calls[k].rest
        /\ \A k \in 1..(n - 1) : k \in 1..n
    <3>1. \A k \in 1..(n - 1) : k \in 1..n
      BY <1>2
    <3> QED BY <2>4, <3>1
  <2>8. \A k \in 1..(n - 1) : index[calls[k].flow] < index[f] /\ calls[k].flow # f
    <3> SUFFICES ASSUME NEW k \in 1..(n - 1) PROVE index[calls[k].flow] < index[f] /\ calls[k].flow # f
      OBVIOUS
    <3>1. k \in 1..n /\ k < n
      BY <1>2
    <3>2. index[calls[k].flow] < index[calls[n].flow]
      BY <1>2, <3>1 DEF SearchInv, CallsFit
    <3>3. index[f] \in Nat
      BY <1>2, <1>3
    <3> QED BY <1>2, <3>2, <3>3 DEF f
  <2>9. Entered' = Entered \ {f}
    <3>1. \A h : h \in Entered' <=> \E k \in 1..(n - 1) : h = calls[k].flow
      BY <2>4 DEF Entered
    <3>2. \A h : h \in Entered <=> \E k \in 1..n : h = calls[k].flow
      BY DEF Entered
    <3>3. \A k \in 1..n : k \in 1..(n - 1) \/ k = n
      BY <1>2
    <3>4. calls[n].flow = f
      BY <1>2 DEF f
    <3>5. \A h \in Entered' : h \in Entered /\ h # f
      BY <2>7, <2>8, <3>1, <3>2
    <3>6. \A h \in Entered : h # f => h \in Entered'
      BY <3>1, <3>2, <3>3, <3>4
    <3> QED BY <3>5, <3>6
  <2>10. \A h \in Entered' : index[h] < index[f] /\ h \in OnStack /\ index[h] <= index[g]
    <3> SUFFICES ASSUME NEW h \in Entered'
                 PROVE index[h] < index[f] /\ h \in OnStack /\ index[h] <= index[g]
      OBVIOUS
    <3>1. PICK k \in 1..(n - 1) : h = calls[k].flow
      BY <2>4 DEF Entered
    <3>2. k = n - 1 \/ index[calls[k].flow] < index[calls[n - 1].flow]
      <4>1. k \in 1..n /\ (k = n - 1 \/ k < n - 1)
        BY <1>2
      <4> QED BY <2>1, <4>1 DEF SearchInv, CallsFit
    <3>3. h \in OnStack
      BY <2>9, <1>1, CallerIsLast
    <3>4. index[h] \in Nat /\ index[g] \in Nat
      BY <1>3, <2>5, <3>3 DEF OnStack
    <3> QED BY <2>8, <3>1, <3>2, <3>3, <3>4
  <2>11. /\ low' \in [Sets!Flows -> Nat] /\ low'[g] <= low[f] /\ low'[g] <= low[g]
         /\ low'[g] # low[g] => low'[g] = low[f]
         /\ \A x \in Sets!Flows : x # g => low'[x] = low[x]
    <3>1. low[g] \in Nat /\ low[f] \in Nat
      BY <1>2, <1>3, <2>5
    <3>2. /\ Sets!LeastOf(low[g], low[f]) \in {low[g], low[f]}
          /\ Sets!LeastOf(low[g], low[f]) <= low[g] /\ Sets!LeastOf(low[g], low[f]) <= low[f]
          /\ Sets!LeastOf(low[g], low[f]) \in Nat
      BY <3>1 DEF Sets!LeastOf
    <3>3. low'[g] = Sets!LeastOf(low[g], low[f])
      BY <1>3, <2>3, <2>5
    <3> QED BY <1>3, <2>3, <2>5, <3>2, <3>3
  <2>12. ASSUME NEW i \in LookedAt' PROVE i \in LookedAt \/ i = m
    <3>1. i \in Sets!Considered /\ \A k \in 1..(n - 1) : i \notin calls'[k].rest
      BY <2>4, SameWays DEF LookedAt
    <3>2. \A k \in 1..(n - 1) : i # m => i \notin calls[k].rest
      BY <2>4, <3>1
    <3>3. i \notin calls[n].rest
      BY <1>1, <1>2
    <3>4. \A k \in 1..n : k \in 1..(n - 1) \/ k = n
      BY <1>2
    <3> QED BY <3>1, <3>2, <3>3, <3>4 DEF LookedAt
  <2>13. \A x \in Sets!Flows : low'[x] <= low[x]
    BY <1>3, <2>11
  <2>14. g \in Entered'
    BY <2>5, <2>9
  <2>15. \A x \in Sets!Flows : low'[x] # low[x] => low'[x] = low[f] /\ x \in Entered' /\ Leads(x, f)
    BY <2>6, <2>11, <2>14
  <2>16. \A k \in 1..(n - 1) : calls'[k].flow \in Entered'
    BY <2>4 DEF Entered
  <2>17. \A k \in 1..(n - 1) : k < n - 1 => calls'[k] = calls[k] /\ k < n
    BY <1>2, <2>4
  <2> HIDE DEF g
  <2>18. \A i \in LookedAt' : i \in LookedAt \/ (links[i].to = f /\ low'[links[i].from] <= low[f])
    BY <2>6, <2>11, <2>12
  <2> QED BY <1>1, <1>2, <2>1, <2>4, <2>7, <2>9, <2>10, <2>11, <2>13, <2>14, <2>15, <2>16, <2>17, <2>18 DEF f
<1>7. n = 1 \/ n > 1
  <2>1. n \in Nat /\ n > 0
    BY <1>2
  <2> HIDE DEF n
  <2>2. n = 1 \/ n > 1
    BY <2>1
  <2> QED BY <2>2
<1> QED BY <1>5, <1>6, <1>7, Zenon

(* A visit that ends below others leaves the stack to them.                *)
LEMMA ReturnKeeps ==
    ASSUME LinksTyped, SearchInv, UNCHANGED <<links, flows, stage>>, Sets!Return,
           low[Sets!Caller.flow] # index[Sets!Caller.flow]
    PROVE  SearchInv'
<1> DEFINE f == Sets!Caller.flow
<1>1. component' = component /\ stack' = stack
  BY DEF Sets!Return
<1>2. /\ Sets!Considered' = Sets!Considered /\ Ways' = Ways /\ links' = links
      /\ \A x, y : Leads(x, y)' <=> Leads(x, y)
  BY SameWays
<1>3. /\ calls' \in Seq(Visits) /\ index' = index /\ f \in OnStack /\ f \in Entered
      /\ Entered' = Entered \ {f}
      /\ \A h \in Entered' : index[h] < index[f] /\ h \in OnStack
      /\ Len(calls') \in Nat
      /\ \A k \in 1..Len(calls') :
            /\ k \in 1..Len(calls) /\ calls'[k].flow = calls[k].flow
            /\ calls'[k].flow \in Entered'
            /\ calls'[k].rest \subseteq calls[k].rest
      /\ \A k \in 1..Len(calls') : k < Len(calls') => calls'[k] = calls[k] /\ k < Len(calls)
      /\ low' \in [Sets!Flows -> Nat]
      /\ \A x \in Sets!Flows : low'[x] <= low[x]
      /\ \A x \in Sets!Flows :
            low'[x] # low[x] => low'[x] = low[f] /\ x \in Entered' /\ Leads(x, f)
      /\ Entered' # {} =>
            \E g \in Entered' : low'[g] <= low[f] /\ \A h \in Entered' : index[h] <= index[g]
      /\ \A i \in LookedAt' : i \in LookedAt
            \/ (links[i].to = f /\ low'[links[i].from] <= low[f])
  BY ReturnCalls
<1>4. /\ index \in [Sets!Flows -> Nat] /\ low \in [Sets!Flows -> Nat]
      /\ \A x \in OnStack : x \in Sets!Flows /\ low[x] <= index[x]
      /\ low[f] # index[f]
  BY DEF SearchInv, SearchTyped, LowFits, OnStack
<1> HIDE DEF f
<1>5. OnStack' = OnStack /\ Numbered' = Numbered /\ Sets!Counter' = Sets!Counter /\ Sets!Count' = Sets!Count
  BY <1>1, <1>3 DEF OnStack, Numbered, Sets!Counter, Sets!Count
<1>6. PICK z \in OnStack : index[z] = low[f] /\ Leads(f, z)
  BY <1>3 DEF SearchInv, LowFits
<1>7. index[z] < index[f] /\ low[f] \in Nat /\ index[f] \in Nat
  BY <1>3, <1>4, <1>6
<1>8. PICK w \in Entered : index[w] <= index[z] /\ Leads(z, w)
  BY DEF SearchInv, Down
<1>9. /\ w \in Entered' /\ w \in OnStack /\ Leads(f, w) /\ index[w] < index[f]
  <2>1. index[w] \in Nat /\ index[z] \in Nat /\ w \in OnStack
    BY <1>4, <1>6, CallerIsLast DEF SearchInv, CallsFit, Entered
  <2>2. index[w] < index[f]
    BY <1>7, <1>8, <2>1
  <2>3. w # f
    BY <1>7, <2>2
  <2>4. Leads(f, w)
    BY <1>3, <1>4, <1>6, <1>8, LeadsFar DEF Leads
  <2> QED BY <1>3, <1>8, <2>1, <2>2, <2>3, <2>4
<1>10. SearchTyped' /\ Numbers' /\ StackFits' /\ NoneLeave' /\ Cut' /\ Up'
  <2>1. SearchTyped'
    BY <1>1, <1>3 DEF SearchInv, SearchTyped
  <2>2. Numbers' /\ StackFits'
    BY <1>1, <1>3, <1>5 DEF SearchInv, Numbers, StackFits
  <2>3. NoneLeave' /\ Cut'
    BY <1>1, <1>2 DEF SearchInv, NoneLeave, Cut
  <2>4. Up'
    BY <1>2, <1>3, <1>5 DEF SearchInv, Up
  <2> QED BY <2>1, <2>2, <2>3, <2>4
<1>11. CallsFit'
  <2>1. ASSUME NEW k \in 1..Len(calls')
        PROVE  /\ calls'[k].flow \in OnStack'
               /\ \A i \in calls'[k].rest : i \in Sets!Considered' /\ links'[i].from = calls'[k].flow
    <3>1. \A i \in calls[k].rest : i \in Sets!Considered /\ links[i].from = calls[k].flow
      BY <1>3 DEF SearchInv, CallsFit
    <3> QED BY <1>2, <1>3, <1>5, <3>1
  <2>2. \A j, k \in 1..Len(calls') : j < k => index'[calls'[j].flow] < index'[calls'[k].flow]
    BY <1>3 DEF SearchInv, CallsFit
  <2>3. ASSUME NEW k \in 1..Len(calls'), k < Len(calls')
        PROVE  calls'[k].rest # {} /\ links'[Sets!Foremost(calls'[k].rest)].to = calls'[k + 1].flow
    <3>1. k \in 1..Len(calls) /\ calls'[k] = calls[k] /\ k < Len(calls)
      BY <1>3, <2>3
    <3>2. k + 1 \in 1..Len(calls')
      BY <1>3, <2>3
    <3>3. calls'[k + 1].flow = calls[k + 1].flow
      BY <1>3, <3>2
    <3> QED BY <1>2, <3>1, <3>3 DEF SearchInv, CallsFit
  <2> QED BY <2>1, <2>2, <2>3 DEF CallsFit
<1>12. Down'
  <2> SUFFICES ASSUME NEW y \in OnStack
               PROVE  \E g \in Entered' : index[g] <= index[y] /\ Leads(y, g)
    BY <1>2, <1>3, <1>5 DEF Down
  <2>1. PICK g \in Entered : index[g] <= index[y] /\ Leads(y, g)
    BY DEF SearchInv, Down
  <2>2. CASE g # f
    BY <1>3, <2>1, <2>2
  <2>3. CASE g = f
    <3>1. index[w] \in Nat /\ index[y] \in Nat
      BY <1>4, <1>9
    <3>2. index[w] <= index[y]
      BY <1>7, <1>9, <2>1, <2>3, <3>1
    <3>3. Leads(y, w)
      BY <1>4, <1>9, <2>1, <2>3, LeadsFar DEF Leads
    <3> QED BY <1>9, <3>2, <3>3
  <2> QED BY <2>2, <2>3
<1>13. LowFits'
  <2> SUFFICES ASSUME NEW x \in OnStack
               PROVE  low'[x] <= index[x] /\ \E v \in OnStack : index[v] = low'[x] /\ Leads(x, v)
    BY <1>2, <1>3, <1>5 DEF LowFits
  <2>1. low'[x] \in Nat /\ low[x] \in Nat /\ index[x] \in Nat /\ low'[x] <= low[x] /\ low[x] <= index[x]
    BY <1>3, <1>4
  <2>2. CASE low'[x] = low[x]
    BY <2>1, <2>2 DEF SearchInv, LowFits
  <2>3. CASE low'[x] # low[x]
    <3>1. low'[x] = low[f] /\ Leads(x, f) /\ x \in Sets!Flows
      BY <1>3, <1>4, <2>3
    <3>2. Leads(x, z)
      BY <1>6, <3>1, LeadsFar DEF Leads
    <3> QED BY <1>6, <2>1, <3>1, <3>2
  <2> QED BY <2>2, <2>3
<1>14. Seen'
  <2> SUFFICES ASSUME NEW i \in LookedAt', links[i].from \in OnStack
               PROVE  \/ component[links[i].to] # 0
                      \/ links[i].to \in OnStack /\ low'[links[i].from] <= index[links[i].to]
    BY <1>1, <1>2, <1>3, <1>5 DEF Seen
  <2>1. links[i].from \in Sets!Flows /\ low'[links[i].from] \in Nat /\ low[links[i].from] \in Nat
        /\ low'[links[i].from] <= low[links[i].from]
    BY <1>3, <1>4
  <2>2. CASE i \in LookedAt
    <3>1. \/ component[links[i].to] # 0
          \/ links[i].to \in OnStack /\ low[links[i].from] <= index[links[i].to]
      BY <2>2 DEF SearchInv, Seen
    <3>2. links[i].to \in OnStack => index[links[i].to] \in Nat
      BY <1>4
    <3> QED BY <2>1, <3>1, <3>2
  <2>3. CASE links[i].to = f /\ low'[links[i].from] <= low[f]
    <3>1. low[f] <= index[f]
      BY <1>3, <1>4
    <3> QED BY <1>3, <1>7, <2>1, <2>3, <3>1
  <2> QED BY <1>3, <2>2, <2>3
<1>15. Passed'
  <2> SUFFICES ASSUME NEW y \in OnStack, y \notin Entered'
               PROVE  \E g \in Entered' :
                        /\ index[g] < index[y] /\ low'[g] <= low'[y]
                        /\ \A h \in Entered' : index[h] <= index[g] \/ index[h] > index[y]
    BY <1>3, <1>5 DEF Passed
  <2>1. PICK g \in Entered' : low'[g] <= low[f] /\ \A h \in Entered' : index[h] <= index[g]
    BY <1>3, <1>9
  <2>2. /\ index[g] < index[f] /\ index[g] \in Nat /\ low'[g] \in Nat
        /\ y \in Sets!Flows /\ index[y] \in Nat /\ low[y] \in Nat
    BY <1>3, <1>4
  <2>3. low'[y] = low[y]
    BY <1>3, <1>4
  <2>4. CASE y = f
    BY <2>1, <2>2, <2>3, <2>4
  <2>5. CASE y # f
    <3>1. y \notin Entered
      BY <1>3, <2>5
    <3>2. PICK v \in Entered :
              /\ index[v] < index[y] /\ low[v] <= low[y]
              /\ \A h \in Entered : index[h] <= index[v] \/ index[h] > index[y]
      BY <3>1 DEF SearchInv, Passed
    <3>3. CASE v = f
      <4>1. index[g] < index[y] /\ low'[g] <= low'[y]
        BY <1>7, <2>1, <2>2, <2>3, <3>2, <3>3
      <4> QED BY <2>1, <4>1
    <3>4. CASE v # f
      <4>1. v \in Entered' /\ v \in Sets!Flows
        BY <1>3, <1>4, <3>4
      <4>2. low'[v] \in Nat /\ low[v] \in Nat /\ low'[v] <= low[v]
        BY <1>3, <1>4, <4>1
      <4>3. low'[v] <= low'[y]
        BY <2>2, <2>3, <3>2, <4>2
      <4> QED BY <1>3, <3>2, <4>1, <4>3
    <3> QED BY <3>3, <3>4
  <2> QED BY <2>4, <2>5
<1> QED BY <1>10, <1>11, <1>12, <1>13, <1>14, <1>15 DEF SearchInv

(* What lies on the stack from a flow on has a number from its number on.  *)
LEMMA Suffix ==
    ASSUME SearchInv, NEW f \in OnStack
    PROVE  LET at == CHOOSE i \in DOMAIN stack : stack[i] = f
               top == SubSeq(stack, 1, at - 1)
           IN  /\ {stack[i] : i \in at..Len(stack)} = {y \in OnStack : index[y] >= index[f]}
               /\ top \in Seq(Sets!Flows) /\ Len(top) \in Nat
               /\ \A i \in 1..Len(top) :
                     i \in 1..Len(stack) /\ top[i] = stack[i] /\ index[stack[i]] < index[f]
               /\ \A y \in OnStack : index[y] < index[f] => \E i \in 1..Len(top) : top[i] = y
<1> DEFINE at == CHOOSE i \in DOMAIN stack : stack[i] = f
           top == SubSeq(stack, 1, at - 1)
<1>1. stack \in Seq(Sets!Flows) /\ Len(stack) \in Nat /\ DOMAIN stack = 1..Len(stack)
  BY DEF SearchInv, SearchTyped
<1>2. at \in 1..Len(stack) /\ stack[at] = f
  <2>1. \E i \in DOMAIN stack : stack[i] = f
    BY <1>1 DEF SearchInv, StackFits
  <2> QED BY <1>1, <2>1
<1> HIDE DEF at
<1>3. /\ \A i \in 1..Len(stack) : stack[i] \in OnStack /\ index[stack[i]] \in Nat
      /\ \A i, j \in 1..Len(stack) : i < j => index[stack[i]] < index[stack[j]]
      /\ \A y \in OnStack : \E i \in 1..Len(stack) : stack[i] = y
  BY DEF SearchInv, SearchTyped, StackFits, OnStack
<1>4. \A i \in 1..Len(stack) : (index[stack[i]] < index[f] <=> i < at)
  <2> SUFFICES ASSUME NEW i \in 1..Len(stack) PROVE index[stack[i]] < index[f] <=> i < at
    OBVIOUS
  <2>1. i < at \/ i = at \/ at < i
    BY <1>1, <1>2
  <2>2. i < at => index[stack[i]] < index[f]
    BY <1>2, <1>3
  <2>3. at < i => index[f] < index[stack[i]]
    BY <1>2, <1>3
  <2>4. index[f] \in Nat /\ index[stack[i]] \in Nat
    BY <1>2, <1>3
  <2> QED BY <1>1, <1>2, <2>1, <2>2, <2>3, <2>4
<1>5. at - 1 \in 0..Len(stack)
  BY <1>1, <1>2
<1>6. /\ top \in Seq(Sets!Flows) /\ Len(top) = at - 1
      /\ \A i \in 1..(at - 1) : top[i] = stack[i] /\ i \in 1..Len(stack)
  BY <1>1, <1>5, PrefixIs
<1> HIDE DEF top
<1>7. Len(top) \in Nat /\ \A i \in 1..Len(stack) : i < at <=> i \in 1..Len(top)
  BY <1>1, <1>2, <1>5, <1>6
<1>8. \A i \in 1..Len(top) :
          i \in 1..Len(stack) /\ top[i] = stack[i] /\ index[stack[i]] < index[f]
  BY <1>4, <1>6, <1>7
<1>9. \A y \in OnStack : index[y] < index[f] => \E i \in 1..Len(top) : top[i] = y
  BY <1>3, <1>4, <1>7, <1>8
<1>10. {stack[i] : i \in at..Len(stack)} = {y \in OnStack : index[y] >= index[f]}
  <2>1. \A i \in at..Len(stack) : i \in 1..Len(stack) /\ ~(i < at)
    BY <1>1, <1>2
  <2>2. \A i \in 1..Len(stack) : ~(i < at) => i \in at..Len(stack)
    BY <1>1, <1>2
  <2>3. \A i \in 1..Len(stack) : (index[stack[i]] >= index[f] <=> ~(i < at))
    BY <1>2, <1>3, <1>4
  <2>4. ASSUME NEW y \in {stack[i] : i \in at..Len(stack)}
        PROVE  y \in OnStack /\ index[y] >= index[f]
    BY <1>3, <2>1, <2>3, <2>4
  <2>5. ASSUME NEW y \in OnStack, index[y] >= index[f]
        PROVE  y \in {stack[i] : i \in at..Len(stack)}
    BY <1>3, <2>2, <2>3, <2>5
  <2> QED BY <2>4, <2>5
<1> QED BY <1>6, <1>7, <1>8, <1>9, <1>10 DEF at, top

(* How many components there are: a closed one makes them one more.        *)
LEMMA CountGrows ==
    ASSUME component \in [Sets!Flows -> Nat], \A h \in Sets!Flows : component[h] < Sets!Count,
           NEW M \in SUBSET Sets!Flows, M # {}, \A h \in M : component[h] = 0,
           component' = [h \in Sets!Flows |-> IF h \in M THEN Sets!Count ELSE component[h]]
    PROVE  Sets!Count \in Nat /\ Sets!Count > 0 /\ Sets!Count' = Sets!Count + 1
<1> DEFINE C == {component[h] : h \in Sets!Flows} \ {0}
<1>1. IsFiniteSet(C)
  <2> DEFINE D == {component[h] : h \in Sets!Flows}
  <2>1. component \in Surjection(Sets!Flows, D)
    BY DEF Surjection
  <2>2. IsFiniteSet(D)
    BY <2>1, FlowNumbersFinite, FS_Surjection
  <2> HIDE DEF D
  <2>3. IsFiniteSet(D \ {0})
    BY <2>2, FS_Difference
  <2> QED BY <2>3 DEF D
<1>2. Sets!Count = 1 + Cardinality(C) /\ Cardinality(C) \in Nat
  BY <1>1, SetsSize, FS_CardinalityType DEF Sets!Count
<1>3. Sets!Count \in Nat /\ Sets!Count > 0 /\ Sets!Count # 0
  BY <1>2
<1> DEFINE D == {component'[h] : h \in Sets!Flows} \ {0}
<1>4. D = C \cup {Sets!Count}
  <2>1. \A h \in Sets!Flows : component'[h] = IF h \in M THEN Sets!Count ELSE component[h]
    OBVIOUS
  <2>2. ASSUME NEW c \in D PROVE c \in C \cup {Sets!Count}
    BY <2>1
  <2>3. ASSUME NEW c \in C PROVE c \in D
    <3>1. PICK h \in Sets!Flows : c = component[h] /\ component[h] # 0
      OBVIOUS
    <3> QED BY <2>1, <3>1
  <2>4. Sets!Count \in D
    BY <1>3, <2>1
  <2> QED BY <2>2, <2>3, <2>4
<1>5. Sets!Count \notin C
  <2> SUFFICES ASSUME NEW h \in Sets!Flows, Sets!Count = component[h] PROVE FALSE
    OBVIOUS
  <2>1. component[h] < Sets!Count /\ component[h] \in Nat
    OBVIOUS
  <2> QED BY <1>3, <2>1
<1>6. Cardinality(D) = Cardinality(C) + 1
  <2> HIDE DEF C, D
  <2> QED BY <1>1, <1>4, <1>5, FS_AddElement
<1>7. Sets!Count' = 1 + Cardinality(D)
  BY SetsSize DEF Sets!Count
<1> HIDE DEF C, D
<1> QED BY <1>2, <1>3, <1>6, <1>7

(* A visit that ends lowest closes off what lies on the stack from it on:  *)
(* each of these leads to each, and none to any other that is left.        *)
LEMMA ReturnCloses ==
    ASSUME LinksTyped, SearchInv, UNCHANGED <<links, flows, stage>>, Sets!Return,
           low[Sets!Caller.flow] = index[Sets!Caller.flow]
    PROVE  SearchInv'
<1> DEFINE f == Sets!Caller.flow
           at == CHOOSE i \in DOMAIN stack : stack[i] = f
           M == {y \in OnStack : index[y] >= index[f]}
<1>1. /\ component' = [g \in Sets!Flows |->
                          IF g \in {stack[i] : i \in at..Len(stack)} THEN Sets!Count ELSE component[g]]
      /\ stack' = SubSeq(stack, 1, at - 1)
      /\ calls # <<>> /\ Sets!Caller.rest = {}
  BY DEF Sets!Return, Sets!Visiting
<1>2. /\ Sets!Considered' = Sets!Considered /\ Ways' = Ways /\ links' = links
      /\ \A x, y : Leads(x, y)' <=> Leads(x, y)
  BY SameWays
<1>3. /\ calls' \in Seq(Visits) /\ index' = index /\ f \in OnStack /\ f \in Entered
      /\ Entered' = Entered \ {f}
      /\ \A h \in Entered' : index[h] < index[f] /\ h \in OnStack
      /\ Len(calls') \in Nat
      /\ \A k \in 1..Len(calls') :
            /\ k \in 1..Len(calls) /\ calls'[k].flow = calls[k].flow
            /\ calls'[k].flow \in Entered'
            /\ calls'[k].rest \subseteq calls[k].rest
      /\ \A k \in 1..Len(calls') : k < Len(calls') => calls'[k] = calls[k] /\ k < Len(calls)
      /\ low' \in [Sets!Flows -> Nat]
      /\ \A x \in Sets!Flows : low'[x] <= low[x]
      /\ \A x \in Sets!Flows :
            low'[x] # low[x] => low'[x] = low[f] /\ x \in Entered' /\ Leads(x, f)
      /\ \A i \in LookedAt' : i \in LookedAt
            \/ (links[i].to = f /\ low'[links[i].from] <= low[f])
  BY ReturnCalls
<1>4. /\ index \in [Sets!Flows -> Nat] /\ low \in [Sets!Flows -> Nat]
      /\ component \in [Sets!Flows -> Nat]
      /\ \A x \in OnStack : x \in Sets!Flows /\ low[x] <= index[x] /\ component[x] = 0
      /\ low[f] = index[f]
      /\ \A h \in Sets!Flows : component[h] < Sets!Count
  BY DEF SearchInv, SearchTyped, LowFits, OnStack, Numbers
<1>5. /\ component' = [g \in Sets!Flows |-> IF g \in M THEN Sets!Count ELSE component[g]]
      /\ stack' \in Seq(Sets!Flows) /\ Len(stack') \in Nat
      /\ \A i \in 1..Len(stack') :
            i \in 1..Len(stack) /\ stack'[i] = stack[i] /\ index[stack[i]] < index[f]
      /\ \A y \in OnStack : index[y] < index[f] => \E i \in 1..Len(stack') : stack'[i] = y
  <2> DEFINE top == SubSeq(stack, 1, at - 1)
  <2>1. f \in OnStack
    BY <1>3
  <2> HIDE DEF f
  <2>2. /\ {stack[i] : i \in at..Len(stack)} = M
        /\ top \in Seq(Sets!Flows) /\ Len(top) \in Nat
        /\ \A i \in 1..Len(top) :
              i \in 1..Len(stack) /\ top[i] = stack[i] /\ index[stack[i]] < index[f]
        /\ \A y \in OnStack : index[y] < index[f] => \E i \in 1..Len(top) : top[i] = y
    BY <2>1, Suffix
  <2>3. stack' = top
    BY <1>1
  <2>4. component' = [g \in Sets!Flows |-> IF g \in M THEN Sets!Count ELSE component[g]]
    BY <1>1, <2>2
  <2> HIDE DEF top, M, at
  <2> QED BY <2>2, <2>3, <2>4
<1> HIDE DEF f, at
<1>6. f \in M /\ M \in SUBSET Sets!Flows /\ \A h \in M : component[h] = 0
  BY <1>3, <1>4
<1>7. Sets!Count \in Nat /\ Sets!Count > 0 /\ Sets!Count' = Sets!Count + 1
  <2> HIDE DEF M
  <2> QED BY <1>4, <1>5, <1>6, CountGrows
<1>8. \A x \in Sets!Flows : low'[x] = low[x]
  <2> SUFFICES ASSUME NEW x \in Sets!Flows, low'[x] # low[x] PROVE FALSE
    OBVIOUS
  <2>1. low'[x] = low[f] /\ x \in Entered' /\ low'[x] <= low[x]
    BY <1>3
  <2>2. x \in OnStack /\ index[x] < index[f] /\ low[x] <= index[x]
    BY <1>3, <1>4, <2>1
  <2>3. low[x] \in Nat /\ index[x] \in Nat /\ index[f] \in Nat
    BY <1>3, <1>4
  <2> QED BY <1>4, <2>1, <2>2, <2>3
<1>9. /\ \A h \in Sets!Flows : component'[h] = IF h \in M THEN Sets!Count ELSE component[h]
      /\ \A h \in Sets!Flows : component'[h] = 0 <=> h \notin M /\ component[h] = 0
      /\ component' \in [Sets!Flows -> Nat]
  BY <1>4, <1>5, <1>7
<1>10. /\ OnStack' = {y \in OnStack : index[y] < index[f]}
       /\ \A y \in OnStack : y \in M \/ y \in OnStack'
       /\ OnStack' \subseteq OnStack
  <2>1. \A y \in OnStack : index[y] \in Nat /\ index[f] \in Nat
    BY <1>3, <1>4
  <2>2. \A y \in Sets!Flows : y \in OnStack' <=> index[y] # 0 /\ component'[y] = 0
    BY <1>3 DEF OnStack
  <2>3. \A y \in Sets!Flows : y \in OnStack' <=> y \in OnStack /\ y \notin M
    BY <1>9, <2>2 DEF OnStack
  <2>4. OnStack' \in SUBSET Sets!Flows /\ OnStack \in SUBSET Sets!Flows
    BY DEF OnStack
  <2>5. \A y \in OnStack : y \in M <=> ~(index[y] < index[f])
    BY <2>1
  <2> QED BY <2>3, <2>4, <2>5
<1>11. Entered' \subseteq OnStack' /\ \A h \in Entered : h = f \/ h \in Entered'
  BY <1>3, <1>10
<1>12. Numbered' = Numbered /\ Sets!Counter' = Sets!Counter
  BY <1>3 DEF Numbered, Sets!Counter
<1> HIDE DEF M
<1>13. SearchTyped'
  BY <1>3, <1>4, <1>5, <1>9 DEF SearchTyped
<1>14. Numbers'
  <2>1. \A h \in Sets!Flows : component'[h] # 0 => index'[h] # 0
    BY <1>3, <1>9 DEF SearchInv, Numbers, M, OnStack
  <2>2. \A h \in Sets!Flows : component'[h] < Sets!Count'
    BY <1>4, <1>7, <1>9
  <2> QED BY <1>3, <1>12, <2>1, <2>2 DEF SearchInv, Numbers
<1>15. StackFits'
  <2>1. \A y \in OnStack' : \E i \in 1..Len(stack') : stack'[i] = y
    BY <1>5, <1>10
  <2>2. \A i \in 1..Len(stack') : stack'[i] \in OnStack'
    BY <1>5, <1>10 DEF SearchInv, StackFits
  <2>3. \A i, j \in 1..Len(stack') : i < j => index'[stack'[i]] < index'[stack'[j]]
    BY <1>3, <1>5 DEF SearchInv, StackFits
  <2> QED BY <2>1, <2>2, <2>3 DEF StackFits
<1>16. CallsFit'
  <2>1. ASSUME NEW k \in 1..Len(calls')
        PROVE  /\ calls'[k].flow \in OnStack'
               /\ \A i \in calls'[k].rest : i \in Sets!Considered' /\ links'[i].from = calls'[k].flow
    <3>1. \A i \in calls[k].rest : i \in Sets!Considered /\ links[i].from = calls[k].flow
      BY <1>3 DEF SearchInv, CallsFit
    <3> QED BY <1>2, <1>3, <1>11, <3>1
  <2>2. \A j, k \in 1..Len(calls') : j < k => index'[calls'[j].flow] < index'[calls'[k].flow]
    BY <1>3 DEF SearchInv, CallsFit
  <2>3. ASSUME NEW k \in 1..Len(calls'), k < Len(calls')
        PROVE  calls'[k].rest # {} /\ links'[Sets!Foremost(calls'[k].rest)].to = calls'[k + 1].flow
    <3>1. k \in 1..Len(calls) /\ calls'[k] = calls[k] /\ k < Len(calls)
      BY <1>3, <2>3
    <3>2. k + 1 \in 1..Len(calls')
      BY <1>3, <2>3
    <3>3. calls'[k + 1].flow = calls[k + 1].flow
      BY <1>3, <3>2
    <3> QED BY <1>2, <3>1, <3>3 DEF SearchInv, CallsFit
  <2> QED BY <2>1, <2>2, <2>3 DEF CallsFit
<1>17. Up'
  BY <1>2, <1>3, <1>10 DEF SearchInv, Up
<1>18. Down'
  <2> SUFFICES ASSUME NEW y \in OnStack'
               PROVE  \E g \in Entered' : index[g] <= index[y] /\ Leads(y, g)
    BY <1>2, <1>3 DEF Down
  <2>1. y \in OnStack /\ index[y] < index[f] /\ index[y] \in Nat /\ index[f] \in Nat
    BY <1>3, <1>4, <1>10
  <2>2. PICK g \in Entered : index[g] <= index[y] /\ Leads(y, g)
    BY <2>1 DEF SearchInv, Down
  <2>3. g # f
    BY <2>1, <2>2
  <2> QED BY <1>11, <2>2, <2>3
<1>19. LowFits'
  <2> SUFFICES ASSUME NEW x \in OnStack'
               PROVE  low[x] <= index[x] /\ \E v \in OnStack' : index[v] = low[x] /\ Leads(x, v)
    BY <1>2, <1>3, <1>4, <1>8, <1>10 DEF LowFits
  <2>1. x \in OnStack /\ index[x] < index[f] /\ index[x] \in Nat /\ index[f] \in Nat
        /\ low[x] <= index[x] /\ low[x] \in Nat
    BY <1>3, <1>4, <1>10
  <2>2. PICK v \in OnStack : index[v] = low[x] /\ Leads(x, v)
    BY <2>1 DEF SearchInv, LowFits
  <2>3. index[v] < index[f]
    BY <2>1, <2>2
  <2> QED BY <1>10, <2>1, <2>2, <2>3
<1>20. \A y \in M : index[f] <= low[y] /\ low[y] \in Nat /\ y \in OnStack /\ index[y] \in Nat
  <2> SUFFICES ASSUME NEW y \in M PROVE index[f] <= low[y]
    BY <1>4 DEF M
  <2>1. y \in OnStack /\ index[f] <= index[y] /\ index[y] \in Nat /\ index[f] \in Nat
    BY <1>3, <1>4 DEF M
  <2>2. CASE y = f
    BY <1>4, <2>1, <2>2
  <2>3. CASE y # f
    <3>1. y \notin Entered
      <4>1. y \in Entered' => index[y] < index[f]
        BY <1>3
      <4> QED BY <1>11, <2>1, <2>3, <4>1
    <3>2. PICK g \in Entered :
              /\ index[g] < index[y] /\ low[g] <= low[y]
              /\ \A h \in Entered : index[h] <= index[g] \/ index[h] > index[y]
      BY <2>1, <3>1 DEF SearchInv, Passed
    <3>3. index[f] <= index[g]
      BY <1>3, <2>1, <3>2
    <3>4. g \in Entered' => index[g] < index[f]
      BY <1>3
    <3>5. g \in Entered' => index[g] \in Nat
      BY <1>3, <1>4
    <3>6. g = f
      BY <1>11, <2>1, <3>3, <3>4, <3>5
    <3> QED BY <1>4, <3>2, <3>6
  <2> QED BY <2>2, <2>3
<1>21. NoneLeave'
  <2> SUFFICES ASSUME NEW i \in Sets!Considered, component'[links[i].from] # 0
               PROVE  component'[links[i].to] # 0
    BY <1>2 DEF NoneLeave
  <2>1. links[i].from \in Sets!Flows /\ links[i].to \in Sets!Flows
    BY ConsideredTyped
  <2>2. component[links[i].to] # 0 => component'[links[i].to] # 0
    BY <1>9, <2>1
  <2>3. CASE component[links[i].from] # 0
    BY <2>2, <2>3 DEF SearchInv, NoneLeave
  <2>4. CASE component[links[i].from] = 0
    <3>1. links[i].from \in M
      BY <1>9, <2>1, <2>4
    <3>2. links[i].from = f \/ links[i].from \notin Entered
      <4>1. links[i].from \in Entered' => index[links[i].from] < index[f]
        BY <1>3
      <4>2. index[f] <= index[links[i].from] /\ index[links[i].from] \in Nat /\ index[f] \in Nat
        BY <1>3, <1>4, <3>1 DEF M
      <4> QED BY <1>11, <4>1, <4>2
    <3>3. i \in LookedAt
      BY <1>1, <3>2, LookedAtAll DEF f
    <3>4. \/ component[links[i].to] # 0
          \/ links[i].to \in OnStack /\ low[links[i].from] <= index[links[i].to]
      BY <1>20, <3>1, <3>3 DEF SearchInv, Seen
    <3>5. links[i].to \in OnStack /\ low[links[i].from] <= index[links[i].to] => links[i].to \in M
      <4>1. index[links[i].to] \in Nat /\ index[f] \in Nat
        BY <1>3, <1>4, <2>1
      <4> QED BY <1>20, <3>1, <4>1 DEF M
    <3>6. links[i].to \in M => component'[links[i].to] # 0
      BY <1>9, <2>1
    <3> QED BY <2>2, <3>4, <3>5, <3>6
  <2> QED BY <2>3, <2>4
<1>22. Seen'
  <2> SUFFICES ASSUME NEW i \in LookedAt', links[i].from \in OnStack'
               PROVE  \/ component'[links[i].to] # 0
                      \/ links[i].to \in OnStack' /\ low[links[i].from] <= index[links[i].to]
    BY <1>2, <1>3, <1>4, <1>8, <1>10 DEF Seen
  <2>1. i \in Sets!Considered
    BY <1>2 DEF LookedAt
  <2>2. links[i].to \in Sets!Flows
    BY <2>1, ConsideredTyped
  <2>3. CASE i \in LookedAt
    <3>1. \/ component[links[i].to] # 0
          \/ links[i].to \in OnStack /\ low[links[i].from] <= index[links[i].to]
      BY <1>10, <2>3 DEF SearchInv, Seen
    <3> QED BY <1>9, <1>10, <2>2, <3>1
  <2>4. CASE links[i].to = f
    BY <1>6, <1>9, <2>2, <2>4
  <2> QED BY <1>3, <2>3, <2>4
<1>23. Passed'
  <2> SUFFICES ASSUME NEW y \in OnStack', y \notin Entered'
               PROVE  \E g \in Entered' :
                        /\ index[g] < index[y] /\ low[g] <= low[y]
                        /\ \A h \in Entered' : index[h] <= index[g] \/ index[h] > index[y]
    <3>1. ASSUME NEW y \in OnStack' \ Entered'
          PROVE  \E g \in Entered' :
                    /\ index'[g] < index'[y] /\ low'[g] <= low'[y]
                    /\ \A h \in Entered' : index'[h] <= index'[g] \/ index'[h] > index'[y]
      <4>1. PICK g \in Entered' :
                /\ index[g] < index[y] /\ low[g] <= low[y]
                /\ \A h \in Entered' : index[h] <= index[g] \/ index[h] > index[y]
        BY <3>1
      <4>2. low'[g] = low[g] /\ low'[y] = low[y]
        BY <1>4, <1>8, <1>10, <1>11, <3>1
      <4> QED BY <1>3, <4>1, <4>2
    <3> QED BY <3>1 DEF Passed
  <2>1. y \in OnStack /\ index[y] < index[f] /\ index[y] \in Nat /\ index[f] \in Nat
    BY <1>3, <1>4, <1>10
  <2>2. y # f
    BY <2>1
  <2>3. PICK g \in Entered :
            /\ index[g] < index[y] /\ low[g] <= low[y]
            /\ \A h \in Entered : index[h] <= index[g] \/ index[h] > index[y]
    BY <1>11, <2>1, <2>2 DEF SearchInv, Passed
  <2>4. g # f
    BY <2>1, <2>3
  <2> QED BY <1>3, <1>11, <2>3, <2>4
<1>24. ASSUME NEW x \in M, NEW y \in M PROVE Leads(x, y)
  <2>1. /\ x \in OnStack /\ y \in OnStack /\ index[f] <= index[y]
        /\ x \in Sets!Flows /\ f \in Sets!Flows
    BY <1>3, <1>4 DEF M
  <2>2. PICK w \in Entered : index[w] <= index[x] /\ Leads(x, w)
    BY <2>1 DEF SearchInv, Down
  <2>3. w \in OnStack /\ index[w] <= index[f] /\ w \in Sets!Flows
    BY <1>1, <1>4, CallerIsLast DEF f
  <2>4. Leads(w, f) /\ Leads(f, y)
    BY <1>3, <2>1, <2>3 DEF SearchInv, Up
  <2>5. Leads(x, f)
    BY <2>1, <2>2, <2>4, LeadsFar DEF Leads
  <2> QED BY <2>1, <2>4, <2>5, LeadsFar DEF Leads
<1>25. ASSUME NEW x \in Sets!Flows, component[x] # 0, NEW y, Leads(x, y) PROVE component[y] # 0
  <2> DEFINE X == {h \in Sets!Flows : component[h] # 0}
  <2>1. \A v \in X, t \in Sets!Flows : <<v, t>> \in Ways => t \in X
    BY DEF SearchInv, NoneLeave, Ways
  <2>2. x \in X /\ X \in SUBSET Sets!Flows
    BY <1>25
  <2> HIDE DEF X
  <2>3. y \in X
    BY <1>25, <2>1, <2>2, LeadsStay DEF Leads
  <2> QED BY <2>3 DEF X
<1>26. Cut'
  <2> SUFFICES ASSUME NEW x \in Sets!Flows, NEW y \in Sets!Flows,
                      component'[x] # 0, component'[y] # 0
               PROVE  component'[x] = component'[y] <=> Leads(x, y) /\ Leads(y, x)
    BY <1>2 DEF Cut
  <2>1. CASE x \in M /\ y \in M
    BY <1>9, <1>24, <2>1
  <2>2. CASE x \in M /\ y \notin M
    <3>1. component'[x] = Sets!Count /\ component'[y] = component[y] /\ component[y] # 0
      BY <1>9, <2>2
    <3>2. component[y] < Sets!Count /\ component[y] \in Nat
      BY <1>4
    <3> QED BY <1>6, <1>7, <1>25, <2>2, <3>1, <3>2
  <2>3. CASE x \notin M /\ y \in M
    <3>1. component'[y] = Sets!Count /\ component'[x] = component[x] /\ component[x] # 0
      BY <1>9, <2>3
    <3>2. component[x] < Sets!Count /\ component[x] \in Nat
      BY <1>4
    <3> QED BY <1>6, <1>7, <1>25, <2>3, <3>1, <3>2
  <2>4. CASE x \notin M /\ y \notin M
    <3>1. component'[x] = component[x] /\ component'[y] = component[y]
      BY <1>9, <2>4
    <3> QED BY <3>1 DEF SearchInv, Cut
  <2> QED BY <2>1, <2>2, <2>3, <2>4
<1> QED BY <1>13, <1>14, <1>15, <1>16, <1>17, <1>18, <1>19, <1>21, <1>22, <1>23, <1>26 DEF SearchInv

-----------------------------------------------------------------------------
(* When a search is over.                                                  *)
SearchOver == Sets!Searching /\ calls = <<>> /\ Sets!Pending = {}

Kinds == IF stage = "gotos" THEN {"goto"} ELSE {"goto", "call"}

Kind == IF stage = "gotos" THEN "goto" ELSE "call"

(* A link is a goto or a call.                                             *)
LEMMA LinkKinds ==
    ASSUME LinksTyped
    PROVE  /\ DOMAIN links = 1..Len(links) /\ Len(links) \in Nat
           /\ \A i \in 1..Len(links) :
                 links[i].edge \in {"call", "goto"} /\ links[i].from \in Sets!Flows
<1>1. DOMAIN links = 1..Len(links) /\ Len(links) \in Nat /\ \A i \in 1..Len(links) : links[i] \in Link
  BY DEF LinksTyped
<1> QED BY <1>1 DEF Link

(* The ways of a phase are the edges that properties speak of.             *)
LEMMA WaysAreEdges ==
    ASSUME LinksTyped, Sets!Searching
    PROVE  /\ Ways = Sets!EdgesOf(Kinds)
           /\ Sets!Considered = {i \in DOMAIN links : links[i].edge \in Kinds /\ links[i].to \in flows}
<1>1. Sets!Considered = {i \in DOMAIN links : links[i].edge \in Kinds /\ links[i].to \in flows}
  BY LinkKinds DEF Sets!Considered, Sets!Searching, Kinds
<1> QED BY <1>1 DEF Ways, Sets!EdgesOf

(* All that the links join belongs to a component then.                    *)
LEMMA AllClosed ==
    ASSUME LinksTyped, SearchInv, SearchOver
    PROVE  /\ \A f \in Sets!Flows : index[f] # 0 => component[f] # 0
           /\ \A i \in Sets!Considered :
                 /\ links[i].from \in Sets!Flows /\ links[i].to \in Sets!Flows
                 /\ component[links[i].from] # 0 /\ component[links[i].to] # 0
<1>1. Entered = {}
  BY DEF SearchOver, Entered
<1>2. \A f \in Sets!Flows : index[f] # 0 => component[f] # 0
  BY <1>1 DEF SearchInv, Down, OnStack
<1>3. ASSUME NEW i \in Sets!Considered PROVE index[links[i].from] # 0 /\ index[links[i].to] # 0
  <2>1. Sets!Unvisited(i) = {}
    BY DEF SearchOver, Sets!Pending
  <2> QED BY <2>1 DEF Sets!Unvisited
<1> QED BY <1>2, <1>3, ConsideredTyped

(* So the components are right when a search is over.                      *)
LEMMA ComponentsRight ==
    ASSUME LinksTyped, SearchInv
    PROVE  Sets!ComponentsExact
<1> SUFFICES ASSUME SearchOver,
                    NEW f \in Sets!Flows, NEW g \in Sets!Flows, index[f] # 0, index[g] # 0, f # g
             PROVE  component[f] = component[g]
                      <=> f \in Sets!LeadsTo(Sets!EdgesOf(Kinds), g) /\ g \in Sets!LeadsTo(Sets!EdgesOf(Kinds), f)
  BY DEF Sets!ComponentsExact, SearchOver, Kinds
<1>1. component[f] # 0 /\ component[g] # 0
  BY AllClosed
<1>2. component[f] = component[g] <=> Leads(f, g) /\ Leads(g, f)
  BY <1>1 DEF SearchInv, Cut
<1>3. Ways = Sets!EdgesOf(Kinds)
  BY WaysAreEdges DEF SearchOver
<1> QED BY <1>2, <1>3 DEF Leads, LeadsOn

(* The links that lie on a cycle are those within a component.             *)
LEMMA OnCycleIs ==
    ASSUME LinksTyped, SearchInv, SearchOver, NEW i \in 1..Len(links)
    PROVE  Sets!OnCycle(i) <=> Sets!LiesOnCycle(i, Kind, Ways)
<1>1. Sets!OnCycle(i) <=> /\ links[i].to \in flows /\ links[i].edge = Kind /\ i \in Sets!Considered
                          /\ component[links[i].from] = component[links[i].to]
  BY WaysAreEdges, LinkKinds DEF Sets!OnCycle, Kind, Kinds, SearchOver, Sets!Searching
<1>2. links[i].to \in flows /\ links[i].edge = Kind => i \in Sets!Considered
  BY WaysAreEdges, LinkKinds DEF Kind, Kinds, SearchOver
<1>3. ASSUME i \in Sets!Considered
      PROVE  component[links[i].from] = component[links[i].to]
               <=> links[i].from \in Sets!LeadsTo(Ways, links[i].to) \cup {links[i].to}
  <2> DEFINE f == links[i].from
             t == links[i].to
  <2>1. f \in Sets!Flows /\ t \in Sets!Flows /\ component[f] # 0 /\ component[t] # 0 /\ <<f, t>> \in Ways
    BY <1>3, AllClosed, ConsideredTyped
  <2> HIDE DEF f, t
  <2>2. component[f] = component[t] <=> Leads(f, t) /\ Leads(t, f)
    BY <2>1 DEF SearchInv, Cut
  <2>3. Leads(f, t)
    BY <2>1, LeadsByWay DEF Leads
  <2>4. Leads(t, f) <=> f \in Sets!LeadsTo(Ways, t) \cup {t}
    BY DEF Leads, LeadsOn
  <2> QED BY <2>2, <2>3, <2>4 DEF f, t
<1> QED BY <1>1, <1>2, <1>3 DEF Sets!LiesOnCycle

(* Alike are links from one component.                                     *)
LEMMA AlikeIs ==
    ASSUME LinksTyped, SearchInv, SearchOver, NEW i \in Sets!Considered, NEW j \in Sets!Considered
    PROVE  Sets!Alike(i, j, Ways) <=> component[links[i].from] = component[links[j].from]
<1> DEFINE f == links[i].from
           g == links[j].from
<1>1. f \in Sets!Flows /\ g \in Sets!Flows /\ component[f] # 0 /\ component[g] # 0
  BY AllClosed
<1>2. Sets!Alike(i, j, Ways) <=> Leads(f, g) /\ Leads(g, f)
  BY DEF Sets!Alike, Leads, LeadsOn
<1> HIDE DEF f, g
<1>3. component[f] = component[g] <=> Leads(f, g) /\ Leads(g, f)
  BY <1>1 DEF SearchInv, Cut
<1> QED BY <1>2, <1>3 DEF f, g

(* The first link of each component that lies on a cycle is its report.    *)
LEMMA FirstExact ==
    ASSUME LinksTyped, SearchInv, SearchOver
    PROVE  /\ Sets!Exact(Sets!FirstOnCycles, Kind, Ways)
           /\ Sets!FirstOnCycles = {} <=> ~ \E i \in 1..Len(links) : Sets!LiesOnCycle(i, Kind, Ways)
           /\ Sets!FirstOnCycles \in SUBSET Nat
<1> DEFINE Reports == Sets!FirstOnCycles
           On(i) == Sets!LiesOnCycle(i, Kind, Ways)
           of(i) == component[links[i].from]
<1>1. DOMAIN links = 1..Len(links) /\ Len(links) \in Nat
  BY LinkKinds
<1>2. \A i \in 1..Len(links) : On(i) <=> Sets!OnCycle(i)
  BY OnCycleIs
<1>3. \A i \in 1..Len(links) : On(i) => i \in Sets!Considered
  BY <1>2 DEF Sets!OnCycle
<1>4. \A i \in 1..Len(links) : i \in Reports <=> On(i) /\ \A j \in 1..(i - 1) : On(j) => of(j) # of(i)
  <2> SUFFICES ASSUME NEW i \in 1..Len(links)
               PROVE  i \in Reports <=> On(i) /\ \A j \in 1..(i - 1) : On(j) => of(j) # of(i)
    OBVIOUS
  <2>1. \A j \in 1..(i - 1) : j \in 1..Len(links)
    BY <1>1
  <2> HIDE DEF On
  <2> QED BY <1>1, <1>2, <2>1 DEF Sets!FirstOnCycles
<1>5. Reports \subseteq 1..Len(links)
  BY <1>1 DEF Sets!FirstOnCycles
<1>6. \A i, j \in 1..Len(links) : On(i) /\ On(j) => (Sets!Alike(i, j, Ways) <=> of(i) = of(j))
  BY <1>3, AlikeIs
<1> HIDE DEF Reports, On, of
<1>7. ASSUME NEW i \in 1..Len(links), On(i)
      PROVE  \E k \in Reports : {j \in Reports : Sets!Alike(i, j, Ways)} = {k}
  <2> DEFINE S == {j \in 1..Len(links) : On(j) /\ of(j) = of(i)}
  <2>1. i \in S /\ S \in SUBSET Nat
    BY <1>1, <1>7
  <2>2. PICK k \in S : \A j \in S : k <= j
    BY <2>1, LeastOfNaturals
  <2>3. k \in 1..Len(links) /\ On(k) /\ of(k) = of(i)
    BY <2>2
  <2>4. \A j \in 1..(k - 1) : j \in 1..Len(links) /\ ~(k <= j)
    BY <1>1, <2>3
  <2>5. \A j \in 1..(k - 1) : On(j) => of(j) # of(k)
    BY <2>2, <2>3, <2>4
  <2>6. k \in Reports
    BY <1>4, <2>3, <2>5
  <2>7. ASSUME NEW j \in Reports, Sets!Alike(i, j, Ways) PROVE j = k
    <3>1. j \in 1..Len(links) /\ On(j) /\ of(j) = of(i)
      BY <1>4, <1>5, <1>6, <1>7, <2>7
    <3>2. k <= j /\ j \in Nat /\ k \in Nat
      BY <1>1, <2>2, <2>3, <3>1
    <3>3. k \in 1..(j - 1) => of(k) # of(j)
      BY <1>4, <2>3, <2>7, <3>1
    <3>4. k < j => k \in 1..(j - 1)
      BY <2>3, <3>1, <3>2
    <3> QED BY <2>3, <3>1, <3>2, <3>3, <3>4
  <2>8. Sets!Alike(i, k, Ways)
    BY <1>6, <1>7, <2>3
  <2>9. {j \in Reports : Sets!Alike(i, j, Ways)} = {k}
    BY <2>6, <2>7, <2>8
  <2> QED BY <2>6, <2>9
<1>8. ASSUME NEW i \in 1..Len(links), On(i)
      PROVE  Sets!Cardinality({j \in Reports : Sets!Alike(i, j, Ways)}) = 1
  <2>1. PICK k \in Reports : {j \in Reports : Sets!Alike(i, j, Ways)} = {k}
    BY <1>7, <1>8
  <2> QED BY <2>1, SetsSize, FS_Singleton
<1>9. \A i \in Reports : On(i)
  BY <1>4, <1>5
<1>10. Sets!Exact(Reports, Kind, Ways)
  BY <1>1, <1>8, <1>9 DEF Sets!Exact, On
<1>11. Reports = {} <=> ~ \E i \in 1..Len(links) : On(i)
  BY <1>5, <1>7, <1>9
<1>12. Reports \in SUBSET Nat
  BY <1>1, <1>5
<1> QED BY <1>10, <1>11, <1>12 DEF Reports, On

-----------------------------------------------------------------------------
(* A set as it is given, and what is known of it.                          *)
SetTyped ==
    /\ sys \in FlowSystems /\ sys[Sets!Root].valid
    /\ stage \in {"resolve", "gotos", "cycles", "checked", "rejected", "run", "over"}
    /\ queue \in Seq(Sets!Flows) /\ position \in Nat \ {0} /\ link \in Nat \ {0}
    /\ LinksTyped

(* A reference has its link, and leads to a flow that is there: if it does *)
(* not, that is an error.                                                  *)
Taken(ref, f, all, known, errors) ==
    /\ \E i \in 1..Len(all) : all[i].from = f /\ all[i].edge = ref.edge /\ all[i].to = ref.to
    /\ ref.to \in known \/ errors # {}

(* All references are looked at, those of the queue in its order.          *)
ResolveFits ==
    /\ Sets!Root \in flows
    /\ \A i \in 1..Len(queue) : queue[i] \in flows
    /\ \A g \in flows : \E i \in 1..Len(queue) : queue[i] = g
    /\ position <= Len(queue) + 1
    /\ \A j \in 1..Len(queue) : \A r \in 1..Len(sys[queue[j]].refs) :
          j < position \/ (j = position /\ r < link) =>
              Taken(sys[queue[j]].refs[r], queue[j], links, flows, issues)
    /\ stage # "resolve" => position > Len(queue)

GotoEdges == Sets!EdgesOf({"goto"})

AllEdges == Sets!EdgesOf({"goto", "call"})

Unbounded == \E i \in 1..Len(links) : Sets!LiesOnCycle(i, "goto", GotoEdges)

(* Reports stay right after the search that made them.                     *)
GotosFit ==
    IF stage \in {"resolve", "gotos"} THEN "unbounded_cycle" \notin issues
    ELSE Sets!Exact(reported.gotos, "goto", GotoEdges) /\ ("unbounded_cycle" \in issues <=> Unbounded)

CyclesFit ==
    stage \notin {"resolve", "gotos", "cycles"} => Sets!Exact(reported.cycles, "call", AllEdges)

ReportsTyped == reported = [gotos |-> reported.gotos, cycles |-> reported.cycles]

(* The flows that hand over to f, over others or not.                      *)
Ancestors(f) == {g \in Sets!Flows : f \in Sets!LeadsTo(GotoEdges, g)}

Frames == [flow : Sets!Flows, entry : Sets!Flows, hops : Nat]

(* A frame is at a flow that its entry hands over to, after no more        *)
(* handovers than there are flows that lead there.                         *)
FramesFit ==
    /\ frames \in Seq(Frames)
    /\ frames # <<>> => issues = {} /\ stage \in {"run", "over"}
    /\ stage = "run" => frames # <<>>
    /\ returned # Sets!Nothing => stage \in {"run", "over"}
    /\ \A i \in 1..Len(frames) :
          /\ frames[i].flow \in flows
          /\ frames[i].flow \in Sets!Handovers(frames[i].entry)
          /\ frames[i].hops <= Cardinality(Ancestors(frames[i].flow))

SetsRest ==
    /\ SetTyped /\ ResolveFits /\ ReportsTyped /\ GotosFit /\ CyclesFit
    /\ FramesFit /\ Sets!OutputsDeclared

SetsInv ==
    /\ SetsRest
    /\ stage = "resolve" => Fresh
    /\ Sets!Searching => SearchInv

resting == <<sys, stage, queue, position, link, flows, links, issues, reported, frames, returned>>

(* A set that the resolver gives consists of flows.                        *)
LEMMA SystemsFit ==
    ASSUME sys \in FlowSystems
    PROVE  /\ sys \in [Sets!Flows -> Sets!FlowShape]
           /\ \A f \in Sets!Flows : /\ sys[f].refs \in Seq(Sets!Reference) /\ Len(sys[f].refs) \in Nat
                                    /\ DOMAIN sys[f].refs = 1..Len(sys[f].refs)
                                    /\ sys[f].ends \in SUBSET SUBSET Keys
           /\ \A f \in Sets!Flows, r \in Nat : r \in 1..Len(sys[f].refs) =>
                 /\ sys[f].refs[r] \in Sets!Reference
                 /\ sys[f].refs[r].to \in Sets!Flows \cup {Sets!Missing}
                 /\ sys[f].refs[r].edge \in {"call", "goto"}
<1>1. sys \in [Sets!Flows -> Sets!FlowShape]
  BY SetsAssumption
<1>2. ASSUME NEW f \in Sets!Flows
      PROVE  /\ sys[f].refs \in Seq(Sets!Reference) /\ sys[f].ends \in SUBSET SUBSET Keys
  <2>1. sys[f] \in Sets!FlowShape
    BY <1>1
  <2> QED BY <2>1 DEF Sets!FlowShape
<1>3. ASSUME NEW f \in Sets!Flows
      PROVE  /\ Len(sys[f].refs) \in Nat /\ DOMAIN sys[f].refs = 1..Len(sys[f].refs)
             /\ \A r \in 1..Len(sys[f].refs) : sys[f].refs[r] \in Sets!Reference
  <2> DEFINE s == sys[f].refs
             R == Sets!Reference
  <2>1. s \in Seq(R)
    BY <1>2
  <2> HIDE DEF s, R
  <2>2. Len(s) \in Nat /\ DOMAIN s = 1..Len(s) /\ \A r \in 1..Len(s) : s[r] \in R
    BY <2>1
  <2> QED BY <2>2 DEF s, R
<1>4. \A ref \in Sets!Reference :
          ref.to \in Sets!Flows \cup {Sets!Missing} /\ ref.edge \in {"call", "goto"}
  BY DEF Sets!Reference
<1> QED BY <1>1, <1>2, <1>3, <1>4

(* Where a search goes on nothing else does.                               *)
LEMMA Resting ==
    ASSUME SetsRest, UNCHANGED resting
    PROVE  SetsRest'
<1> USE DEF resting
<1>1. SetTyped' /\ ReportsTyped'
  BY DEF SetsRest, SetTyped, LinksTyped, ReportsTyped
<1>2. ResolveFits'
  BY DEF SetsRest, ResolveFits, Taken
<1>3. GotoEdges' = GotoEdges /\ AllEdges' = AllEdges
  BY DEF GotoEdges, AllEdges, Sets!EdgesOf
<1>4. GotosFit' /\ CyclesFit'
  BY <1>3 DEF SetsRest, GotosFit, CyclesFit, Unbounded, Sets!Exact, Sets!LiesOnCycle, Sets!Alike
<1>5. FramesFit'
  BY <1>3 DEF SetsRest, FramesFit, Ancestors, Sets!Handovers, Sets!Gotos
<1>6. Sets!OutputsDeclared'
  BY DEF SetsRest, Sets!OutputsDeclared, Sets!OutputKeys, Sets!Handovers, Sets!Gotos
<1> QED BY <1>1, <1>2, <1>4, <1>5, <1>6 DEF SetsRest

(* A check begins like this.                                               *)
LEMMA SetsInitFits == Sets!Init => SetsInv
<1> SUFFICES ASSUME Sets!Init PROVE SetsInv
  OBVIOUS
<1> USE DEF Sets!Init
<1>1. SetTyped
  <2>1. LinksTyped
    BY FlowNumbersFinite, EmptySeq DEF LinksTyped
  <2>2. <<Sets!Root>> \in Seq(Sets!Flows)
    BY FlowNumbersFinite
  <2> QED BY <2>1, <2>2 DEF SetTyped
<1>2. ResolveFits
  BY DEF ResolveFits
<1>3. FramesFit
  <2>1. frames \in Seq(Frames)
    BY EmptySeq
  <2> QED BY <2>1 DEF FramesFit
<1>4. GotosFit /\ CyclesFit /\ Sets!OutputsDeclared /\ ReportsTyped
  BY DEF GotosFit, CyclesFit, Sets!OutputsDeclared, ReportsTyped
<1>5. Fresh
  BY DEF Fresh
<1> QED BY <1>1, <1>2, <1>3, <1>4, <1>5 DEF SetsInv, SetsRest, Sets!Searching

(* Each of the steps of a search.                                          *)
LEMMA SearchSteps ==
    ASSUME SetsInv, Sets!Visit \/ Sets!Descend \/ Sets!Look \/ Sets!Return
    PROVE  SetsInv'
<1>1. UNCHANGED resting /\ UNCHANGED <<links, flows, stage>>
  BY DEF Sets!Visit, Sets!Descend, Sets!Look, Sets!Return, Sets!resolving, Sets!running, resting
<1>2. Sets!Searching /\ SearchInv /\ LinksTyped
  BY DEF SetsInv, SetsRest, SetTyped, Sets!Visit, Sets!Descend, Sets!Look, Sets!Return, Sets!Visiting
<1>3. CASE Sets!Visit
  <2>1. calls = <<>> /\ Sets!Pending # {}
    BY <1>3 DEF Sets!Visit
  <2>2. Sets!Pending \in SUBSET Nat /\ Sets!Foremost(Sets!Pending) \in Sets!Pending
    BY <1>2, <2>1, ForemostIs, ConsideredTyped DEF Sets!Pending
  <2> DEFINE i == Sets!Foremost(Sets!Pending)
             f == IF index[links[i].from] = 0 THEN links[i].from ELSE links[i].to
  <2>3. Sets!Enter(f)
    BY <1>3 DEF Sets!Visit
  <2> HIDE DEF i
  <2>4. i \in Sets!Considered /\ Sets!Unvisited(i) # {}
    BY <2>2 DEF Sets!Pending, i
  <2>5. f \in Sets!Flows /\ index[f] = 0
    BY <1>2, <2>4, ConsideredTyped DEF Sets!Unvisited
  <2> HIDE DEF f
  <2> QED BY <1>1, <1>2, <2>1, <2>3, <2>5, EnterKeeps, Resting DEF SetsInv, Sets!Searching, resting
<1>4. CASE Sets!Descend
  <2>1. calls # <<>> /\ Sets!Caller.rest # {} /\ index[Sets!Target] = 0 /\ Sets!Enter(Sets!Target)
    BY <1>4 DEF Sets!Descend, Sets!Visiting
  <2>2. Sets!Target \in Sets!Flows
    BY <1>2, <2>1, TargetIs
  <2>3. SearchInv'
    BY <1>1, <1>2, <2>1, <2>2, EnterKeeps
  <2> QED BY <1>1, <1>2, <2>3, Resting DEF SetsInv, Sets!Searching, resting
<1>5. CASE Sets!Look
  <2>1. SearchInv'
    BY <1>1, <1>2, <1>5, LookKeeps
  <2> QED BY <1>1, <1>2, <2>1, Resting DEF SetsInv, Sets!Searching, resting
<1>6. CASE Sets!Return
  <2>1. SearchInv'
    BY <1>1, <1>2, <1>6, ReturnKeeps, ReturnCloses
  <2> QED BY <1>1, <1>2, <2>1, Resting DEF SetsInv, Sets!Searching, resting
<1> QED BY <1>3, <1>4, <1>5, <1>6

(* A reference that is resolved.                                           *)
LEMMA ResolveStep ==
    ASSUME SetsInv, Sets!Resolve
    PROVE  SetsInv'
<1> DEFINE from == queue[position]
           ref == sys[from].refs[link]
           new == [from |-> from, edge |-> ref.edge, to |-> ref.to]
<1>1. /\ stage = "resolve" /\ position <= Len(queue) /\ link <= Len(sys[from].refs)
      /\ links' = Append(links, new)
      /\ IF ref.to \in Sets!Flows \ flows /\ sys[ref.to].valid
         THEN flows' = flows \cup {ref.to} /\ queue' = Append(queue, ref.to)
         ELSE UNCHANGED <<flows, queue>>
      /\ issues' = issues \cup (IF ref.to = Sets!Missing THEN {"missing_flow"} ELSE {})
                          \cup (IF ref.to \in Sets!Flows \ flows /\ ~sys[ref.to].valid
                                THEN {"invalid_flow"} ELSE {})
      /\ link' = link + 1
      /\ UNCHANGED <<sys, stage, position, reported, index, low, component, stack, calls, frames, returned>>
  BY DEF Sets!Resolve, Sets!tarjan, Sets!running
<1>2. /\ sys \in FlowSystems /\ sys[Sets!Root].valid
      /\ queue \in Seq(Sets!Flows) /\ position \in Nat \ {0} /\ link \in Nat \ {0}
      /\ flows \in SUBSET Sets!Flows /\ links \in Seq(Link) /\ Len(queue) \in Nat
  BY DEF SetsInv, SetsRest, SetTyped, LinksTyped
<1>3. position \in 1..Len(queue) /\ from \in Sets!Flows
  <2>1. position \in 1..Len(queue)
    BY <1>1, <1>2
  <2> QED BY <1>2, <2>1, ElementOfSeq
<1>4. /\ Len(sys[from].refs) \in Nat /\ link \in 1..Len(sys[from].refs)
      /\ ref.to \in Sets!Flows \cup {Sets!Missing} /\ ref.edge \in {"call", "goto"}
  <2> HIDE DEF from
  <2>1. Len(sys[from].refs) \in Nat
    BY <1>2, <1>3, SystemsFit
  <2>2. link \in 1..Len(sys[from].refs)
    BY <1>1, <1>2, <2>1
  <2> QED BY <1>2, <1>3, <2>1, <2>2, SystemsFit
<1>5. new \in Link /\ new.from = from /\ new.edge = ref.edge /\ new.to = ref.to
  BY <1>3, <1>4 DEF Link
<1> HIDE DEF from, ref, new
<1>6. /\ links' \in Seq(Link) /\ Len(links) \in Nat /\ Len(links') = Len(links) + 1
      /\ \A i \in 1..Len(links) : links'[i] = links[i] /\ i \in 1..Len(links')
      /\ links'[Len(links) + 1] = new /\ Len(links) + 1 \in 1..Len(links')
  BY <1>1, <1>2, <1>5
<1>7. /\ flows' \in SUBSET Sets!Flows /\ flows \subseteq flows' /\ \A g \in flows' : g \in flows \/ g = ref.to
      /\ issues \subseteq issues'
      /\ ref.to \in flows' \/ issues' # {}
  BY <1>1, <1>2, <1>4
<1>8. /\ queue' \in Seq(Sets!Flows) /\ Len(queue') \in Nat /\ Len(queue) <= Len(queue')
      /\ \A j \in 1..Len(queue) : queue'[j] = queue[j] /\ j \in 1..Len(queue')
      /\ \A j \in 1..Len(queue') : j > Len(queue) => queue'[j] \in flows'
      /\ \A g \in flows' \ flows : \E j \in 1..Len(queue') : queue'[j] = g
  <2>1. CASE ref.to \in Sets!Flows \ flows /\ sys[ref.to].valid
    <3>1. queue' = Append(queue, ref.to) /\ flows' = flows \cup {ref.to} /\ ref.to \in Sets!Flows
      BY <1>1, <2>1
    <3>2. /\ queue' \in Seq(Sets!Flows) /\ Len(queue') = Len(queue) + 1
          /\ \A j \in 1..Len(queue) : queue'[j] = queue[j]
          /\ queue'[Len(queue) + 1] = ref.to
      BY <1>2, <3>1
    <3>3. /\ Len(queue) + 1 \in 1..Len(queue') /\ \A j \in 1..Len(queue) : j \in 1..Len(queue')
          /\ \A j \in 1..Len(queue') : j > Len(queue) => j = Len(queue) + 1
      BY <1>2, <3>2
    <3> QED BY <1>2, <3>1, <3>2, <3>3
  <2>2. CASE ~(ref.to \in Sets!Flows \ flows /\ sys[ref.to].valid)
    <3>1. queue' = queue /\ flows' = flows
      BY <1>1, <2>2
    <3> QED BY <1>2, <3>1
  <2> QED BY <2>1, <2>2
<1>9. SetTyped'
  BY <1>1, <1>2, <1>6, <1>7, <1>8 DEF SetsInv, SetsRest, SetTyped, LinksTyped
<1>10. ASSUME NEW q, NEW f, Taken(q, f, links, flows, issues)
       PROVE  Taken(q, f, links', flows', issues')
  <2>1. PICK i \in 1..Len(links) : links[i].from = f /\ links[i].edge = q.edge /\ links[i].to = q.to
    BY <1>10 DEF Taken
  <2>2. i \in 1..Len(links') /\ links'[i] = links[i]
    BY <1>6
  <2>3. q.to \in flows' \/ issues' # {}
    BY <1>7, <1>10 DEF Taken
  <2> QED BY <2>1, <2>2, <2>3 DEF Taken
<1>11. Taken(ref, from, links', flows', issues')
  <2>1. /\ links'[Len(links) + 1].from = from /\ links'[Len(links) + 1].edge = ref.edge
        /\ links'[Len(links) + 1].to = ref.to
    BY <1>5, <1>6
  <2> QED BY <1>6, <1>7, <2>1 DEF Taken
<1>12. ResolveFits'
  <2>1. Sets!Root \in flows' /\ \A j \in 1..Len(queue') : queue'[j] \in flows'
    <3>1. \A j \in 1..Len(queue) : queue[j] \in flows
      BY DEF SetsInv, SetsRest, ResolveFits
    <3>2. \A j \in 1..Len(queue') : j \in 1..Len(queue) \/ j > Len(queue)
      BY <1>2, <1>8
    <3> QED BY <1>7, <1>8, <3>1, <3>2 DEF SetsInv, SetsRest, ResolveFits
  <2>2. \A g \in flows' : \E j \in 1..Len(queue') : queue'[j] = g
    BY <1>8 DEF SetsInv, SetsRest, ResolveFits
  <2>3. position' <= Len(queue') + 1 /\ stage' = "resolve"
    BY <1>1, <1>2, <1>8
  <2>4. ASSUME NEW j \in 1..Len(queue'), NEW r \in 1..Len(sys'[queue'[j]].refs),
               j < position' \/ (j = position' /\ r < link')
        PROVE  Taken(sys'[queue'[j]].refs[r], queue'[j], links', flows', issues')
    <3>1. j \in 1..Len(queue) /\ queue'[j] = queue[j] /\ sys' = sys /\ position' = position /\ link' = link + 1
      BY <1>1, <1>2, <1>8, <2>4
    <3>2. r \in 1..Len(sys[queue[j]].refs) /\ r \in Nat
      BY <2>4, <3>1
    <3>3. CASE j < position \/ (j = position /\ r < link)
      <4>1. Taken(sys[queue[j]].refs[r], queue[j], links, flows, issues)
        BY <3>1, <3>2, <3>3 DEF SetsInv, SetsRest, ResolveFits
      <4> QED BY <1>10, <3>1, <4>1
    <3>4. CASE j = position /\ ~(r < link)
      <4>1. r = link
        BY <1>2, <2>4, <3>1, <3>2, <3>4
      <4> QED BY <1>11, <3>1, <3>4, <4>1 DEF from, ref
    <3> QED BY <2>4, <3>1, <3>3, <3>4
  <2> QED BY <2>1, <2>2, <2>3, <2>4 DEF ResolveFits
<1>13. GotosFit' /\ CyclesFit' /\ ReportsTyped'
  BY <1>1 DEF SetsInv, SetsRest, GotosFit, CyclesFit, ReportsTyped
<1>14. FramesFit' /\ Sets!OutputsDeclared'
  <2>1. frames = <<>> /\ returned = Sets!Nothing
    BY <1>1 DEF SetsInv, SetsRest, FramesFit
  <2>2. frames' = <<>> /\ Len(frames') = 0 /\ frames' \in Seq(Frames) /\ returned' = Sets!Nothing
    BY <1>1, <2>1, EmptySeq DEF Sets!Nothing
  <2> QED BY <1>1, <2>2 DEF FramesFit, Sets!OutputsDeclared, Sets!Nothing
<1>15. Fresh'
  BY <1>1 DEF SetsInv, Fresh
<1> QED BY <1>1, <1>9, <1>12, <1>13, <1>14, <1>15 DEF SetsInv, SetsRest, Sets!Searching

(* A flow whose references were all looked at is left behind.              *)
LEMMA NextFlowStep ==
    ASSUME SetsInv, Sets!NextFlow
    PROVE  SetsInv'
<1>1. /\ stage = "resolve" /\ position <= Len(queue) /\ link > Len(sys[queue[position]].refs)
      /\ position' = position + 1 /\ link' = 1
      /\ UNCHANGED <<sys, stage, queue, flows, links, issues, reported, index, low, component,
                     stack, calls, frames, returned>>
  BY DEF Sets!NextFlow, Sets!tarjan, Sets!running
<1>2. /\ sys \in FlowSystems /\ queue \in Seq(Sets!Flows) /\ Len(queue) \in Nat
      /\ position \in Nat \ {0} /\ link \in Nat \ {0}
  BY DEF SetsInv, SetsRest, SetTyped
<1>3. SetTyped'
  BY <1>1, <1>2 DEF SetsInv, SetsRest, SetTyped, LinksTyped
<1>4. ASSUME NEW j \in 1..Len(queue), NEW r \in 1..Len(sys[queue[j]].refs),
             j < position' \/ (j = position' /\ r < link')
      PROVE  Taken(sys[queue[j]].refs[r], queue[j], links, flows, issues)
  <2>1. queue[j] \in Sets!Flows
    BY <1>2, ElementOfSeq
  <2>2. Len(sys[queue[j]].refs) \in Nat /\ r \in Nat /\ 0 < r /\ r <= Len(sys[queue[j]].refs)
    BY <1>2, <2>1, SystemsFit
  <2>3. j < position \/ j = position
    BY <1>1, <1>2, <1>4, <2>2
  <2>4. j < position \/ (j = position /\ r < link)
    BY <1>1, <1>2, <2>2, <2>3
  <2> QED BY <2>4 DEF SetsInv, SetsRest, ResolveFits
<1>5. ResolveFits'
  <2>1. position' <= Len(queue) + 1
    BY <1>1, <1>2
  <2> QED BY <1>1, <1>4, <2>1 DEF SetsInv, SetsRest, ResolveFits
<1>6. GotosFit' /\ CyclesFit' /\ ReportsTyped'
  BY <1>1 DEF SetsInv, SetsRest, GotosFit, CyclesFit, ReportsTyped
<1>7. FramesFit' /\ Sets!OutputsDeclared'
  <2>1. frames = <<>> /\ returned = Sets!Nothing
    BY <1>1 DEF SetsInv, SetsRest, FramesFit
  <2>2. frames' = <<>> /\ Len(frames') = 0 /\ frames' \in Seq(Frames) /\ returned' = Sets!Nothing
    BY <1>1, <2>1, EmptySeq DEF Sets!Nothing
  <2> QED BY <1>1, <2>2 DEF FramesFit, Sets!OutputsDeclared, Sets!Nothing
<1>8. Fresh'
  BY <1>1 DEF SetsInv, Fresh
<1> QED BY <1>1, <1>3, <1>5, <1>6, <1>7, <1>8 DEF SetsInv, SetsRest, Sets!Searching

(* The first search begins when the queue is empty.                        *)
LEMMA ResolvedStep ==
    ASSUME SetsInv, Sets!Resolved
    PROVE  SetsInv'
<1>1. /\ stage = "resolve" /\ position > Len(queue) /\ stage' = "gotos"
      /\ UNCHANGED <<sys, queue, position, link, flows, links, issues, reported, index, low, component,
                     stack, calls, frames, returned>>
  BY DEF Sets!Resolved, Sets!resolving, Sets!tarjan, Sets!running
<1>2. SetTyped'
  BY <1>1 DEF SetsInv, SetsRest, SetTyped, LinksTyped
<1>3. ResolveFits'
  BY <1>1 DEF SetsInv, SetsRest, ResolveFits
<1>4. GotosFit' /\ CyclesFit' /\ ReportsTyped'
  BY <1>1 DEF SetsInv, SetsRest, GotosFit, CyclesFit, ReportsTyped
<1>5. FramesFit' /\ Sets!OutputsDeclared'
  <2>1. frames = <<>> /\ returned = Sets!Nothing
    BY <1>1 DEF SetsInv, SetsRest, FramesFit
  <2>2. frames' = <<>> /\ Len(frames') = 0 /\ frames' \in Seq(Frames) /\ returned' = Sets!Nothing
    BY <1>1, <2>1, EmptySeq DEF Sets!Nothing
  <2> QED BY <1>1, <2>2 DEF FramesFit, Sets!OutputsDeclared, Sets!Nothing
<1>6. LinksTyped' /\ Fresh'
  BY <1>1, <1>2 DEF SetsInv, Fresh, SetTyped
<1>7. SearchInv'
  BY <1>6, FreshFits, PTL
<1> QED BY <1>1, <1>2, <1>3, <1>4, <1>5, <1>7 DEF SetsInv, SetsRest

(* The reports of a search are right, and the next one begins anew.        *)
LEMMA ComponentsStep ==
    ASSUME SetsInv, Sets!Components
    PROVE  SetsInv'
<1>1. /\ SearchOver /\ calls = <<>>
      /\ reported' = [reported EXCEPT ![stage] = Sets!FirstOnCycles]
      /\ issues' = IF stage = "gotos" /\ Sets!FirstOnCycles # {} THEN issues \cup {"unbounded_cycle"}
                                                                 ELSE issues
      /\ IF stage = "gotos"
         THEN /\ stage' = "cycles" /\ index' = Sets!Unnumbered /\ low' = Sets!Unnumbered
              /\ component' = Sets!Unnumbered
         ELSE stage' = "checked" /\ UNCHANGED <<index, low, component>>
      /\ UNCHANGED <<sys, queue, position, link, flows, links, stack, calls, frames, returned>>
  BY DEF Sets!Components, SearchOver, Sets!resolving, Sets!running
<1>2. SearchInv /\ LinksTyped /\ stage \in {"gotos", "cycles"}
  BY <1>1 DEF SetsInv, SetsRest, SetTyped, SearchOver, Sets!Searching
<1>3. SetTyped'
  BY <1>1, <1>2 DEF SetsInv, SetsRest, SetTyped, LinksTyped
<1>4. ResolveFits'
  <2>1. issues # {} => issues' # {}
    BY <1>1
  <2>2. \A q, f : Taken(q, f, links, flows, issues) => Taken(q, f, links', flows', issues')
    BY <1>1, <2>1 DEF Taken
  <2> QED BY <1>1, <1>2, <2>2 DEF SetsInv, SetsRest, ResolveFits
<1>5. FramesFit' /\ Sets!OutputsDeclared'
  <2>1. frames = <<>> /\ returned = Sets!Nothing
    BY <1>2 DEF SetsInv, SetsRest, FramesFit
  <2>2. frames' = <<>> /\ Len(frames') = 0 /\ frames' \in Seq(Frames) /\ returned' = Sets!Nothing
    BY <1>1, <2>1, EmptySeq DEF Sets!Nothing
  <2>3. stage' # "run"
    BY <1>1
  <2> QED BY <2>2, <2>3 DEF FramesFit, Sets!OutputsDeclared, Sets!Nothing
<1>6. /\ Sets!Exact(Sets!FirstOnCycles, Kind, Ways)
      /\ Sets!FirstOnCycles = {} <=> ~ \E i \in 1..Len(links) : Sets!LiesOnCycle(i, Kind, Ways)
      /\ Ways = Sets!EdgesOf(Kinds)
  BY <1>1, <1>2, FirstExact, WaysAreEdges DEF SearchOver
<1>7. /\ \A S, kind, W : Sets!Exact(S, kind, W)' <=> Sets!Exact(S, kind, W)
      /\ \A i, kind, W : Sets!LiesOnCycle(i, kind, W)' <=> Sets!LiesOnCycle(i, kind, W)
  <2>1. links' = links /\ flows' = flows
    BY <1>1
  <2> QED BY <2>1 DEF Sets!Exact, Sets!LiesOnCycle, Sets!Alike
<1>8. GotoEdges' = GotoEdges /\ AllEdges' = AllEdges /\ (Unbounded' <=> Unbounded)
  <2>1. GotoEdges' = GotoEdges /\ AllEdges' = AllEdges
    BY <1>1 DEF GotoEdges, AllEdges, Sets!EdgesOf
  <2>2. links' = links
    BY <1>1
  <2> QED BY <1>7, <2>1, <2>2 DEF Unbounded, Sets!LiesOnCycle
<1>9. CASE stage = "gotos"
  <2>1. reported' = [gotos |-> Sets!FirstOnCycles, cycles |-> reported.cycles]
    BY <1>1, <1>9 DEF SetsInv, SetsRest, ReportsTyped
  <2>2. ReportsTyped' /\ reported'.gotos = Sets!FirstOnCycles
    BY <2>1 DEF ReportsTyped
  <2>3. Kind = "goto" /\ Ways = GotoEdges
    BY <1>6, <1>9 DEF Kind, Kinds, GotoEdges
  <2>4. "unbounded_cycle" \notin issues
    BY <1>9 DEF SetsInv, SetsRest, GotosFit
  <2>5. "unbounded_cycle" \in issues' <=> Unbounded
    BY <1>1, <1>6, <1>9, <2>3, <2>4 DEF Unbounded
  <2>6. Sets!Exact(reported'.gotos, "goto", GotoEdges)
    BY <1>6, <2>2, <2>3
  <2>7. Sets!Exact(reported.gotos, "goto", GotoEdges)'
    BY <1>1, <1>8, <2>6 DEF Sets!Exact, Sets!LiesOnCycle, Sets!Alike
  <2>8. GotosFit' /\ CyclesFit'
    BY <1>1, <1>8, <1>9, <2>5, <2>7 DEF GotosFit, CyclesFit
  <2>9. stack = <<>>
    <3>1. OnStack = {}
      BY <1>1, <1>2, AllClosed DEF OnStack
    <3>2. \A i \in 1..Len(stack) : FALSE
      BY <1>2, <3>1 DEF SearchInv, StackFits
    <3>3. stack \in Seq(Sets!Flows)
      BY <1>2 DEF SearchInv, SearchTyped
    <3> QED BY <3>2, <3>3, EmptySeq
  <2>10. LinksTyped' /\ Fresh'
    BY <1>1, <1>3, <1>9, <2>9 DEF SetTyped, Fresh, Sets!Unnumbered
  <2>11. SearchInv'
    BY <2>10, FreshFits, PTL
  <2> QED BY <1>1, <1>3, <1>4, <1>5, <1>9, <2>2, <2>8, <2>11 DEF SetsInv, SetsRest
<1>10. CASE stage = "cycles"
  <2>1. reported' = [gotos |-> reported.gotos, cycles |-> Sets!FirstOnCycles]
    BY <1>1, <1>10 DEF SetsInv, SetsRest, ReportsTyped
  <2>2. ReportsTyped' /\ reported'.cycles = Sets!FirstOnCycles /\ reported'.gotos = reported.gotos
    BY <2>1 DEF ReportsTyped
  <2>3. Kind = "call" /\ Ways = AllEdges
    BY <1>6, <1>10 DEF Kind, Kinds, AllEdges
  <2>4. issues' = issues /\ stage' = "checked"
    BY <1>1, <1>10
  <2>5. Sets!Exact(reported.gotos, "goto", GotoEdges) /\ ("unbounded_cycle" \in issues <=> Unbounded)
    BY <1>10 DEF SetsInv, SetsRest, GotosFit
  <2>6. Sets!Exact(reported.gotos, "goto", GotoEdges)'
    BY <1>1, <1>8, <2>2, <2>5 DEF Sets!Exact, Sets!LiesOnCycle, Sets!Alike
  <2>7. Sets!Exact(reported.cycles, "call", AllEdges)'
    BY <1>1, <1>6, <1>8, <2>2, <2>3 DEF Sets!Exact, Sets!LiesOnCycle, Sets!Alike
  <2>8. GotosFit' /\ CyclesFit'
    BY <1>8, <2>4, <2>5, <2>6, <2>7 DEF GotosFit, CyclesFit
  <2> QED BY <1>3, <1>4, <1>5, <2>2, <2>4, <2>8 DEF SetsInv, SetsRest, Sets!Searching
<1> QED BY <1>2, <1>9, <1>10

-----------------------------------------------------------------------------
(* A run.  What a flow hands over to is the least that gotos do not leave. *)
LEMMA HandoversAre ==
    ASSUME LinksTyped, NEW f \in Sets!Flows
    PROVE  /\ f \in Sets!Handovers(f) /\ Sets!Handovers(f) \in SUBSET Sets!Flows
           /\ \A g \in Sets!Handovers(f), t \in Sets!Flows :
                 t \in Sets!Gotos(g) => t \in Sets!Handovers(f)
<1> DEFINE next == [g \in Sets!Flows |-> Sets!Gotos(g)]
           from == {f}
<1>1. Sets!Handovers(f) = Sets!ReachedFrom(Sets!Flows, from, next)
  BY DEF Sets!Handovers
<1>2. \A g \in Sets!Flows : next[g] = Sets!Gotos(g)
  OBVIOUS
<1>3. from \in SUBSET Sets!Flows /\ f \in from
  OBVIOUS
<1> HIDE DEF next, from
<1>4. Sets!Handovers(f) = ReachedFrom(Sets!Flows, from, next)
  BY <1>1, SetsReached
<1>5. /\ ReachedFrom(Sets!Flows, from, next) \in SUBSET Sets!Flows
      /\ from \subseteq ReachedFrom(Sets!Flows, from, next)
      /\ \A n \in ReachedFrom(Sets!Flows, from, next) :
            next[n] \cap Sets!Flows \subseteq ReachedFrom(Sets!Flows, from, next)
  BY <1>3, FlowNumbersFinite, ReachedLeast
<1> QED BY <1>2, <1>3, <1>4, <1>5

(* Where no goto lies on a cycle, a flow is not among those before it, and *)
(* a handover makes these more.                                            *)
LEMMA NoWayBack ==
    ASSUME LinksTyped, ~Unbounded, NEW f \in Sets!Flows
    PROVE  f \notin Ancestors(f)
<1> SUFFICES ASSUME f \in Sets!LeadsTo(GotoEdges, f) PROVE FALSE
  BY DEF Ancestors
<1> DEFINE X == {v \in Sets!Flows :
                    \E t \in Sets!Flows : <<f, t>> \in GotoEdges /\ LeadsOn(GotoEdges, t, v)}
<1>1. \A t \in Sets!Flows : <<f, t>> \in GotoEdges => t \in X
  BY DEF LeadsOn
<1>2. ASSUME NEW v \in X, NEW u \in Sets!Flows, <<v, u>> \in GotoEdges PROVE u \in X
  <2>1. PICK t \in Sets!Flows : <<f, t>> \in GotoEdges /\ LeadsOn(GotoEdges, t, v)
    OBVIOUS
  <2>2. LeadsOn(GotoEdges, v, u)
    BY <1>2, LeadsByWay
  <2>3. LeadsOn(GotoEdges, t, u)
    BY <2>1, <2>2, LeadsFar
  <2> QED BY <2>1, <2>3
<1>3. X \in SUBSET Sets!Flows
  OBVIOUS
<1>4. f \in X
  <2> HIDE DEF X
  <2> QED BY <1>1, <1>2, <1>3, LeadsToIs
<1>5. PICK t \in Sets!Flows : <<f, t>> \in GotoEdges /\ LeadsOn(GotoEdges, t, f)
  BY <1>4
<1>6. PICK i \in DOMAIN links :
          links[i].edge = "goto" /\ links[i].to \in flows /\ links[i].from = f /\ links[i].to = t
  BY <1>5 DEF GotoEdges, Sets!EdgesOf
<1>7. Sets!LiesOnCycle(i, "goto", GotoEdges)
  BY <1>5, <1>6 DEF Sets!LiesOnCycle, LeadsOn
<1> QED BY <1>6, <1>7, LinkKinds DEF Unbounded

(* A handover has more ancestors than what it is from.                     *)
LEMMA AncestorsGrow ==
    ASSUME LinksTyped, ~Unbounded, NEW f \in Sets!Flows, NEW t \in Sets!Flows, <<f, t>> \in GotoEdges
    PROVE  Cardinality(Ancestors(f)) + 1 <= Cardinality(Ancestors(t))
<1>1. IsFiniteSet(Ancestors(f)) /\ IsFiniteSet(Ancestors(t))
  BY FlowNumbersFinite, FS_Subset DEF Ancestors
<1>2. f \notin Ancestors(f)
  BY NoWayBack
<1>3. Ancestors(f) \cup {f} \subseteq Ancestors(t)
  BY LeadsToIs DEF Ancestors
<1>4. Cardinality(Ancestors(f) \cup {f}) = Cardinality(Ancestors(f)) + 1
  BY <1>1, <1>2, FS_AddElement
<1>5. Cardinality(Ancestors(f) \cup {f}) <= Cardinality(Ancestors(t))
  BY <1>1, <1>3, FS_Subset
<1> QED BY <1>4, <1>5

(* There are fewer of them than flows.                                     *)
LEMMA AncestorsFew ==
    ASSUME LinksTyped, ~Unbounded, NEW f \in Sets!Flows
    PROVE  Cardinality(Ancestors(f)) \in Nat /\ Cardinality(Ancestors(f)) < FlowCount
<1>1. IsFiniteSet(Ancestors(f)) /\ Ancestors(f) \in SUBSET Sets!Flows
  BY FlowNumbersFinite, FS_Subset DEF Ancestors
<1>2. f \notin Ancestors(f)
  BY NoWayBack
<1>3. Cardinality(Ancestors(f) \cup {f}) = Cardinality(Ancestors(f)) + 1
  BY <1>1, <1>2, FS_AddElement
<1>4. Cardinality(Ancestors(f) \cup {f}) <= FlowCount
  <2>1. Ancestors(f) \cup {f} \subseteq Sets!Flows
    BY <1>1
  <2> QED BY <2>1, FlowNumbersFinite, FS_Subset
<1>5. Cardinality(Ancestors(f)) \in Nat
  BY <1>1, FS_CardinalityType
<1> QED BY <1>3, <1>4, <1>5, FlowNumbersFinite

(* What a run does not change.                                             *)
LEMMA RunKeeps ==
    ASSUME SetsInv, stage \in {"checked", "run"}, stage' \in {"rejected", "run", "over"},
           UNCHANGED <<sys, queue, position, link, flows, links, issues, reported>>
    PROVE  /\ SetTyped' /\ ResolveFits' /\ ReportsTyped' /\ GotosFit' /\ CyclesFit'
           /\ \A f : Sets!Handovers(f)' = Sets!Handovers(f)
           /\ \A f : Ancestors(f)' = Ancestors(f)
           /\ \A f : Sets!OutputKeys(f)' = Sets!OutputKeys(f)
<1>1. SetTyped' /\ ReportsTyped'
  BY DEF SetsInv, SetsRest, SetTyped, LinksTyped, ReportsTyped
<1>2. ResolveFits'
  BY DEF SetsInv, SetsRest, ResolveFits
<1>3. GotoEdges' = GotoEdges /\ AllEdges' = AllEdges
  BY DEF GotoEdges, AllEdges, Sets!EdgesOf
<1>4. GotosFit' /\ CyclesFit'
  BY <1>3 DEF SetsInv, SetsRest, GotosFit, CyclesFit, Unbounded, Sets!Exact, Sets!LiesOnCycle, Sets!Alike
<1>5. \A f : Sets!Handovers(f)' = Sets!Handovers(f)
  BY DEF Sets!Handovers, Sets!Gotos
<1>6. \A f : Sets!OutputKeys(f)' = Sets!OutputKeys(f)
  BY <1>5 DEF Sets!OutputKeys
<1>7. \A f : Ancestors(f)' = Ancestors(f)
  BY <1>3 DEF Ancestors
<1> QED BY <1>1, <1>2, <1>4, <1>5, <1>6, <1>7

(* A run begins at the root, without an error.                             *)
LEMMA PreflightStep ==
    ASSUME SetsInv, Sets!Check
    PROVE  SetsInv'
<1>1. /\ stage = "checked"
      /\ IF issues = {}
         THEN stage' = "run" /\ frames' = <<[flow |-> Sets!Root, entry |-> Sets!Root, hops |-> 0]>>
         ELSE stage' = "rejected" /\ UNCHANGED frames
      /\ UNCHANGED <<sys, queue, position, link, flows, links, issues, reported, returned>>
  BY DEF Sets!Check, Sets!resolving, Sets!tarjan
<1>2. stage' \in {"rejected", "run", "over"}
  BY <1>1
<1>3. /\ SetTyped' /\ ResolveFits' /\ ReportsTyped' /\ GotosFit' /\ CyclesFit'
      /\ \A f : Sets!Handovers(f)' = Sets!Handovers(f)
      /\ \A f : Ancestors(f)' = Ancestors(f)
  BY <1>1, <1>2, RunKeeps
<1>4. frames = <<>> /\ returned = Sets!Nothing /\ LinksTyped /\ Sets!Root \in flows
  BY <1>1 DEF SetsInv, SetsRest, FramesFit, SetTyped, ResolveFits
<1>5. CASE issues = {}
  <2> DEFINE first == [flow |-> Sets!Root, entry |-> Sets!Root, hops |-> 0]
  <2>1. /\ stage' = "run" /\ frames' = <<first>> /\ issues' = {} /\ first \in Frames /\ returned' = Sets!Nothing
    BY <1>1, <1>4, <1>5, FlowNumbersFinite DEF Frames, Sets!Nothing
  <2>2. first.flow = Sets!Root /\ first.entry = Sets!Root /\ first.hops = 0
    OBVIOUS
  <2> HIDE DEF first
  <2>3. frames' \in Seq(Frames) /\ Len(frames') = 1 /\ frames'[1] = first /\ frames' # <<>>
    BY <2>1
  <2>4. Sets!Root \in Sets!Handovers(Sets!Root) /\ Cardinality(Ancestors(Sets!Root)) \in Nat
    BY <1>4, HandoversAre, FlowNumbersFinite, FS_Subset, FS_CardinalityType DEF Ancestors
  <2>5. \A i \in 1..Len(frames') :
            /\ frames'[i].flow \in flows'
            /\ frames'[i].flow \in Sets!Handovers(frames'[i].entry)
            /\ frames'[i].hops <= Cardinality(Ancestors(frames'[i].flow))
    BY <1>1, <1>4, <2>2, <2>3, <2>4
  <2>6. FramesFit'
    BY <1>3, <2>1, <2>3, <2>5 DEF FramesFit
  <2> QED BY <1>3, <2>1, <2>6 DEF SetsInv, SetsRest, Sets!Searching, Sets!OutputsDeclared, Sets!Nothing
<1>6. CASE issues # {}
  <2>1. frames' = <<>> /\ Len(frames') = 0 /\ frames' \in Seq(Frames) /\ returned' = Sets!Nothing
        /\ stage' = "rejected"
    BY <1>1, <1>4, <1>6, EmptySeq DEF Sets!Nothing
  <2>2. FramesFit'
    BY <2>1 DEF FramesFit, Sets!Nothing
  <2> QED BY <1>3, <2>1, <2>2 DEF SetsInv, SetsRest, Sets!Searching, Sets!OutputsDeclared, Sets!Nothing
<1> QED BY <1>5, <1>6

(* Where a run is, and where its references lead: the check found links    *)
(* for all of them, to flows that are there, and no cycle of gotos.        *)
LEMMA TopIs ==
    ASSUME SetsInv, stage = "run"
    PROVE  /\ Len(frames) \in Nat /\ Len(frames) \in 1..Len(frames) /\ frames \in Seq(Frames)
           /\ Sets!Top = frames[Len(frames)] /\ Sets!Top \in Frames
           /\ Sets!Top.flow \in Sets!Flows /\ Sets!Top.entry \in Sets!Flows /\ Sets!Top.hops \in Nat
           /\ Sets!Top.flow \in flows /\ Sets!Top.flow \in Sets!Handovers(Sets!Top.entry)
           /\ Sets!Top.hops <= Cardinality(Ancestors(Sets!Top.flow))
           /\ LinksTyped /\ ~Unbounded /\ issues = {}
           /\ \A edge : \A r \in Sets!Refs(edge) :
                 /\ r.edge = edge /\ r.to \in flows /\ r.to \in Sets!Flows
                 /\ \E i \in 1..Len(links) :
                       links[i].from = Sets!Top.flow /\ links[i].edge = edge /\ links[i].to = r.to
<1>1. frames \in Seq(Frames) /\ frames # <<>> /\ issues = {} /\ LinksTyped
  BY DEF SetsInv, SetsRest, FramesFit, SetTyped
<1>2. Len(frames) \in Nat /\ Len(frames) \in 1..Len(frames)
  BY <1>1
<1>3. Sets!Top = frames[Len(frames)]
  BY DEF Sets!Top
<1>4. Sets!Top \in Frames
  BY <1>1, <1>2, <1>3, ElementOfSeq
<1>5. Sets!Top.flow \in Sets!Flows /\ Sets!Top.entry \in Sets!Flows /\ Sets!Top.hops \in Nat
  BY <1>4 DEF Frames
<1>6. /\ Sets!Top.flow \in flows /\ Sets!Top.flow \in Sets!Handovers(Sets!Top.entry)
      /\ Sets!Top.hops <= Cardinality(Ancestors(Sets!Top.flow))
  BY <1>2, <1>3 DEF SetsInv, SetsRest, FramesFit
<1>7. ~Unbounded
  BY <1>1 DEF SetsInv, SetsRest, GotosFit
<1>8. ASSUME NEW edge, NEW r \in Sets!Refs(edge)
      PROVE  /\ r.edge = edge /\ r.to \in flows /\ r.to \in Sets!Flows
             /\ \E i \in 1..Len(links) :
                   links[i].from = Sets!Top.flow /\ links[i].edge = edge /\ links[i].to = r.to
  <2> DEFINE f == Sets!Top.flow
  <2>1. r \in {sys[f].refs[n] : n \in DOMAIN sys[f].refs} /\ r.edge = edge
    BY DEF Sets!Refs
  <2> HIDE DEF f
  <2>2. PICK n \in DOMAIN sys[f].refs : r = sys[f].refs[n]
    BY <2>1
  <2>3. f \in Sets!Flows /\ sys \in FlowSystems
    BY <1>5 DEF f, SetsInv, SetsRest, SetTyped
  <2>4. n \in 1..Len(sys[f].refs)
    BY <2>2, <2>3, SystemsFit
  <2>5. PICK j \in 1..Len(queue) : queue[j] = f
    BY <1>6 DEF f, SetsInv, SetsRest, ResolveFits
  <2>6. j < position
    BY DEF SetsInv, SetsRest, ResolveFits, SetTyped
  <2>7. Taken(sys[queue[j]].refs[n], queue[j], links, flows, issues)
    BY <2>4, <2>5, <2>6 DEF SetsInv, SetsRest, ResolveFits
  <2>8. Taken(r, f, links, flows, {})
    BY <1>1, <2>2, <2>5, <2>7
  <2> QED BY <1>1, <2>1, <2>8 DEF Taken, f, LinksTyped
<1> QED BY <1>1, <1>2, <1>3, <1>4, <1>5, <1>6, <1>7, <1>8

(* A call begins at its flow, which was resolved.                          *)
LEMMA CallStep ==
    ASSUME SetsInv, Sets!Call
    PROVE  SetsInv'
<1>1. PICK r \in Sets!Refs("call") :
          IF Len(frames) < MaxDepth
          THEN /\ frames' = Append(frames, [flow |-> r.to, entry |-> r.to, hops |-> 0])
               /\ stage' = stage
          ELSE stage' = "over" /\ UNCHANGED frames
  BY DEF Sets!Call
<1>2. /\ stage = "run" /\ returned' = Sets!Nothing
      /\ UNCHANGED <<sys, queue, position, link, flows, links, issues, reported>>
  BY DEF Sets!Call, Sets!resolving, Sets!tarjan
<1>3. /\ Len(frames) \in Nat /\ frames \in Seq(Frames) /\ LinksTyped /\ issues = {}
      /\ r.to \in flows /\ r.to \in Sets!Flows
  BY <1>2, TopIs
<1>4. stage' \in {"rejected", "run", "over"}
  BY <1>1, <1>2
<1>5. /\ SetTyped' /\ ResolveFits' /\ ReportsTyped' /\ GotosFit' /\ CyclesFit'
      /\ \A f : Sets!Handovers(f)' = Sets!Handovers(f)
      /\ \A f : Ancestors(f)' = Ancestors(f)
  BY <1>2, <1>4, RunKeeps
<1>6. \A i \in 1..Len(frames) :
          /\ frames[i].flow \in flows
          /\ frames[i].flow \in Sets!Handovers(frames[i].entry)
          /\ frames[i].hops <= Cardinality(Ancestors(frames[i].flow))
  BY DEF SetsInv, SetsRest, FramesFit
<1>7. CASE Len(frames) < MaxDepth
  <2> DEFINE new == [flow |-> r.to, entry |-> r.to, hops |-> 0]
  <2>1. stage' = "run" /\ frames' = Append(frames, new) /\ new \in Frames
    BY <1>1, <1>2, <1>3, <1>7 DEF Frames
  <2>2. new.flow = r.to /\ new.entry = r.to /\ new.hops = 0
    OBVIOUS
  <2> HIDE DEF new
  <2>3. /\ frames' \in Seq(Frames) /\ Len(frames') = Len(frames) + 1 /\ frames'[Len(frames) + 1] = new
        /\ \A i \in 1..Len(frames) : frames'[i] = frames[i]
    BY <1>3, <2>1
  <2>4. frames' # <<>> /\ \A i \in 1..Len(frames') : i \in 1..Len(frames) \/ i = Len(frames) + 1
    BY <1>3, <2>3
  <2>5. r.to \in Sets!Handovers(r.to) /\ Cardinality(Ancestors(r.to)) \in Nat
    BY <1>3, HandoversAre, FlowNumbersFinite, FS_Subset, FS_CardinalityType DEF Ancestors
  <2>6. \A i \in 1..Len(frames') :
            /\ frames'[i].flow \in flows'
            /\ frames'[i].flow \in Sets!Handovers(frames'[i].entry)
            /\ frames'[i].hops <= Cardinality(Ancestors(frames'[i].flow))
    BY <1>2, <1>3, <1>6, <2>2, <2>3, <2>4, <2>5
  <2>7. FramesFit'
    BY <1>2, <1>3, <1>5, <2>1, <2>3, <2>4, <2>6 DEF FramesFit, Sets!Nothing
  <2> QED BY <1>2, <1>5, <2>1, <2>7 DEF SetsInv, SetsRest, Sets!Searching, Sets!OutputsDeclared, Sets!Nothing
<1>8. CASE ~(Len(frames) < MaxDepth)
  <2>1. stage' = "over" /\ frames' = frames
    BY <1>1, <1>8
  <2>2. FramesFit'
    BY <1>2, <1>3, <1>5, <1>6, <2>1 DEF FramesFit, Sets!Nothing
  <2> QED BY <1>2, <1>5, <2>1, <2>2 DEF SetsInv, SetsRest, Sets!Searching, Sets!OutputsDeclared, Sets!Nothing
<1> QED BY <1>7, <1>8

(* A goto goes on to a flow that was resolved and is further on.           *)
LEMMA GotoStep ==
    ASSUME SetsInv, Sets!Goto
    PROVE  SetsInv'
<1> DEFINE n == Len(frames)
           top == frames[n]
<1>1. PICK r \in Sets!Refs("goto") :
          frames' = [frames EXCEPT ![n].flow = r.to, ![n].hops = @ + 1]
  BY DEF Sets!Goto
<1>2. /\ stage = "run" /\ stage' = "run" /\ returned' = Sets!Nothing
      /\ UNCHANGED <<sys, queue, position, link, flows, links, issues, reported>>
  BY DEF Sets!Goto, Sets!resolving, Sets!tarjan
<1>3. /\ n \in Nat /\ n \in 1..n /\ frames \in Seq(Frames) /\ LinksTyped /\ issues = {} /\ ~Unbounded
      /\ top \in Frames /\ top.flow \in Sets!Flows /\ top.entry \in Sets!Flows /\ top.hops \in Nat
      /\ top.flow \in Sets!Handovers(top.entry)
      /\ top.hops <= Cardinality(Ancestors(top.flow))
      /\ r.to \in flows /\ r.to \in Sets!Flows
      /\ \E i \in 1..Len(links) :
            links[i].from = top.flow /\ links[i].edge = "goto" /\ links[i].to = r.to
  BY <1>2, TopIs
<1>4. /\ SetTyped' /\ ResolveFits' /\ ReportsTyped' /\ GotosFit' /\ CyclesFit'
      /\ \A f : Sets!Handovers(f)' = Sets!Handovers(f)
      /\ \A f : Ancestors(f)' = Ancestors(f)
  BY <1>2, RunKeeps
<1>5. \A i \in 1..Len(frames) :
          /\ frames[i].flow \in flows
          /\ frames[i].flow \in Sets!Handovers(frames[i].entry)
          /\ frames[i].hops <= Cardinality(Ancestors(frames[i].flow))
  BY DEF SetsInv, SetsRest, FramesFit
<1> DEFINE new == [flow |-> r.to, entry |-> top.entry, hops |-> top.hops + 1]
<1>6. frames' = [frames EXCEPT ![n] = [top EXCEPT !.flow = r.to, !.hops = top.hops + 1]]
  BY <1>1, <1>3
<1> HIDE DEF top
<1>7. [top EXCEPT !.flow = r.to, !.hops = top.hops + 1] = new
  <2>1. [top EXCEPT !.flow = r.to] = [flow |-> r.to, entry |-> top.entry, hops |-> top.hops]
    BY <1>3 DEF Frames
  <2> DEFINE moved == [flow |-> r.to, entry |-> top.entry, hops |-> top.hops]
  <2>2. [moved EXCEPT !.hops = top.hops + 1] = new
    OBVIOUS
  <2> QED BY <2>1, <2>2
<1>8. new \in Frames /\ new.flow = r.to /\ new.entry = top.entry /\ new.hops = top.hops + 1
  BY <1>3 DEF Frames
<1>9. frames' = [frames EXCEPT ![n] = new]
  BY <1>6, <1>7
<1> HIDE DEF new
<1>10. /\ frames' \in Seq(Frames) /\ Len(frames') = n
       /\ \A i \in 1..n : frames'[i] = IF i = n THEN new ELSE frames[i]
  BY <1>3, <1>8, <1>9, ExceptSeq
<1>11. PICK i \in 1..Len(links) :
           links[i].from = top.flow /\ links[i].edge = "goto" /\ links[i].to = r.to
  BY <1>3
<1>12. DOMAIN links = 1..Len(links)
  BY <1>3, LinkKinds
<1>13. r.to \in Sets!Gotos(top.flow) /\ <<top.flow, r.to>> \in GotoEdges
  BY <1>3, <1>11, <1>12 DEF Sets!Gotos, GotoEdges, Sets!EdgesOf
<1>14. new.flow \in Sets!Handovers(new.entry)
  BY <1>3, <1>8, <1>13, HandoversAre
<1>15. new.hops <= Cardinality(Ancestors(new.flow))
  <2>1. Cardinality(Ancestors(top.flow)) + 1 <= Cardinality(Ancestors(r.to))
    BY <1>3, <1>13, AncestorsGrow
  <2>2. Cardinality(Ancestors(top.flow)) \in Nat /\ Cardinality(Ancestors(r.to)) \in Nat
    BY <1>3, AncestorsFew
  <2> QED BY <1>3, <1>8, <2>1, <2>2
<1>16. \A k \in 1..Len(frames') :
           /\ frames'[k].flow \in flows'
           /\ frames'[k].flow \in Sets!Handovers(frames'[k].entry)
           /\ frames'[k].hops <= Cardinality(Ancestors(frames'[k].flow))
  BY <1>2, <1>3, <1>5, <1>8, <1>10, <1>14, <1>15
<1>17. frames' # <<>>
  BY <1>3, <1>10
<1>18. FramesFit'
  BY <1>2, <1>3, <1>4, <1>10, <1>16, <1>17 DEF FramesFit, Sets!Nothing
<1> QED BY <1>2, <1>4, <1>18 DEF SetsInv, SetsRest, Sets!Searching, Sets!OutputsDeclared, Sets!Nothing

(* The keys of an end are those of a flow that the entry leads to.         *)
LEMMA EndStep ==
    ASSUME SetsInv, Sets!End
    PROVE  SetsInv'
<1>1. PICK keys \in IF sys[Sets!Top.flow].open THEN SUBSET Keys ELSE sys[Sets!Top.flow].ends :
          returned' = [to |-> Sets!Top.entry, keys |-> keys]
  BY DEF Sets!End
<1>2. /\ stage = "run"
      /\ IF Len(frames) = 1 THEN stage' = "over" /\ UNCHANGED frames
         ELSE stage' = stage /\ frames' = SubSeq(frames, 1, Len(frames) - 1)
      /\ UNCHANGED <<sys, queue, position, link, flows, links, issues, reported>>
  BY DEF Sets!End, Sets!resolving, Sets!tarjan
<1>3. /\ Len(frames) \in Nat /\ Len(frames) \in 1..Len(frames) /\ frames \in Seq(Frames)
      /\ LinksTyped /\ issues = {}
      /\ Sets!Top.flow \in Sets!Flows /\ Sets!Top.entry \in Sets!Flows
      /\ Sets!Top.flow \in Sets!Handovers(Sets!Top.entry)
  BY <1>2, TopIs
<1>4. stage' \in {"rejected", "run", "over"}
  BY <1>2
<1>5. /\ SetTyped' /\ ResolveFits' /\ ReportsTyped' /\ GotosFit' /\ CyclesFit'
      /\ \A f : Sets!Handovers(f)' = Sets!Handovers(f)
      /\ \A f : Ancestors(f)' = Ancestors(f)
      /\ \A f : Sets!OutputKeys(f)' = Sets!OutputKeys(f)
  BY <1>2, <1>4, RunKeeps
<1>6. keys \subseteq Keys
  <2>1. UNION sys[Sets!Top.flow].ends \subseteq Keys
    BY <1>3, SetsAssumption DEF SetsInv, SetsRest, SetTyped
  <2> QED BY <1>1, <2>1
<1>7. keys \subseteq Sets!OutputKeys(Sets!Top.entry)
  <2> DEFINE e == Sets!Top.entry
             f == Sets!Top.flow
  <2> HIDE DEF e, f
  <2>1. f \in Sets!Handovers(e)
    BY <1>3 DEF e, f
  <2>2. CASE \A g \in Sets!Handovers(e) : g \in flows /\ ~sys[g].open
    <3>1. keys \in sys[f].ends
      BY <1>1, <2>1, <2>2 DEF f
    <3> QED BY <2>1, <2>2, <3>1 DEF Sets!OutputKeys, e
  <2>3. CASE ~ \A g \in Sets!Handovers(e) : g \in flows /\ ~sys[g].open
    BY <1>6, <2>3 DEF Sets!OutputKeys, e
  <2> QED BY <2>2, <2>3
<1>8. Sets!OutputsDeclared'
  <2>1. returned'.to = Sets!Top.entry /\ returned'.keys = keys
    BY <1>1
  <2>2. returned'.keys \subseteq Sets!OutputKeys(returned'.to)
    BY <1>7, <2>1
  <2> QED BY <1>5, <2>2 DEF Sets!OutputsDeclared
<1>9. \A i \in 1..Len(frames) :
          /\ frames[i].flow \in flows
          /\ frames[i].flow \in Sets!Handovers(frames[i].entry)
          /\ frames[i].hops <= Cardinality(Ancestors(frames[i].flow))
  BY DEF SetsInv, SetsRest, FramesFit
<1>10. CASE Len(frames) = 1
  <2>1. stage' = "over" /\ frames' = frames
    BY <1>2, <1>10
  <2>2. FramesFit'
    BY <1>2, <1>3, <1>5, <1>9, <2>1 DEF FramesFit
  <2> QED BY <1>5, <1>8, <2>1, <2>2 DEF SetsInv, SetsRest, Sets!Searching
<1>11. CASE Len(frames) # 1
  <2>1. stage' = "run" /\ frames' = SubSeq(frames, 1, Len(frames) - 1)
    BY <1>2, <1>11
  <2>2. Len(frames) - 1 \in 0..Len(frames) /\ Len(frames) - 1 > 0
    <3> DEFINE n == Len(frames)
    <3>1. n \in Nat /\ n \in 1..n /\ n # 1
      BY <1>3, <1>11
    <3> HIDE DEF n
    <3>2. n - 1 \in 0..n /\ n - 1 > 0
      BY <3>1
    <3> QED BY <3>2 DEF n
  <2>3. /\ frames' \in Seq(Frames) /\ Len(frames') = Len(frames) - 1 /\ frames' # <<>>
        /\ \A i \in 1..(Len(frames) - 1) : frames'[i] = frames[i] /\ i \in 1..Len(frames)
    BY <1>3, <2>1, <2>2, PrefixIs
  <2>4. FramesFit'
    BY <1>2, <1>3, <1>5, <1>9, <2>1, <2>3 DEF FramesFit
  <2> QED BY <1>5, <1>8, <2>1, <2>4 DEF SetsInv, SetsRest, Sets!Searching
<1> QED BY <1>10, <1>11

(* The invariant is inductive.                                             *)
LEMMA SetsStep == SetsInv /\ Sets!Next => SetsInv'
<1> SUFFICES ASSUME SetsInv, Sets!Next PROVE SetsInv'
  OBVIOUS
<1>1. CASE Sets!Resolve \/ Sets!NextFlow \/ Sets!Resolved
  BY <1>1, ResolveStep, NextFlowStep, ResolvedStep
<1>2. CASE Sets!Visit \/ Sets!Descend \/ Sets!Look \/ Sets!Return
  BY <1>2, SearchSteps
<1>3. CASE Sets!Components \/ Sets!Check
  BY <1>3, ComponentsStep, PreflightStep
<1>4. CASE Sets!Call \/ Sets!Goto \/ Sets!End
  BY <1>4, CallStep, GotoStep, EndStep
<1> QED BY <1>1, <1>2, <1>3, <1>4 DEF Sets!Next

(* It has what the properties say of a state.                              *)
LEMMA SetsRight == SetsInv => CyclesReported /\ RunsAsChecked
<1> SUFFICES ASSUME SetsInv PROVE CyclesReported /\ RunsAsChecked
  OBVIOUS
<1>1. LinksTyped /\ DOMAIN links = 1..Len(links)
  BY LinkKinds DEF SetsInv, SetsRest, SetTyped
<1>2. Sets!ComponentsExact
  BY <1>1, ComponentsRight DEF SetsInv, Sets!ComponentsExact
<1>3. Sets!ReportsExact
  BY <1>1 DEF SetsInv, SetsRest, GotosFit, CyclesFit, Sets!ReportsExact, Unbounded, GotoEdges, AllEdges
<1>4. ASSUME NEW i \in DOMAIN frames PROVE frames[i].hops < FlowCount /\ frames[i].flow \in flows
  <2>1. frames \in Seq(Frames) /\ i \in 1..Len(frames) /\ frames # <<>>
    BY <1>4 DEF SetsInv, SetsRest, FramesFit
  <2>2. /\ issues = {} /\ stage \in {"run", "over"} /\ frames[i].flow \in flows
        /\ frames[i].hops <= Cardinality(Ancestors(frames[i].flow))
    BY <2>1 DEF SetsInv, SetsRest, FramesFit
  <2>3. ~Unbounded
    BY <2>2 DEF SetsInv, SetsRest, GotosFit
  <2>4. frames[i] \in Frames
    BY <2>1, ElementOfSeq
  <2>5. frames[i].hops \in Nat /\ frames[i].flow \in Sets!Flows
    BY <2>4 DEF Frames
  <2>6. /\ Cardinality(Ancestors(frames[i].flow)) \in Nat
        /\ Cardinality(Ancestors(frames[i].flow)) < FlowCount
    BY <1>1, <2>3, <2>5, AncestorsFew
  <2> QED BY <2>2, <2>5, <2>6, FlowNumbersFinite
<1>5. Sets!RunsAsChecked
  BY <1>4 DEF SetsInv, SetsRest, Sets!RunsAsChecked, Sets!HandoversEnd
<1> QED BY <1>2, <1>3, <1>5 DEF CyclesReported, RunsAsChecked

(* It is kept where nothing of the set changes.                            *)
LEMMA SetsStutter == SetsInv /\ UNCHANGED sets => SetsInv'
<1> SUFFICES ASSUME SetsInv, UNCHANGED sets PROVE SetsInv'
  OBVIOUS
<1>1. SetsRest'
  <2>1. SetsRest /\ UNCHANGED resting
    BY DEF SetsInv, sets, resting
  <2> QED BY <2>1, Resting
<1>2. Fresh' <=> Fresh
  BY DEF sets, Fresh
<1>3. SearchInv' <=> SearchInv
  <2>1. UNCHANGED <<links, flows, stage, index, low, component, stack, calls>>
    BY DEF sets
  <2>2. /\ Sets!Considered' = Sets!Considered /\ Ways' = Ways /\ links' = links
        /\ \A x, y : Leads(x, y)' <=> Leads(x, y)
    BY <2>1, SameWays
  <2>3. /\ OnStack' = OnStack /\ Numbered' = Numbered /\ Entered' = Entered /\ LookedAt' = LookedAt
        /\ Sets!Counter' = Sets!Counter /\ Sets!Count' = Sets!Count
    BY <2>1, <2>2 DEF OnStack, Numbered, Entered, LookedAt, Sets!Counter, Sets!Count
  <2>4. /\ SearchTyped' <=> SearchTyped
        /\ Numbers' <=> Numbers
        /\ StackFits' <=> StackFits
    BY <2>1, <2>3 DEF SearchTyped, Numbers, StackFits
  <2>5. /\ CallsFit' <=> CallsFit
        /\ Up' <=> Up
        /\ Down' <=> Down
        /\ LowFits' <=> LowFits
    BY <2>1, <2>2, <2>3 DEF CallsFit, Up, Down, LowFits
  <2>6. /\ NoneLeave' <=> NoneLeave
        /\ Seen' <=> Seen
        /\ Passed' <=> Passed
        /\ Cut' <=> Cut
    BY <2>1, <2>2, <2>3 DEF NoneLeave, Seen, Passed, Cut
  <2> QED BY <2>4, <2>5, <2>6 DEF SearchInv
<1>4. stage' = stage
  BY DEF sets
<1> QED BY <1>1, <1>2, <1>3, <1>4 DEF SetsInv, Sets!Searching

(* Where something else is checked the sets rest as they were made.        *)
SetsHold == IF about = "set" THEN SetsInv ELSE SetsOver

(* So it holds in every behaviour that is about a set.                     *)
LEMMA SetsHoldAlways == DocumentsSpec => []SetsHold
<1>1. DocumentsInit => SetsHold
  BY SetsInitFits DEF DocumentsInit, SetsHold
<1>2. SetsHold /\ [DocumentsNext]_documents => SetsHold'
  <2> SUFFICES ASSUME SetsHold, [DocumentsNext]_documents PROVE SetsHold'
    OBVIOUS
  <2>1. about' = about
    BY DEF DocumentsNext, documents
  <2>2. CASE about = "set" /\ Sets!Next
    BY <2>1, <2>2, SetsStep DEF SetsHold
  <2>3. CASE UNCHANGED sets
    <3>1. SetsOver => SetsOver'
      BY <2>3 DEF SetsOver, sets, Sets!Unnumbered, Sets!Nothing
    <3> QED BY <2>1, <2>3, <3>1, SetsStutter DEF SetsHold
  <2> QED BY <2>2, <2>3 DEF DocumentsNext, documents
<1> QED BY <1>1, <1>2, PTL DEF DocumentsSpec

(* A set that rests has nothing wrong.                                     *)
LEMMA OverRight == SetsOver => CyclesReported /\ RunsAsChecked
<1> SUFFICES ASSUME SetsOver PROVE CyclesReported /\ RunsAsChecked
  OBVIOUS
<1>1. stage = "over" /\ frames = <<>> /\ returned = Sets!Nothing
  BY DEF SetsOver
<1> QED BY <1>1 DEF CyclesReported, RunsAsChecked, Sets!ComponentsExact, Sets!ReportsExact,
                    Sets!Searching, Sets!RunsAsChecked, Sets!OutputsDeclared, Sets!HandoversEnd

(* Tarjan's search, as it is written here, gives two flows one component   *)
(* if and only if each leads to the other; and every cycle of references   *)
(* has one report, of its kind (check-flows.ts components, reportCycles).  *)
THEOREM Cycles == DocumentsSpec => []CyclesReported
<1>1. SetsHold => CyclesReported
  BY SetsRight, OverRight DEF SetsHold
<1> QED BY <1>1, SetsHoldAlways, PTL

(* A run of a set that passed is handed over fewer times than there are    *)
(* flows, at flows that were checked, and returns keys that the check knew *)
(* of (check-flows.ts, run.ts).                                            *)
THEOREM RunsAreAsChecked == DocumentsSpec => []RunsAsChecked
<1>1. SetsHold => RunsAsChecked
  BY SetsRight, OverRight DEF SetsHold
<1> QED BY <1>1, SetsHoldAlways, PTL

-----------------------------------------------------------------------------
(* FlowHost *)

(* What a commit may make of a document, as far as hosts can tell: an      *)
(* attempt that goes on or is counted anew keeps its invocation, the next  *)
(* one is drawn when none is in flight, and an answer ends it.             *)
Follows(doc, next) ==
    IF next.inFlight /\ ~doc.inFlight THEN next.key = doc.key + 1 ELSE next.key = doc.key

(* A segment that has nothing to persist and may go on has the document of *)
(* the revision it read, and one that has a commit to persist has a        *)
(* successor of it.                                                        *)
InStep(s) ==
    /\ s.read <= store.revision
    /\ ~s.held /\ s.generator = "live" =>
          s.doc.revision = s.read /\ (s.read = store.revision => s.doc = store)
    /\ s.held => s.doc.revision = s.read + 1 /\ (s.read = store.revision => Follows(store, s.doc))

(* Where a handle can stand. *)
Orderly(s) ==
    /\ s.held \/ s.generator = "finished" => s.call = "none"
    /\ s.call = "preparing" => ~s.prepared
    /\ s.call = "driving" => s.prepared \/ s.aborted
    /\ s.call = "effect" => s.prepared

(* HandleSettled of one segment, and SilentStep of one that becomes t.      *)
Settled(s) ==
    /\ s.closed \/ s.generator = "finished" <=> s.span = "ended"
    /\ s.span = "ended" => s.call = "none"
    /\ s.span = "failed" => ~s.prepared /\ s.doc.revision = s.read

Silent(s, t) ==
    /\ s.span = "ended" => t.doc = s.doc /\ t.span = "ended"
    /\ t.call = "effect" => s.prepared

Sound(s) == s \in Segment /\ InStep(s) /\ Orderly(s) /\ Settled(s)

(* A segment may yet start the effect of an invocation: it has it in       *)
(* flight, in a document that is persisted or can still be.                *)
Claims(s, k) ==
    /\ s.doc.inFlight /\ s.doc.key = k /\ s.generator = "live" /\ s.call # "effect"
    /\ s.held => s.read = store.revision /\ store.inFlight

Entitled(k) == {h \in open : Claims(segment[h], k)}

Drawn(k) == IF k <= store.key THEN 1 ELSE 0

(* Each start is owed to the draw of the invocation or to a segment that   *)
(* found it in flight.                                                     *)
StartsOwed ==
    \A k \in Invocations : starts[k] + Cardinality(Entitled(k)) <= replays[k] + Drawn(k)

(* A result is persisted when its invocation is in flight, and ends it.    *)
ResultsFollow ==
    \A k \in Invocations :
        /\ results[k] <= 1
        /\ store.key < k \/ (store.key = k /\ store.inFlight) => results[k] = 0

HostInv ==
    /\ HostTypeOK /\ IsFiniteSet(open) /\ StartsOwed /\ ResultsFollow
    /\ \A h \in open : Sound(segment[h])

-----------------------------------------------------------------------------
(* A commit and a pull keep the types. *)
LEMMA CommitTypes ==
    ASSUME NEW s \in Segment, NEW doc \in Document
    PROVE  /\ Committed(s, doc) \in Segment
           /\ Committed(s, doc).doc = [doc EXCEPT !.revision = s.doc.revision + 1]
           /\ Committed(s, doc).call = "none" /\ Committed(s, doc).held
           /\ Committed(s, doc).generator =
                 IF doc.status \in {"ended", "aborted"} THEN "finished" ELSE s.generator
           /\ Committed(s, doc).span =
                 IF doc.status \in {"ended", "aborted"} THEN "ended" ELSE s.span
           /\ Committed(s, doc).prepared = s.prepared /\ Committed(s, doc).aborted = s.aborted
           /\ Committed(s, doc).read = s.read /\ Committed(s, doc).closed = s.closed
<1> DEFINE next == [doc EXCEPT !.revision = s.doc.revision + 1]
<1>1. s.doc.revision + 1 \in Nat
  BY DEF Segment, Document
<1>2. next \in Document /\ next.status = doc.status
  BY <1>1 DEF Document
<1>3. Final(next) <=> doc.status \in {"ended", "aborted"}
  BY <1>2 DEF Final
<1> HIDE DEF next
<1>4. Committed(s, doc) = [s EXCEPT !.doc = next, !.call = "none", !.held = TRUE,
                             !.generator = IF Final(next) THEN "finished" ELSE @,
                             !.span = IF Final(next) THEN "ended" ELSE @]
  BY DEF Committed, next
<1> QED BY ZenonT(40), <1>2, <1>3, <1>4 DEF Segment, next

-----------------------------------------------------------------------------
(* What a handle does by itself leaves it sound and breaks no silence, and *)
(* gives it no claim that it did not have.                                 *)
Fits(s, t) == Sound(t) /\ Silent(s, t) /\ \A k \in Invocations : Claims(t, k) => Claims(s, k)

(* A commit of a call that is driving or ends an effect.                   *)
LEMMA CommitFits ==
    ASSUME HostTypeOK, NEW s \in Segment, Sound(s), s.call \in {"driving", "effect"},
           s.prepared \/ s.aborted, NEW doc \in Document, Follows(s.doc, doc),
           s.prepared \/ doc.status \in {"ended", "aborted"},
           doc.inFlight => s.call = "driving"
    PROVE  Fits(s, Committed(s, doc))
<1> DEFINE t == Committed(s, doc)
<1>1. /\ t \in Segment /\ t.doc = [doc EXCEPT !.revision = s.doc.revision + 1]
      /\ t.call = "none" /\ t.held
      /\ t.generator = IF doc.status \in {"ended", "aborted"} THEN "finished" ELSE s.generator
      /\ t.span = IF doc.status \in {"ended", "aborted"} THEN "ended" ELSE s.span
      /\ t.prepared = s.prepared /\ t.aborted = s.aborted
      /\ t.read = s.read /\ t.closed = s.closed
  BY CommitTypes
<1>2. /\ t.doc.revision = s.doc.revision + 1 /\ t.doc.key = doc.key
      /\ t.doc.inFlight = doc.inFlight /\ t.doc.status = doc.status
  BY <1>1 DEF Document
<1> HIDE DEF t
<1>3. ~s.held /\ s.generator = "live"
  BY DEF Sound, Orderly, Segment
<1>4. s.doc.revision = s.read /\ (s.read = store.revision => s.doc = store)
  BY <1>3 DEF Sound, InStep
<1>5. s.span # "ended" /\ ~s.closed
  BY <1>3 DEF Sound, Settled
<1>6. InStep(t)
  BY <1>1, <1>2, <1>3, <1>4 DEF Sound, InStep, Follows
<1>7. Orderly(t)
  BY <1>1 DEF Orderly
<1>8. Settled(t)
  BY <1>1, <1>3, <1>5 DEF Sound, Settled
<1>9. Silent(s, t)
  BY <1>1, <1>5 DEF Silent
<1>10. ASSUME NEW k \in Invocations, Claims(t, k) PROVE Claims(s, k)
  <2>1. doc.inFlight /\ doc.key = k /\ s.read = store.revision /\ store.inFlight
    BY <1>1, <1>2, <1>10 DEF Claims
  <2>2. s.doc.inFlight /\ s.doc.key = k
    BY <1>4, <2>1 DEF Follows
  <2>3. s.call # "effect"
    BY <2>1
  <2> QED BY <1>3, <2>2, <2>3 DEF Claims
<1> QED BY <1>1, <1>6, <1>7, <1>8, <1>9, <1>10 DEF Fits, Sound, t

LEMMA PullFits ==
    ASSUME NEW h \in Hosts, Pull(h), Sound(segment[h])
    PROVE  \E t \in Segment : Quiet(h, t) /\ Fits(segment[h], t)
<1> DEFINE s == segment[h]
           t == [s EXCEPT !.call = IF s.prepared \/ s.aborted THEN "driving" ELSE "preparing"]
<1>1. Quiet(h, t) /\ s.call = "none" /\ ~s.held /\ s.generator = "live" /\ ~s.closed
  BY DEF Pull
<1>2. t \in Segment
  BY DEF Sound, Segment
<1>3. t.call = IF s.prepared \/ s.aborted THEN "driving" ELSE "preparing"
  BY DEF Sound, Segment
<1>4. /\ t.doc = s.doc /\ t.prepared = s.prepared /\ t.aborted = s.aborted /\ t.held = s.held
      /\ t.read = s.read /\ t.generator = s.generator /\ t.closed = s.closed /\ t.span = s.span
  BY DEF Sound, Segment
<1> HIDE DEF s, t
<1>5. Sound(s)
  BY DEF s
<1>6. Sound(t)
  BY <1>1, <1>2, <1>3, <1>4, <1>5 DEF Sound, InStep, Orderly, Settled
<1>7. Silent(s, t) /\ \A k \in Invocations : Claims(t, k) => Claims(s, k)
  BY <1>1, <1>3, <1>4 DEF Silent, Claims
<1> QED BY <1>1, <1>2, <1>6, <1>7 DEF Fits, s

(* The preparation ends, or an abort arrives: the document is as it was.   *)
LEMMA PreparationFits ==
    ASSUME NEW h \in Hosts, Prepared(h) \/ PrepareFails(h), Sound(segment[h])
    PROVE  \E t \in Segment : Quiet(h, t) /\ Fits(segment[h], t)
<1> DEFINE s == segment[h]
<1>1. /\ s.call = "preparing" /\ ~s.held /\ s.generator = "live" /\ ~s.closed
      /\ s.doc.revision = s.read /\ s.span # "ended"
  BY DEF Prepared, PrepareFails, Sound, InStep, Orderly, Settled, Segment
<1>2. CASE Prepared(h)
  <2> DEFINE t == [s EXCEPT !.prepared = TRUE, !.call = "driving", !.span = "open"]
  <2>1. Quiet(h, t)
    BY <1>2 DEF Prepared
  <2>2. t \in Segment
    BY DEF Sound, Segment
  <2>3. /\ t.doc = s.doc /\ t.prepared /\ t.aborted = s.aborted /\ t.held = s.held
        /\ t.read = s.read /\ t.generator = s.generator /\ t.closed = s.closed
        /\ t.span = "open" /\ t.call = "driving"
    BY DEF Sound, Segment
  <2> HIDE DEF s, t
  <2>4. Sound(s)
    BY DEF s
  <2>5. Sound(t)
    BY <1>1, <2>2, <2>3, <2>4 DEF Sound, InStep, Orderly, Settled
  <2>6. Silent(s, t) /\ \A k \in Invocations : Claims(t, k) => Claims(s, k)
    BY <1>1, <2>3 DEF Silent, Claims
  <2> QED BY <2>1, <2>2, <2>5, <2>6 DEF Fits, s
<1>3. CASE PrepareFails(h) /\ s.aborted
  <2> DEFINE t == [s EXCEPT !.call = "driving"]
  <2>1. Quiet(h, t)
    BY <1>3 DEF PrepareFails
  <2>2. t \in Segment
    BY DEF Sound, Segment
  <2>3. /\ t.doc = s.doc /\ t.prepared = s.prepared /\ t.aborted = s.aborted /\ t.held = s.held
        /\ t.read = s.read /\ t.generator = s.generator /\ t.closed = s.closed
        /\ t.span = s.span /\ t.call = "driving"
    BY DEF Sound, Segment
  <2> HIDE DEF s, t
  <2>4. Sound(s)
    BY DEF s
  <2>5. Sound(t)
    BY <1>1, <1>3, <2>2, <2>3, <2>4 DEF Sound, InStep, Orderly, Settled
  <2>6. Silent(s, t) /\ \A k \in Invocations : Claims(t, k) => Claims(s, k)
    BY <1>1, <2>3 DEF Silent, Claims
  <2> QED BY <2>1, <2>2, <2>5, <2>6 DEF Fits, s
<1>4. CASE PrepareFails(h) /\ ~s.aborted
  <2> DEFINE t == [s EXCEPT !.call = "none", !.span = "failed"]
  <2>1. Quiet(h, t)
    BY <1>4 DEF PrepareFails
  <2>2. t \in Segment
    BY DEF Sound, Segment
  <2>3. /\ t.doc = s.doc /\ t.prepared = s.prepared /\ t.aborted = s.aborted /\ t.held = s.held
        /\ t.read = s.read /\ t.generator = s.generator /\ t.closed = s.closed
        /\ t.span = "failed" /\ t.call = "none"
    BY DEF Sound, Segment
  <2> HIDE DEF s, t
  <2>4. Sound(s)
    BY DEF s
  <2>5. ~s.prepared
    BY <1>1, <2>4 DEF Sound, Orderly
  <2>6. Sound(t)
    BY <1>1, <2>2, <2>3, <2>4, <2>5 DEF Sound, InStep, Orderly, Settled
  <2>7. Silent(s, t) /\ \A k \in Invocations : Claims(t, k) => Claims(s, k)
    BY <1>1, <2>3 DEF Silent, Claims
  <2> QED BY <2>1, <2>2, <2>6, <2>7 DEF Fits, s
<1> QED BY <1>2, <1>3, <1>4

(* The commits: an abort, a checkpoint, a result, an abort of an effect.   *)
LEMMA CommitsFit ==
    ASSUME HostTypeOK, NEW h \in Hosts, Sound(segment[h]),
           CommitAbort(h) \/ Checkpoint(h) \/ Finish(h) \/ AbortEffect(h)
    PROVE  \E t \in Segment : Quiet(h, t) /\ Fits(segment[h], t)
<1> DEFINE s == segment[h]
<1>1. s \in Segment /\ s.doc \in Document /\ Sound(s)
  BY DEF Sound, Segment
<1>2. CASE CommitAbort(h)
  <2> DEFINE doc == [s.doc EXCEPT !.status = "aborted", !.inFlight = FALSE]
  <2>1. Quiet(h, Committed(s, doc)) /\ s.call = "driving" /\ s.aborted
    BY <1>2 DEF CommitAbort, Driving
  <2>2. doc \in Document /\ doc.status = "aborted" /\ ~doc.inFlight /\ doc.key = s.doc.key
    BY <1>1 DEF Document
  <2> HIDE DEF s, doc
  <2>3. Follows(s.doc, doc)
    BY <2>2 DEF Follows
  <2>4. Fits(s, Committed(s, doc))
    BY <1>1, <2>1, <2>2, <2>3, CommitFits
  <2>5. Committed(s, doc) \in Segment
    BY <2>4 DEF Fits, Sound
  <2> QED BY <2>1, <2>4, <2>5 DEF s
<1>3. CASE Checkpoint(h)
  <2> DEFINE doc == [s.doc EXCEPT !.inFlight = TRUE, !.status = "running",
                                  !.key = IF s.doc.inFlight THEN @ ELSE @ + 1]
             t == [Committed(s, doc) EXCEPT !.recovering = FALSE]
  <2>1. Quiet(h, t) /\ s.call = "driving" /\ ~s.aborted /\ (s.doc.inFlight \/ s.doc.key < MaxKey)
    BY <1>3 DEF Checkpoint, Driving
  <2>2. (IF s.doc.inFlight THEN s.doc.key ELSE s.doc.key + 1) \in 0..MaxKey
    BY <1>1, <2>1, HostAssumption DEF Document
  <2>3. /\ doc \in Document /\ doc.inFlight
        /\ doc.key = IF s.doc.inFlight THEN s.doc.key ELSE s.doc.key + 1
    BY <1>1, <2>2 DEF Document
  <2> HIDE DEF doc
  <2>4. Follows(s.doc, doc)
    BY <2>3 DEF Follows
  <2>5. s.prepared
    BY <1>1, <2>1 DEF Sound, Orderly
  <2>6. Fits(s, Committed(s, doc))
    BY <1>1, <2>1, <2>3, <2>4, <2>5, CommitFits
  <2> DEFINE u == Committed(s, doc)
  <2>7. u \in Segment
    BY <2>6 DEF Fits, Sound
  <2> HIDE DEF u, s
  <2>8. /\ t \in Segment /\ t.doc = u.doc /\ t.prepared = u.prepared /\ t.aborted = u.aborted
        /\ t.held = u.held /\ t.read = u.read /\ t.generator = u.generator /\ t.closed = u.closed
        /\ t.span = u.span /\ t.call = u.call
    BY <2>7 DEF Segment, u
  <2> HIDE DEF t
  <2>9. Sound(t)
    BY <2>6, <2>8 DEF u, Fits, Sound, InStep, Orderly, Settled
  <2>10. Silent(s, t) /\ \A k \in Invocations : Claims(t, k) => Claims(s, k)
    BY <2>6, <2>8 DEF u, Fits, Silent, Claims
  <2> QED BY <2>1, <2>8, <2>9, <2>10 DEF Fits, s
<1>4. CASE Finish(h) \/ AbortEffect(h)
  <2>1. PICK status \in {"running", "suspended", "ended", "aborted"} :
          Quiet(h, Committed(s, [s.doc EXCEPT !.inFlight = FALSE, !.status = status]))
    BY <1>4 DEF Finish, AbortEffect
  <2> DEFINE doc == [s.doc EXCEPT !.inFlight = FALSE, !.status = status]
  <2>2. s.call = "effect" /\ s.prepared
    BY <1>1, <1>4 DEF Finish, AbortEffect, Sound, Orderly
  <2>3. doc \in Document /\ ~doc.inFlight /\ doc.key = s.doc.key
    BY <1>1 DEF Document
  <2>4. Quiet(h, Committed(s, doc))
    BY <2>1
  <2> HIDE DEF s, doc
  <2>5. Follows(s.doc, doc)
    BY <2>3 DEF Follows
  <2>6. Fits(s, Committed(s, doc))
    BY <1>1, <2>2, <2>3, <2>5, CommitFits
  <2>7. Committed(s, doc) \in Segment
    BY <2>6 DEF Fits, Sound
  <2> QED BY <2>4, <2>6, <2>7 DEF s
<1> QED BY <1>2, <1>3, <1>4

(* An end without a commit, and an abort.                                  *)
LEMMA EndsFit ==
    ASSUME NEW h \in Hosts, Interrupt(h) \/ AbortSignal(h) \/ Return(h), Sound(segment[h])
    PROVE  \E t \in Segment : Quiet(h, t) /\ Fits(segment[h], t)
<1> DEFINE s == segment[h]
<1>1. CASE Interrupt(h)
  <2> DEFINE t == [s EXCEPT !.call = "none", !.generator = "finished", !.span = "ended"]
  <2>1. Quiet(h, t) /\ s.call = "effect"
    BY <1>1 DEF Interrupt
  <2>2. t \in Segment
    BY DEF Sound, Segment
  <2>3. /\ t.doc = s.doc /\ t.prepared = s.prepared /\ t.aborted = s.aborted /\ t.held = s.held
        /\ t.read = s.read /\ t.generator = "finished" /\ t.closed = s.closed
        /\ t.span = "ended" /\ t.call = "none"
    BY DEF Sound, Segment
  <2> HIDE DEF s, t
  <2>4. Sound(s)
    BY DEF s
  <2>5. Sound(t)
    BY <2>1, <2>2, <2>3, <2>4 DEF Sound, InStep, Orderly, Settled
  <2>6. Silent(s, t) /\ \A k \in Invocations : Claims(t, k) => Claims(s, k)
    BY <2>3 DEF Silent, Claims
  <2> QED BY <2>1, <2>2, <2>5, <2>6 DEF Fits, s
<1>2. CASE AbortSignal(h)
  <2> DEFINE t == [s EXCEPT !.aborted = TRUE]
  <2>1. Quiet(h, t)
    BY <1>2 DEF AbortSignal
  <2>2. t \in Segment
    BY DEF Sound, Segment
  <2>3. /\ t.doc = s.doc /\ t.prepared = s.prepared /\ t.aborted /\ t.held = s.held
        /\ t.read = s.read /\ t.generator = s.generator /\ t.closed = s.closed
        /\ t.span = s.span /\ t.call = s.call
    BY DEF Sound, Segment
  <2> HIDE DEF s, t
  <2>4. Sound(s)
    BY DEF s
  <2>5. Sound(t)
    BY <2>2, <2>3, <2>4 DEF Sound, InStep, Orderly, Settled
  <2>6. Silent(s, t) /\ \A k \in Invocations : Claims(t, k) => Claims(s, k)
    BY <2>3, <2>4 DEF Silent, Claims, Sound, Orderly
  <2> QED BY <2>1, <2>2, <2>5, <2>6 DEF Fits, s
<1>3. CASE Return(h)
  <2> DEFINE t == [s EXCEPT !.closed = TRUE, !.generator = "finished", !.span = "ended",
                            !.held = FALSE]
  <2>1. Quiet(h, t) /\ s.call = "none"
    BY <1>3 DEF Return
  <2>2. t \in Segment
    BY DEF Sound, Segment
  <2>3. /\ t.doc = s.doc /\ t.prepared = s.prepared /\ t.aborted = s.aborted /\ ~t.held
        /\ t.read = s.read /\ t.generator = "finished" /\ t.closed
        /\ t.span = "ended" /\ t.call = s.call
    BY DEF Sound, Segment
  <2> HIDE DEF s, t
  <2>4. Sound(s)
    BY DEF s
  <2>5. Sound(t)
    BY <2>1, <2>2, <2>3, <2>4 DEF Sound, InStep, Orderly, Settled
  <2>6. Silent(s, t) /\ \A k \in Invocations : Claims(t, k) => Claims(s, k)
    BY <2>1, <2>3 DEF Silent, Claims
  <2> QED BY <2>1, <2>2, <2>5, <2>6 DEF Fits, s
<1> QED BY <1>1, <1>2, <1>3

-----------------------------------------------------------------------------
(* A history that counts one more. *)
LEMMA OneMore ==
    ASSUME NEW count \in [Invocations -> Nat], NEW k
    PROVE  [count EXCEPT ![k] = @ + 1] \in [Invocations -> Nat]
<1>1. ASSUME NEW i \in Invocations PROVE [count EXCEPT ![k] = @ + 1][i] \in Nat
  <2>1. CASE i = k
    BY <2>1
  <2>2. CASE i # k
    BY <2>2
  <2> QED BY <2>1, <2>2
<1> QED BY <1>1

(* Fewer claims, or one more, are counted so. *)
LEMMA ClaimsCount ==
    ASSUME IsFiniteSet(open), NEW k \in Invocations
    PROVE  /\ IsFiniteSet(Entitled(k)) /\ Cardinality(Entitled(k)) \in Nat
           /\ \A E \in SUBSET Entitled(k) : Cardinality(E) <= Cardinality(Entitled(k))
           /\ \A h \in Entitled(k) : \A E \in SUBSET (Entitled(k) \ {h}) :
                 Cardinality(E) + 1 <= Cardinality(Entitled(k))
           /\ \A h : \A E \in SUBSET (Entitled(k) \cup {h}) :
                 Cardinality(E) <= Cardinality(Entitled(k)) + 1
<1>1. IsFiniteSet(Entitled(k))
  BY FS_Subset DEF Entitled
<1>2. Cardinality(Entitled(k)) \in Nat
  BY <1>1, FS_CardinalityType
<1>3. \A E \in SUBSET Entitled(k) : Cardinality(E) <= Cardinality(Entitled(k))
  BY <1>1, FS_Subset
<1>4. ASSUME NEW h \in Entitled(k), NEW E \in SUBSET (Entitled(k) \ {h})
      PROVE  Cardinality(E) + 1 <= Cardinality(Entitled(k))
  <2>1. /\ IsFiniteSet(Entitled(k) \ {h})
        /\ Cardinality(Entitled(k) \ {h}) = Cardinality(Entitled(k)) - 1
    BY <1>1, FS_RemoveElement
  <2>2. Cardinality(E) <= Cardinality(Entitled(k) \ {h}) /\ IsFiniteSet(E)
    BY <2>1, FS_Subset
  <2>3. Cardinality(E) \in Nat
    BY <2>2, FS_CardinalityType
  <2> QED BY <1>2, <2>1, <2>2, <2>3
<1>5. ASSUME NEW h, NEW E \in SUBSET (Entitled(k) \cup {h})
      PROVE  Cardinality(E) <= Cardinality(Entitled(k)) + 1
  <2>1. /\ IsFiniteSet(Entitled(k) \cup {h})
        /\ \/ Cardinality(Entitled(k) \cup {h}) = Cardinality(Entitled(k))
           \/ Cardinality(Entitled(k) \cup {h}) = Cardinality(Entitled(k)) + 1
    BY <1>1, FS_AddElement
  <2>2. Cardinality(E) <= Cardinality(Entitled(k) \cup {h}) /\ IsFiniteSet(E)
    BY <2>1, FS_Subset
  <2>3. Cardinality(E) \in Nat
    BY <2>2, FS_CardinalityType
  <2> QED BY <1>2, <2>1, <2>2, <2>3
<1> QED BY <1>1, <1>2, <1>3, <1>4, <1>5

(* A step of one handle leaves the others sound. *)
LEMMA OthersSound ==
    ASSUME \A h \in open : Sound(segment[h]), HostTypeOK,
           NEW h \in open, NEW t \in Segment, Set(h, t), Sound(t)
    PROVE  /\ \A o \in open' : Sound(segment[o])'
           /\ segment' \in [Hosts -> Segment] /\ segment'[h] = t
           /\ \A o \in open' \ {h} : segment'[o] = segment[o]
<1>1. store' = store /\ open' = open
  BY DEF Set
<1>2. segment' \in [Hosts -> Segment] /\ segment'[h] = t /\ \A o \in Hosts \ {h} : segment'[o] = segment[o]
  BY DEF Set, HostTypeOK
<1>3. ASSUME NEW o \in open' PROVE Sound(segment[o])'
  <2>1. CASE o = h
    BY <1>1, <1>2, <2>1 DEF Sound, InStep, Orderly, Settled
  <2>2. CASE o # h
    <3>1. segment'[o] = segment[o] /\ Sound(segment[o])
      BY <1>1, <1>2, <2>2 DEF HostTypeOK
    <3> QED BY <1>1, <3>1 DEF Sound, InStep, Orderly, Settled
  <2> QED BY <2>1, <2>2
<1> QED BY <1>1, <1>2, <1>3 DEF HostTypeOK

LEMMA QuietKeeps ==
    ASSUME HostInv, NEW h \in open, NEW t \in Segment, Quiet(h, t), Fits(segment[h], t)
    PROVE  HostInv'
<1>1. /\ store' = store /\ open' = open /\ opened' = opened
      /\ starts' = starts /\ replays' = replays /\ results' = results
  BY DEF Quiet, Set, histories
<1>2. /\ \A o \in open' : Sound(segment[o])'
      /\ segment' \in [Hosts -> Segment] /\ segment'[h] = t
      /\ \A o \in open' \ {h} : segment'[o] = segment[o]
  BY OthersSound DEF HostInv, Quiet, Fits
<1>3. HostTypeOK'
  BY <1>1, <1>2 DEF HostInv, HostTypeOK
<1>4. StartsOwed'
  <2> SUFFICES ASSUME NEW k \in Invocations
               PROVE  starts[k] + Cardinality(Entitled(k)') <= replays[k] + Drawn(k)
    BY <1>1 DEF StartsOwed, Drawn
  <2>1. Entitled(k)' \subseteq Entitled(k)
    BY <1>1, <1>2 DEF Entitled, Claims, Fits
  <2>2. IsFiniteSet(open)
    BY DEF HostInv
  <2>3. Cardinality(Entitled(k)') <= Cardinality(Entitled(k))
    BY <2>1, <2>2, ClaimsCount
  <2>4. Cardinality(Entitled(k)') \in Nat /\ Cardinality(Entitled(k)) \in Nat
    BY <2>1, <2>2, ClaimsCount, FS_Subset, FS_CardinalityType
  <2>5. starts[k] \in Nat /\ replays[k] \in Nat /\ Drawn(k) \in Nat
    BY DEF HostInv, HostTypeOK, Drawn
  <2>6. starts[k] + Cardinality(Entitled(k)) <= replays[k] + Drawn(k)
    BY DEF HostInv, StartsOwed
  <2> QED BY <2>3, <2>4, <2>5, <2>6
<1>5. ResultsFollow'
  BY <1>1 DEF HostInv, ResultsFollow
<1> QED BY <1>1, <1>2, <1>3, <1>4, <1>5 DEF HostInv

(* The claims of all segments are owed still. *)
LEMMA OwedStill ==
    ASSUME HostInv, HostTypeOK', NEW k \in Invocations,
           \/ /\ Entitled(k)' \subseteq Entitled(k)
              /\ starts'[k] = starts[k] /\ replays[k] <= replays'[k] /\ Drawn(k) <= Drawn(k)'
           \/ /\ \E h \in Entitled(k) : Entitled(k)' \subseteq Entitled(k) \ {h}
              /\ starts'[k] = starts[k] + 1 /\ replays'[k] = replays[k] /\ Drawn(k)' = Drawn(k)
           \/ /\ \E h : Entitled(k)' \subseteq Entitled(k) \cup {h}
              /\ starts'[k] = starts[k]
              /\ replays'[k] + Drawn(k)' = replays[k] + Drawn(k) + 1
    PROVE  starts'[k] + Cardinality(Entitled(k)') <= replays'[k] + Drawn(k)'
<1> DEFINE E == Entitled(k)
           F == Entitled(k)'
<1> SUFFICES starts'[k] + Cardinality(F) <= replays'[k] + Drawn(k)'
  OBVIOUS
<1>1. IsFiniteSet(open) /\ IsFiniteSet(E)
  BY ClaimsCount DEF HostInv
<1>2. IsFiniteSet(F)
  <2>1. CASE F \subseteq E
    BY <1>1, <2>1, FS_Subset
  <2>2. ASSUME NEW h, F \subseteq E \cup {h} PROVE IsFiniteSet(F)
    BY <1>1, <2>2, FS_AddElement, FS_Subset
  <2>3. CASE \E h \in E : F \subseteq E \ {h}
    BY <2>1, <2>3
  <2> QED BY <2>1, <2>2, <2>3
<1>3. Cardinality(E) \in Nat /\ Cardinality(F) \in Nat
  BY <1>1, <1>2, FS_CardinalityType
<1>4. /\ starts[k] \in Nat /\ replays[k] \in Nat /\ starts'[k] \in Nat /\ replays'[k] \in Nat
      /\ Drawn(k) \in Nat /\ Drawn(k)' \in Nat
  BY DEF HostInv, HostTypeOK, Drawn
<1>5. starts[k] + Cardinality(E) <= replays[k] + Drawn(k)
  BY DEF HostInv, StartsOwed
<1>6. F \subseteq E => Cardinality(F) <= Cardinality(E)
  BY <1>1, ClaimsCount
<1>7. \A h \in E : F \subseteq E \ {h} => Cardinality(F) + 1 <= Cardinality(E)
  BY <1>1, ClaimsCount
<1>8. \A h : F \subseteq E \cup {h} => Cardinality(F) <= Cardinality(E) + 1
  BY <1>1, ClaimsCount
<1> HIDE DEF E, F
<1>9. CASE /\ F \subseteq E
           /\ starts'[k] = starts[k] /\ replays[k] <= replays'[k] /\ Drawn(k) <= Drawn(k)'
  BY <1>3, <1>4, <1>5, <1>6, <1>9
<1>10. CASE /\ \E h \in E : F \subseteq E \ {h}
            /\ starts'[k] = starts[k] + 1 /\ replays'[k] = replays[k] /\ Drawn(k)' = Drawn(k)
  BY <1>3, <1>4, <1>5, <1>7, <1>10
<1>11. CASE /\ \E h : F \subseteq E \cup {h}
            /\ starts'[k] = starts[k]
            /\ replays'[k] + Drawn(k)' = replays[k] + Drawn(k) + 1
  <2>1. Cardinality(F) <= Cardinality(E) + 1
    BY <1>8, <1>11
  <2> QED BY <1>3, <1>4, <1>5, <1>11, <2>1
<1> QED BY <1>9, <1>10, <1>11 DEF E, F

-----------------------------------------------------------------------------
(* The effect starts: the claim of the segment is spent. *)
LEMMA StartKeeps ==
    ASSUME HostInv, NEW h \in Hosts, StartEffect(h)
    PROVE  HostInv' /\ Silent(segment[h], segment'[h])
<1> DEFINE s == segment[h]
           t == [s EXCEPT !.call = "effect"]
<1>1. /\ h \in open /\ s.call = "driving" /\ ~s.aborted /\ s.doc.inFlight /\ Set(h, t)
      /\ starts' = [starts EXCEPT ![s.doc.key] = @ + 1]
      /\ replays' = replays /\ results' = results
  BY DEF StartEffect, Driving
<1>2. Sound(s) /\ s \in Segment
  BY <1>1 DEF HostInv, Sound
<1>3. /\ t \in Segment /\ t.doc = s.doc /\ t.prepared = s.prepared /\ t.aborted = s.aborted
      /\ t.held = s.held /\ t.read = s.read /\ t.generator = s.generator /\ t.closed = s.closed
      /\ t.span = s.span /\ t.call = "effect"
  BY <1>2 DEF Segment
<1> HIDE DEF s, t
<1>4. s.prepared /\ ~s.held /\ s.generator = "live"
  BY <1>1, <1>2 DEF Sound, Orderly, Segment
<1>5. Sound(t) /\ Silent(s, t)
  BY <1>1, <1>2, <1>3, <1>4 DEF Sound, InStep, Orderly, Settled, Silent
<1>6. store' = store /\ open' = open /\ opened' = opened
  BY <1>1 DEF Set
<1>7. /\ \A o \in open' : Sound(segment[o])'
      /\ segment' \in [Hosts -> Segment] /\ segment'[h] = t
      /\ \A o \in open' \ {h} : segment'[o] = segment[o]
  BY <1>1, <1>3, <1>5, OthersSound DEF HostInv
<1>8. HostTypeOK'
  <2>1. starts \in [Invocations -> Nat] /\ replays' \in [Invocations -> Nat] /\ results' \in [Invocations -> Nat]
    BY <1>1 DEF HostInv, HostTypeOK
  <2>2. starts' \in [Invocations -> Nat]
    BY <1>1, <2>1, OneMore
  <2> QED BY <1>6, <1>7, <2>1, <2>2 DEF HostInv, HostTypeOK
<1>9. StartsOwed'
  <2> SUFFICES ASSUME NEW k \in Invocations
               PROVE  starts'[k] + Cardinality(Entitled(k)') <= replays'[k] + Drawn(k)'
    BY DEF StartsOwed
  <2>1. h \notin Entitled(k)' /\ Entitled(k)' \subseteq Entitled(k)
    BY <1>3, <1>6, <1>7 DEF Entitled, Claims
  <2>2. CASE k = s.doc.key
    <3>1. h \in Entitled(k)
      BY <1>1, <1>4, <2>2 DEF Entitled, Claims, s
    <3>2. starts'[k] = starts[k] + 1
      BY <1>1, <2>2 DEF HostInv, HostTypeOK
    <3>3. Entitled(k)' \subseteq Entitled(k) \ {h}
      BY <2>1
    <3> QED BY <1>1, <1>6, <1>8, <3>1, <3>2, <3>3, OwedStill DEF Drawn
  <2>3. CASE k # s.doc.key
    <3>1. starts'[k] = starts[k] /\ replays'[k] \in Nat /\ Drawn(k) \in Nat
      BY <1>1, <1>8, <2>3 DEF HostInv, HostTypeOK, Drawn
    <3>2. replays[k] <= replays'[k] /\ Drawn(k) <= Drawn(k)'
      BY <1>1, <1>6, <3>1 DEF Drawn
    <3> QED BY <1>8, <2>1, <3>1, <3>2, OwedStill
  <2> QED BY <2>2, <2>3
<1>10. ResultsFollow'
  BY <1>1, <1>6 DEF HostInv, ResultsFollow
<1> QED BY <1>5, <1>6, <1>7, <1>8, <1>9, <1>10 DEF HostInv, s

(* A host persists what it holds, if nobody was faster: the claims of the  *)
(* others that hold something end, and a new invocation is drawn.          *)
LEMMA WriteKeeps ==
    ASSUME HostInv, NEW h \in Hosts, Write(h)
    PROVE  HostInv' /\ Silent(segment[h], segment'[h])
<1> DEFINE s == segment[h]
           t == segment'[h]
<1>1. /\ h \in open /\ s.held /\ store.revision = s.read /\ store' = s.doc
      /\ segment' = [segment EXCEPT ![h].held = FALSE, ![h].read = s.doc.revision]
      /\ results' = IF store.inFlight /\ ~s.doc.inFlight /\ s.doc.status # "aborted"
                    THEN [results EXCEPT ![s.doc.key] = @ + 1] ELSE results
      /\ open' = open /\ opened' = opened /\ starts' = starts /\ replays' = replays
  BY DEF Write
<1>2. Sound(s) /\ s \in Segment /\ s.doc \in Document /\ store \in Document
  BY <1>1 DEF HostInv, HostTypeOK, Sound, Segment
<1>3. /\ segment' \in [Hosts -> Segment]
      /\ \A o \in open \ {h} : segment'[o] = segment[o]
      /\ t.doc = s.doc /\ t.prepared = s.prepared /\ t.aborted = s.aborted /\ ~t.held
      /\ t.read = s.doc.revision /\ t.generator = s.generator /\ t.closed = s.closed
      /\ t.span = s.span /\ t.call = s.call
  <2> DEFINE u == [s EXCEPT !.held = FALSE, !.read = s.doc.revision]
  <2>1. segment \in [Hosts -> Segment] /\ open \subseteq Hosts
    BY DEF HostInv, HostTypeOK
  <2>2. u \in Segment
    BY <1>2 DEF Segment, Document
  <2>3. segment' = [segment EXCEPT ![h] = u]
    BY <1>1, <2>1
  <2>4. t = u
    BY <2>1, <2>3
  <2> QED BY <1>2, <2>1, <2>2, <2>3, <2>4 DEF Segment
<1>4. /\ s.doc.revision = store.revision + 1 /\ Follows(store, s.doc)
      /\ s.call = "none"
  BY <1>1, <1>2 DEF Sound, InStep, Orderly
<1>5. /\ store.revision \in Nat /\ store'.revision = store.revision + 1
      /\ store.key \in Nat /\ s.doc.key \in Nat
  BY <1>1, <1>2, <1>4, HostAssumption DEF Document
<1>6. t \in Segment /\ segment[h] = s
  BY <1>3
<1> HIDE DEF s, t
<1>7. Sound(segment[h])' /\ Silent(s, t)
  <2>1. InStep(segment[h])'
    BY <1>1, <1>3, <1>5 DEF InStep, t
  <2>2. Orderly(segment[h])' /\ Settled(segment[h])'
    BY <1>2, <1>3, <1>4 DEF Sound, Orderly, Settled, t
  <2>3. Silent(s, t)
    BY <1>2, <1>3, <1>4 DEF Sound, Settled, Silent
  <2> QED BY <1>6, <2>1, <2>2, <2>3 DEF Sound, t
<1>8. ASSUME NEW o \in open, o # h
      PROVE  Sound(segment[o])' /\ segment'[o].read # store'.revision
  <2>1. segment'[o] = segment[o] /\ Sound(segment[o])
    BY <1>3, <1>8 DEF HostInv
  <2>2. segment[o].read \in Nat /\ segment[o].read <= store.revision
    BY <2>1 DEF Sound, InStep, Segment
  <2>3. segment[o].read < store'.revision
    BY <1>5, <2>2
  <2>4. InStep(segment[o])'
    BY <1>5, <2>1, <2>2, <2>3 DEF Sound, InStep
  <2> QED BY <2>1, <2>2, <2>3, <2>4 DEF Sound, Orderly, Settled
<1>9. HostTypeOK'
  <2>1. starts' \in [Invocations -> Nat] /\ replays' \in [Invocations -> Nat] /\ results \in [Invocations -> Nat]
    BY <1>1 DEF HostInv, HostTypeOK
  <2>2. results' \in [Invocations -> Nat]
    BY <1>1, <2>1, OneMore
  <2>3. open' \subseteq Hosts /\ opened' \in Nat
    BY <1>1 DEF HostInv, HostTypeOK
  <2> QED BY <1>1, <1>2, <1>3, <2>1, <2>2, <2>3 DEF HostTypeOK
<1>10. StartsOwed'
  <2> SUFFICES ASSUME NEW k \in Invocations
               PROVE  starts'[k] + Cardinality(Entitled(k)') <= replays'[k] + Drawn(k)'
    BY DEF StartsOwed
  <2>1. ASSUME NEW o \in Entitled(k)', o # h PROVE o \in Entitled(k)
    BY ZenonT(40), <1>1, <1>3, <1>8, <2>1 DEF Entitled, Claims
  <2>2. store'.key >= store.key
    BY <1>1, <1>4, <1>5 DEF Follows
  <2>3. replays[k] \in Nat /\ k \in Nat /\ store'.key \in Nat
    BY <1>1, <1>5, HostAssumption DEF HostInv, HostTypeOK, Invocations
  <2>4. Drawn(k) <= Drawn(k)' /\ replays[k] <= replays'[k]
    BY <1>1, <1>5, <2>2, <2>3 DEF Drawn
  <2>5. CASE ~store.inFlight /\ s.doc.inFlight /\ s.doc.key = k
    <3>1. Drawn(k) = 0 /\ Drawn(k)' = 1
      BY <1>1, <1>4, <1>5, <2>5 DEF Follows, Drawn
    <3>2. replays'[k] + Drawn(k)' = replays[k] + Drawn(k) + 1
      BY <1>1, <2>3, <3>1
    <3>3. Entitled(k)' \subseteq Entitled(k) \cup {h}
      BY <2>1
    <3> QED BY <1>1, <1>9, <3>2, <3>3, OwedStill
  <2>6. CASE ~(~store.inFlight /\ s.doc.inFlight /\ s.doc.key = k)
    <3>1. h \in Entitled(k)' => h \in Entitled(k)
      BY <1>1, <1>3, <2>6 DEF Entitled, Claims, s, t
    <3>2. Entitled(k)' \subseteq Entitled(k)
      BY <2>1, <3>1
    <3> QED BY <1>1, <1>9, <2>4, <3>2, OwedStill
  <2> QED BY <2>5, <2>6
<1>11. ResultsFollow'
  <2> SUFFICES ASSUME NEW k \in Invocations
               PROVE  /\ results'[k] <= 1
                      /\ store'.key < k \/ (store'.key = k /\ store'.inFlight) => results'[k] = 0
    BY DEF ResultsFollow
  <2>1. /\ results[k] <= 1 /\ results[k] \in Nat
        /\ store.key < k \/ (store.key = k /\ store.inFlight) => results[k] = 0
    BY DEF HostInv, ResultsFollow, HostTypeOK
  <2>2. k \in Nat
    BY HostAssumption DEF Invocations
  <2>3. CASE store.inFlight /\ ~s.doc.inFlight /\ k = s.doc.key
    <3>1. store.key = k /\ results[k] = 0
      BY <1>4, <2>1, <2>3 DEF Follows
    <3>2. results'[k] \in {0, 1}
      BY <1>1, <2>3, <3>1 DEF HostInv, HostTypeOK
    <3> QED BY <1>1, <1>5, <2>3, <3>2
  <2>4. CASE ~(store.inFlight /\ ~s.doc.inFlight /\ k = s.doc.key)
    <3>1. results'[k] = results[k]
      BY <1>1, <2>4 DEF HostInv, HostTypeOK
    <3>2. store'.key < k \/ (store'.key = k /\ store'.inFlight)
             => store.key < k \/ (store.key = k /\ store.inFlight)
      BY <1>1, <1>4, <1>5, <2>2 DEF Follows
    <3> QED BY <2>1, <3>1, <3>2
  <2> QED BY <2>3, <2>4
<1>12. \A o \in open' : Sound(segment[o])'
  BY <1>1, <1>7, <1>8
<1> QED BY <1>1, <1>7, <1>9, <1>10, <1>11, <1>12 DEF HostInv, s, t

(* A host opens a segment; when it finds an attempt in flight the segment  *)
(* has a claim, and the replay is counted.                                 *)
LEMMA OpenKeeps ==
    ASSUME HostInv, NEW h \in Hosts, Open(h)
    PROVE  HostInv'
<1> DEFINE t == Blank(store)
<1>1. /\ h \notin open /\ open' = open \cup {h} /\ opened' = opened + 1
      /\ segment' = [segment EXCEPT ![h] = t]
      /\ replays' = IF store.inFlight THEN [replays EXCEPT ![store.key] = @ + 1] ELSE replays
      /\ store' = store /\ starts' = starts /\ results' = results
  BY DEF Open
<1>2. store \in Document /\ store.revision \in Nat
  BY DEF HostInv, HostTypeOK, Document
<1>3. /\ t \in Segment /\ t.doc = store /\ t.read = store.revision /\ ~t.held
      /\ t.generator = "live" /\ t.call = "none" /\ ~t.closed /\ t.span = "open"
  BY <1>2 DEF Blank, Segment
<1> HIDE DEF t
<1>4. Sound(t)
  BY <1>2, <1>3 DEF Sound, InStep, Orderly, Settled
<1>5. /\ segment' \in [Hosts -> Segment] /\ segment'[h] = t
      /\ \A o \in open : segment'[o] = segment[o]
  BY <1>1, <1>3 DEF HostInv, HostTypeOK
<1>6. \A o \in open' : Sound(segment[o])'
  BY <1>1, <1>4, <1>5 DEF HostInv, Sound, InStep, Orderly, Settled
<1>7. HostTypeOK'
  <2>1. starts \in [Invocations -> Nat] /\ replays \in [Invocations -> Nat] /\ results \in [Invocations -> Nat]
    BY DEF HostInv, HostTypeOK
  <2>2. replays' \in [Invocations -> Nat]
    BY <1>1, <2>1, OneMore
  <2>3. open' \subseteq Hosts /\ opened' \in Nat
    BY <1>1 DEF HostInv, HostTypeOK
  <2> QED BY <1>1, <1>2, <1>5, <2>1, <2>2, <2>3 DEF HostTypeOK
<1>8. StartsOwed'
  <2> SUFFICES ASSUME NEW k \in Invocations
               PROVE  starts'[k] + Cardinality(Entitled(k)') <= replays'[k] + Drawn(k)'
    BY DEF StartsOwed
  <2>1. \A o \in Entitled(k)' : o # h => o \in Entitled(k)
    BY <1>1, <1>5 DEF Entitled, Claims
  <2>2. replays[k] \in Nat /\ Drawn(k) \in Nat /\ Drawn(k)' = Drawn(k)
    BY <1>1 DEF HostInv, HostTypeOK, Drawn
  <2>3. CASE store.inFlight /\ store.key = k
    <3>1. replays'[k] = replays[k] + 1
      BY <1>1, <2>3 DEF HostInv, HostTypeOK
    <3>2. replays'[k] + Drawn(k)' = replays[k] + Drawn(k) + 1
      BY <2>2, <3>1
    <3>3. Entitled(k)' \subseteq Entitled(k) \cup {h}
      BY <2>1
    <3> QED BY <1>1, <1>7, <3>2, <3>3, OwedStill
  <2>4. CASE ~(store.inFlight /\ store.key = k)
    <3>1. replays'[k] = replays[k]
      BY <1>1, <2>4 DEF HostInv, HostTypeOK
    <3>2. h \notin Entitled(k)'
      BY <1>3, <1>5, <2>4 DEF Entitled, Claims
    <3>3. Entitled(k)' \subseteq Entitled(k) /\ replays[k] <= replays'[k] /\ Drawn(k) <= Drawn(k)'
      BY <2>1, <2>2, <3>1, <3>2
    <3> QED BY <1>1, <1>7, <3>3, OwedStill
  <2> QED BY <2>3, <2>4
<1>9. ResultsFollow' /\ IsFiniteSet(open')
  BY <1>1, FS_AddElement DEF HostInv, ResultsFollow
<1> QED BY <1>6, <1>7, <1>8, <1>9 DEF HostInv

LEMMA CrashKeeps ==
    ASSUME HostInv, NEW h \in Hosts, Crash(h)
    PROVE  HostInv'
<1>1. /\ open' = open \ {h} /\ segment' = [segment EXCEPT ![h] = Blank(First)]
      /\ store' = store /\ opened' = opened
      /\ starts' = starts /\ replays' = replays /\ results' = results
  BY DEF Crash, histories
<1>2. Blank(First) \in Segment
  BY HostAssumption DEF Blank, First, Segment, Document
<1>3. segment' \in [Hosts -> Segment] /\ \A o \in open' : segment'[o] = segment[o]
  BY <1>1, <1>2 DEF HostInv, HostTypeOK
<1>4. HostTypeOK'
  BY <1>1, <1>3 DEF HostInv, HostTypeOK
<1>5. \A o \in open' : Sound(segment[o])'
  BY <1>1, <1>3 DEF HostInv, Sound, InStep, Orderly, Settled
<1>6. StartsOwed'
  <2> SUFFICES ASSUME NEW k \in Invocations
               PROVE  starts'[k] + Cardinality(Entitled(k)') <= replays'[k] + Drawn(k)'
    BY DEF StartsOwed
  <2>1. Entitled(k)' \subseteq Entitled(k)
    BY <1>1, <1>3 DEF Entitled, Claims
  <2>2. replays[k] \in Nat /\ Drawn(k) \in Nat
    BY DEF HostInv, HostTypeOK, Drawn
  <2>3. replays[k] <= replays'[k] /\ Drawn(k) <= Drawn(k)'
    BY <1>1, <2>2 DEF Drawn
  <2> QED BY <1>1, <1>4, <2>1, <2>3, OwedStill
<1>7. ResultsFollow' /\ IsFiniteSet(open')
  BY <1>1, FS_RemoveElement DEF HostInv, ResultsFollow
<1> QED BY <1>4, <1>5, <1>6, <1>7 DEF HostInv

-----------------------------------------------------------------------------
LEMMA StepIInv ==
    ASSUME HostInv, [HostNext]_host
    PROVE  HostInv' /\ SilentStep
<1>1. ASSUME NEW h \in open, NEW t \in Segment, Quiet(h, t), Fits(segment[h], t)
      PROVE  HostInv' /\ SilentStep
  <2>1. /\ open' = open /\ segment'[h] = t
        /\ \A o \in open \ {h} : segment'[o] = segment[o]
    BY <1>1 DEF HostInv, HostTypeOK, Quiet, Set
  <2>2. \A o \in open : segment[o].call = "effect" => segment[o].prepared
    BY DEF HostInv, Sound, Orderly
  <2>3. SilentStep
    BY <1>1, <2>1, <2>2 DEF SilentStep, Fits, Silent
  <2> QED BY <1>1, <2>3, QuietKeeps
<1>2. ASSUME NEW h \in Hosts, open' = open, Silent(segment[h], segment'[h]),
             \A o \in Hosts \ {h} : segment'[o] = segment[o]
      PROVE  SilentStep
  <2>1. \A o \in open : segment[o].call = "effect" => segment[o].prepared
    BY DEF HostInv, Sound, Orderly
  <2> QED BY <1>2, <2>1 DEF SilentStep, Silent, HostInv, HostTypeOK
<1>3. ASSUME NEW h \in Hosts, \A o \in open \cap open' : segment'[o] = segment[o]
      PROVE  SilentStep
  <2>1. \A o \in open : segment[o].call = "effect" => segment[o].prepared
    BY DEF HostInv, Sound, Orderly
  <2> QED BY <1>3, <2>1 DEF SilentStep
<1>4. ASSUME NEW h \in Hosts, h \in open => Sound(segment[h]),
             Pull(h) \/ Prepared(h) \/ PrepareFails(h)
      PROVE  HostInv' /\ SilentStep
  BY <1>1, <1>4, PullFits, PreparationFits DEF Pull, Prepared, PrepareFails
<1>5. ASSUME NEW h \in Hosts, h \in open => Sound(segment[h]),
             CommitAbort(h) \/ Checkpoint(h) \/ Finish(h) \/ AbortEffect(h)
      PROVE  HostInv' /\ SilentStep
  BY <1>1, <1>5, CommitsFit DEF HostInv, CommitAbort, Checkpoint, Driving, Finish, AbortEffect
<1>6. ASSUME NEW h \in Hosts, h \in open => Sound(segment[h]),
             Interrupt(h) \/ AbortSignal(h) \/ Return(h)
      PROVE  HostInv' /\ SilentStep
  BY <1>1, <1>6, EndsFit DEF Interrupt, AbortSignal, Return
<1>7. ASSUME NEW h \in Hosts, StartEffect(h)
      PROVE  HostInv' /\ SilentStep
  <2>1. open' = open /\ \A o \in Hosts \ {h} : segment'[o] = segment[o]
    BY <1>7 DEF StartEffect, Set, HostInv, HostTypeOK
  <2> QED BY <1>2, <1>7, <2>1, StartKeeps
<1>8. ASSUME NEW h \in Hosts, Write(h)
      PROVE  HostInv' /\ SilentStep
  <2>1. open' = open /\ \A o \in Hosts \ {h} : segment'[o] = segment[o]
    BY <1>8 DEF Write, HostInv, HostTypeOK
  <2> QED BY <1>2, <1>8, <2>1, WriteKeeps
<1>9. ASSUME NEW h \in Hosts, Open(h) \/ Crash(h)
      PROVE  HostInv' /\ SilentStep
  <2>1. \A o \in open \cap open' : segment'[o] = segment[o]
    BY <1>9 DEF Open, Crash, HostInv, HostTypeOK
  <2> QED BY <1>3, <1>9, <2>1, OpenKeeps, CrashKeeps
<1>10. CASE UNCHANGED host
  <2>1. HostInv'
    BY <1>10 DEF host, HostInv, HostTypeOK, StartsOwed, ResultsFollow, Sound, InStep, Orderly,
                 Settled, Entitled, Claims, Drawn
  <2>2. \A o \in open : segment[o].call = "effect" => segment[o].prepared
    BY DEF HostInv, Sound, Orderly
  <2> QED BY <1>10, <2>1, <2>2 DEF host, SilentStep
<1>11. \A h \in Hosts : h \in open => Sound(segment[h])
  BY DEF HostInv
<1> QED BY <1>4, <1>5, <1>6, <1>7, <1>8, <1>9, <1>10, <1>11 DEF HostNext

(* Each handle is in step with the document it read, and each start and    *)
(* result is owed to an invocation, in every behaviour.                    *)
LEMMA Invariance == HostSpec => []HostInv
<1>1. HostInit => HostInv
  <2> SUFFICES ASSUME HostInit PROVE HostInv
    OBVIOUS
  <2>1. First \in Document /\ Blank(First) \in Segment
    BY HostAssumption DEF Blank, First, Segment, Document
  <2>2. HostTypeOK /\ IsFiniteSet(open) /\ \A h \in open : Sound(segment[h])
    BY <2>1, FS_EmptySet DEF HostInit, HostTypeOK
  <2>3. ResultsFollow
    BY DEF HostInit, ResultsFollow
  <2>4. ASSUME NEW k \in Invocations
        PROVE  starts[k] + Cardinality(Entitled(k)) <= replays[k] + Drawn(k)
    <3>1. Cardinality(Entitled(k)) = 0
      BY FS_EmptySet DEF HostInit, Entitled
    <3>2. starts[k] = 0 /\ replays[k] = 0 /\ Drawn(k) \in {0, 1}
      BY DEF HostInit, Drawn
    <3> QED BY <3>1, <3>2
  <2> QED BY <2>2, <2>3, <2>4 DEF HostInv, StartsOwed
<1>2. HostInv /\ [HostNext]_host => HostInv'
  BY StepIInv
<1> QED BY <1>1, <1>2, PTL DEF HostSpec

(* The documents and handles of all hosts keep their types. *)
THEOREM TypeCorrect == HostSpec => []HostTypeOK
<1>1. HostInv => HostTypeOK
  BY DEF HostInv
<1> QED BY <1>1, Invariance, PTL

(* However many hosts resume and recover one document, crash and race to   *)
(* persist what they were given: the result of an invocation is persisted  *)
(* at most once, and its effect starts once and once more for each segment *)
(* that found it in flight (run.ts, as the README asks of a store).        *)
THEOREM Accounted == HostSpec => []EffectsAccounted
<1>1. HostInv => EffectsAccounted
  <2> SUFFICES ASSUME HostInv, NEW k \in Invocations
               PROVE  results[k] <= 1 /\ starts[k] <= 1 + replays[k]
    BY DEF EffectsAccounted
  <2>1. Cardinality(Entitled(k)) \in Nat /\ Drawn(k) \in {0, 1}
    BY ClaimsCount DEF HostInv, Drawn
  <2>2. starts[k] \in Nat /\ replays[k] \in Nat
    BY DEF HostInv, HostTypeOK
  <2>3. starts[k] + Cardinality(Entitled(k)) <= replays[k] + Drawn(k)
    BY DEF HostInv, StartsOwed
  <2> QED BY <2>1, <2>2, <2>3 DEF HostInv, ResultsFollow
<1> QED BY <1>1, Invariance, PTL

(* Whatever order next(), return(), an abort, a failed preparation and a   *)
(* rejected step come in: a handle that is over has ended its span, is in  *)
(* no call and commits nothing more, and no effect starts before the       *)
(* definitions are prepared (run.ts).                                      *)
THEOREM Segments == HostSpec => SegmentRight
<1>1. HostInv /\ [HostNext]_host => [HandleSettled' /\ SilentStep]_host
  BY StepIInv DEF HandleSettled, HostInv, Sound, Settled
<1> QED BY <1>1, Invariance, PTL DEF HostSpec, SegmentRight
=============================================================================
