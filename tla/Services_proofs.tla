-------------------------- MODULE Services_proofs --------------------------
(***************************************************************************)
(* Stamps respect happened-before, as text, too, and are never given       *)
(* twice; requests keep to their rate limit; a server shuts down in order; *)
(* the cache keeps what was used last; patches make the one document into  *)
(* the other.  For any nodes and clocks, calls, rates, retries, plugins,   *)
(* responses, keys, atoms, schemas and limits.                             *)
(***************************************************************************)
EXTENDS MCServices, FiniteSetTheorems, SequenceTheorems, WellFoundedInduction, TLAPS

(* A set of naturals that is not empty has a least element. *)
LEMMA LeastOfNaturals ==
    ASSUME NEW S \in SUBSET Nat, S # {}
    PROVE  \E x \in S : \A y \in S : x <= y
<1> DEFINE R == OpToRel(<, Nat)
<1>1. PICK x \in S : \A y \in S : ~ (<<y, x>> \in R)
  <2> HIDE DEF R
  <2> QED BY WFMin, NatLessThanWellFounded DEF R
<1>2. \A y \in S : ~(y < x)
  BY <1>1 DEF OpToRel
<1> QED BY <1>2

(* What holds of 0, and of k + 1 when of k. *)
LEMMA Upwards ==
    ASSUME NEW S \in SUBSET Nat, NEW from \in S, \A k \in S : k >= from => k + 1 \in S
    PROVE  \A k \in Nat : k >= from => k \in S
<1> DEFINE Bad == {k \in Nat : k >= from /\ k \notin S}
<1> SUFFICES ASSUME Bad # {} PROVE FALSE
  OBVIOUS
<1>1. PICK x \in Bad : \A y \in Bad : x <= y
  BY LeastOfNaturals
<1>2. x - 1 \in Nat /\ x - 1 >= from /\ x - 1 \notin Bad
  BY <1>1
<1> QED BY <1>1, <1>2

-----------------------------------------------------------------------------
(* The digits of a counter, last first: how often it can be divided. *)
RestsUpTo(i, n, f) ==
    /\ f \in [0..n -> Nat]
    /\ \A k \in 0..n : f[k] = IF k = 0 THEN i ELSE f[k - 1] \div Base

LEMMA Quotient ==
    ASSUME NEW x \in Nat
    PROVE  x \div Base \in Nat /\ x % Base \in 0..(Base - 1) /\ x = Base * (x \div Base) + (x % Base)
BY ClockAssumption

LEMMA RestsExist ==
    ASSUME NEW i \in Nat
    PROVE  \A n \in Nat : \E f : RestsUpTo(i, n, f)
<1> DEFINE S == {n \in Nat : \E f : RestsUpTo(i, n, f)}
<1>1. 0 \in S
  <2>1. RestsUpTo(i, 0, [k \in 0..0 |-> i])
    BY DEF RestsUpTo
  <2> QED BY <2>1
<1>2. ASSUME NEW n \in S PROVE n + 1 \in S
  <2>1. PICK f : RestsUpTo(i, n, f)
    OBVIOUS
  <2> DEFINE g == [k \in 0..(n + 1) |-> IF k = n + 1 THEN f[n] \div Base ELSE f[k]]
  <2>5. /\ n \in Nat /\ n \in 0..n
        /\ \A k \in 0..n : k # n + 1
        /\ \A k \in 0..(n + 1) : k # n + 1 => k \in 0..n
    OBVIOUS
  <2>6. \A k \in 0..n : f[k] \in Nat
    BY <2>1 DEF RestsUpTo
  <2>7. f[n] \in Nat /\ f[n] \div Base \in Nat
    BY <2>5, <2>6, Quotient
  <2>2. \A k \in 0..(n + 1) : g[k] \in Nat
    BY <2>5, <2>6, <2>7
  <2>3. ASSUME NEW k \in 0..(n + 1)
        PROVE  g[k] = IF k = 0 THEN i ELSE g[k - 1] \div Base
    <3>1. CASE k = n + 1
      <4>1. k # 0 /\ k - 1 = n /\ n \in 0..(n + 1) /\ n # n + 1
        BY <2>5, <2>6, <2>7, <3>1
      <4>2. g[n] = f[n] /\ g[k] = f[n] \div Base
        BY <3>1, <4>1
      <4> QED BY <4>1, <4>2
    <3>2. CASE k # n + 1
      <4>1. k \in 0..n /\ g[k] = f[k]
        BY <2>5, <2>6, <2>7, <3>2
      <4>2. k # 0 => k - 1 \in 0..(n + 1) /\ k - 1 # n + 1
        BY <2>5, <4>1
      <4>3. k # 0 => g[k - 1] = f[k - 1]
        BY <4>2
      <4> QED BY <2>1, <4>1, <4>3 DEF RestsUpTo
    <3> QED BY <3>1, <3>2
  <2>4. RestsUpTo(i, n + 1, g)
    BY <2>2, <2>3 DEF RestsUpTo
  <2> QED BY <2>4
<1> HIDE DEF S
<1>3. S \in SUBSET Nat
  BY DEF S
<1>4. \A n \in Nat : n >= 0 => n \in S
  BY <1>1, <1>2, <1>3, Upwards
<1> QED BY <1>4 DEF S

LEMMA RestsAgree ==
    ASSUME NEW i \in Nat, NEW n \in Nat, NEW m \in Nat, n <= m, NEW f, NEW g,
           RestsUpTo(i, n, f), RestsUpTo(i, m, g)
    PROVE  \A k \in 0..n : f[k] = g[k]
<1> DEFINE S == {k \in Nat : k <= n => f[k] = g[k]}
<1>1. 0 \in S
  BY DEF RestsUpTo
<1>2. ASSUME NEW k \in S PROVE k + 1 \in S
  BY <1>2 DEF RestsUpTo
<1> HIDE DEF S
<1>3. S \in SUBSET Nat
  BY DEF S
<1>4. \A k \in Nat : k >= 0 => k \in S
  BY <1>1, <1>2, <1>3, Upwards
<1> QED BY <1>4 DEF S

LEMMA DroppedDef ==
    ASSUME NEW i \in Nat
    PROVE  Dropped(i) = [k \in Nat |-> IF k = 0 THEN i ELSE Dropped(i)[k - 1] \div Base]
           /\ Dropped(i) \in [Nat -> Nat]
<1> DEFINE upTo == [n \in Nat |-> CHOOSE f : RestsUpTo(i, n, f)]
           rest == [k \in Nat |-> upTo[k][k]]
<1>1. \A n \in Nat : RestsUpTo(i, n, upTo[n])
  BY RestsExist
<1> HIDE DEF upTo
<1>2. \A k \in Nat : rest[k] \in Nat
  BY <1>1 DEF RestsUpTo
<1>3. ASSUME NEW k \in Nat PROVE rest[k] = IF k = 0 THEN i ELSE rest[k - 1] \div Base
  <2>1. CASE k = 0
    BY <1>1, <2>1 DEF RestsUpTo
  <2>2. CASE k # 0
    <3>1. k - 1 \in Nat /\ upTo[k][k] = upTo[k][k - 1] \div Base
      BY <1>1, <2>2 DEF RestsUpTo
    <3>2. upTo[k - 1][k - 1] = upTo[k][k - 1]
      BY <1>1, <3>1, RestsAgree
    <3> QED BY <2>2, <3>1, <3>2
  <2> QED BY <2>1, <2>2
<1> HIDE DEF rest
<1>4. rest = [k \in Nat |-> IF k = 0 THEN i ELSE rest[k - 1] \div Base]
  BY <1>3 DEF rest
<1> DEFINE d == CHOOSE r : r = [k \in Nat |-> IF k = 0 THEN i ELSE r[k - 1] \div Base]
<1>5. d = [k \in Nat |-> IF k = 0 THEN i ELSE d[k - 1] \div Base]
  BY <1>4
<1>6. Dropped(i) = d
  BY DEF Dropped
<1> HIDE DEF d
<1> DEFINE S == {k \in Nat : d[k] \in Nat}
<1>7. 0 \in S
  BY <1>5
<1>8. ASSUME NEW k \in S PROVE k + 1 \in S
  BY <1>5, Quotient
<1> HIDE DEF S
<1>9. S \in SUBSET Nat
  BY DEF S
<1>10. \A k \in Nat : k >= 0 => k \in S
  BY <1>7, <1>8, <1>9, Upwards
<1>11. d \in [Nat -> Nat]
  BY <1>5, <1>10 DEF S
<1> QED BY <1>5, <1>6, <1>11

LEMMA RestsDef ==
    ASSUME NEW i \in Nat
    PROVE  /\ Dropped(i)[0] = i
           /\ \A k \in Nat : Dropped(i)[k] \in Nat /\ Dropped(i)[k + 1] = Dropped(i)[k] \div Base
<1> DEFINE d == Dropped(i)
<1>1. d = [k \in Nat |-> IF k = 0 THEN i ELSE d[k - 1] \div Base] /\ d \in [Nat -> Nat]
  BY DroppedDef
<1> HIDE DEF d
<1>2. \A k \in Nat : k + 1 \in Nat /\ k + 1 # 0 /\ (k + 1) - 1 = k
  OBVIOUS
<1>3. \A k \in Nat : d[k + 1] = d[k] \div Base
  BY <1>1, <1>2
<1> QED BY <1>1, <1>3 DEF d

LEMMA QuotientMonotone ==
    ASSUME NEW x \in Nat, NEW y \in Nat, x <= y
    PROVE  x \div Base <= y \div Base
<1> DEFINE p == x \div Base
           q == y \div Base
<1>1. p \in Nat /\ q \in Nat /\ Base * p <= x /\ y < Base * q + Base /\ Base \in Nat
  <2>1. Base \in Nat /\ x % Base \in 0..(Base - 1) /\ y % Base \in 0..(Base - 1)
        /\ x = Base * p + (x % Base) /\ y = Base * q + (y % Base) /\ p \in Nat /\ q \in Nat
    BY Quotient, ClockAssumption
  <2> HIDE DEF p, q
  <2> QED BY <2>1
<1> HIDE DEF p, q
<1>2. ASSUME q + 1 <= p PROVE FALSE
  <2>1. Base * (q + 1) <= Base * p /\ Base * (q + 1) = Base * q + Base
    BY <1>1, <1>2
  <2> QED BY <1>1, <2>1
<1>3. p <= q
  BY <1>1, <1>2
<1> QED BY <1>3 DEF p, q

LEMMA RestsMonotone ==
    ASSUME NEW c \in Nat, NEW d \in Nat, c <= d
    PROVE  \A k \in Nat : Dropped(c)[k] <= Dropped(d)[k]
<1> DEFINE S == {k \in Nat : Dropped(c)[k] <= Dropped(d)[k]}
<1>1. 0 \in S
  BY RestsDef
<1>2. ASSUME NEW k \in S PROVE k + 1 \in S
  <2>1. /\ Dropped(c)[k] \in Nat /\ Dropped(d)[k] \in Nat /\ Dropped(c)[k] <= Dropped(d)[k]
        /\ Dropped(c)[k + 1] = Dropped(c)[k] \div Base
        /\ Dropped(d)[k + 1] = Dropped(d)[k] \div Base
    BY RestsDef
  <2> QED BY <2>1, QuotientMonotone
<1> HIDE DEF S
<1>3. S \in SUBSET Nat
  BY DEF S
<1>4. \A k \in Nat : k >= 0 => k \in S
  BY <1>1, <1>2, <1>3, Upwards
<1> QED BY <1>4 DEF S

LEMMA RestsStayEqual ==
    ASSUME NEW c \in Nat, NEW d \in Nat, NEW n \in Nat, Dropped(c)[n] = Dropped(d)[n]
    PROVE  \A k \in Nat : k >= n => Dropped(c)[k] = Dropped(d)[k]
<1> DEFINE S == {k \in Nat : Dropped(c)[k] = Dropped(d)[k]}
<1>1. n \in S
  OBVIOUS
<1>2. ASSUME NEW k \in S PROVE k + 1 \in S
  BY RestsDef
<1> HIDE DEF S
<1>3. S \in SUBSET Nat
  BY DEF S
<1>4. \A k \in Nat : k >= n => k \in S
  BY <1>1, <1>2, <1>3, Upwards
<1> QED BY <1>4 DEF S

-----------------------------------------------------------------------------
Counter == 0..(Ceiling - 1)

Place(c, j) == Dropped(c)[Width - j] % Base

(* The padding takes every counter below the ceiling. *)
LEMMA PaddedFits ==
    ASSUME NEW c \in Counter
    PROVE  /\ Padded(c) = [j \in 1..Width |-> Place(c, j)] /\ Dropped(c)[Width] = 0
           /\ \A j \in 1..Width : Place(c, j) \in Nat /\ Place(c, j) < Base
<1>1. c \in Nat /\ Ceiling - 1 \in Nat /\ c <= Ceiling - 1 /\ Width \in Nat /\ Base \in Nat
      /\ Dropped(Ceiling - 1)[Width] = 0
  BY ClockAssumption DEF Counter
<1>2. Dropped(c)[Width] = 0
  BY <1>1, RestsDef, RestsMonotone
<1>3. \A j \in 1..Width : Place(c, j) \in Nat /\ Place(c, j) < Base
  <2>1. \A j \in 1..Width : Width - j \in Nat
    BY <1>1
  <2> SUFFICES ASSUME NEW j \in 1..Width PROVE Place(c, j) \in Nat /\ Place(c, j) < Base
    OBVIOUS
  <2>2. Dropped(c)[Width - j] \in Nat
    BY <1>1, <2>1, RestsDef
  <2>3. Place(c, j) \in 0..(Base - 1)
    BY <2>2, Quotient DEF Place
  <2> QED BY <1>1, <2>3
<1> DEFINE rest == Dropped(c)
           Fits(n) == rest[n] = 0 /\ \A m \in Width..(n - 1) : rest[m] # 0
           long == CHOOSE n \in Width..(Width + c) : Fits(n)
<1>4. Padded(c) = [j \in 1..long |-> rest[long - j] % Base]
  BY DEF Padded
<1>5. long = Width
  <2>1. Width \in Width..(Width + c) /\ Fits(Width)
    BY <1>1, <1>2
  <2>2. \A n \in Width..(Width + c) : Fits(n) => n = Width
    BY <1>1, <1>2
  <2> HIDE DEF Fits
  <2> QED BY <2>1, <2>2
<1> HIDE DEF long
<1> QED BY <1>2, <1>3, <1>4, <1>5 DEF Place

(* The larger counter is larger in the first place where they differ. *)
LEMMA FirstPlace ==
    ASSUME NEW c \in Counter, NEW d \in Counter, c < d
    PROVE  \E i \in 1..Width :
              (\A j \in 1..(i - 1) : Place(c, j) = Place(d, j)) /\ Place(c, i) < Place(d, i)
<1>1. c \in Nat /\ d \in Nat /\ Width \in Nat /\ Base \in Nat
  BY ClockAssumption DEF Counter
<1> DEFINE S == {k \in 0..Width : Dropped(c)[k] = Dropped(d)[k]}
<1>2. Width \in S /\ S \in SUBSET Nat
  BY <1>1, PaddedFits
<1>3. PICK k \in S : \A n \in S : k <= n
  BY <1>2, LeastOfNaturals
<1>4. k # 0
  BY <1>1, RestsDef
<1>5. k - 1 \in Nat /\ k - 1 < Width /\ k - 1 \notin S /\ k \in Nat /\ k <= Width
  BY <1>1, <1>3, <1>4
<1> DEFINE x == Dropped(c)[k - 1]
           y == Dropped(d)[k - 1]
<1>6. x \in Nat /\ y \in Nat /\ x # y /\ x <= y /\ x \div Base = y \div Base
  <2>1. x # y
    BY <1>1, <1>5
  <2>2. x \in Nat /\ y \in Nat /\ x <= y
    BY <1>1, <1>5, RestsDef, RestsMonotone
  <2>3. Dropped(c)[k] = x \div Base /\ Dropped(d)[k] = y \div Base
    <3>1. (k - 1) + 1 = k
      BY <1>5
    <3> QED BY <1>1, <1>5, <3>1, RestsDef
  <2> QED BY <1>3, <2>1, <2>2, <2>3
<1> HIDE DEF x, y
<1>7. x % Base < y % Base
  <2>1. /\ x = Base * (x \div Base) + (x % Base) /\ y = Base * (y \div Base) + (y % Base)
        /\ x % Base \in Nat /\ y % Base \in Nat /\ x \div Base \in Nat
    BY <1>1, <1>6, Quotient
  <2>2. Base * (x \div Base) = Base * (y \div Base) /\ Base * (x \div Base) \in Nat
    BY <1>1, <1>6, <2>1
  <2> QED BY <1>6, <2>1, <2>2
<1> DEFINE i == Width - (k - 1)
<1>8. i \in 1..Width /\ Width - i = k - 1
  BY <1>1, <1>5
<1>9. Place(c, i) < Place(d, i)
  BY <1>7, <1>8 DEF Place, x, y
<1>10. ASSUME NEW j \in 1..(i - 1) PROVE Place(c, j) = Place(d, j)
  <2>1. Width - j \in Nat /\ Width - j >= k
    BY <1>1, <1>5
  <2>2. Dropped(c)[Width - j] = Dropped(d)[Width - j]
    BY <1>1, <1>3, <1>5, <2>1, RestsStayEqual
  <2> QED BY <2>2 DEF Place
<1> QED BY <1>8, <1>9, <1>10

-----------------------------------------------------------------------------
(* A text is the wall time, the places of the counter, a mark, the node. *)
Proper == [wall : Nat, counter : Counter, node : Node]

Sign(s, i) ==
    IF i = 1 THEN s.wall ELSE IF i <= Width + 1 THEN Place(s.counter, i - 1)
    ELSE IF i = Width + 2 THEN Base ELSE s.node

LEMMA TextSigns ==
    ASSUME NEW s \in Proper
    PROVE  /\ Len(Text(s)) = Width + 3 /\ \A i \in 1..(Width + 3) : Text(s)[i] = Sign(s, i)
           /\ \A i \in 1..(Width + 3) : Sign(s, i) \in Nat
<1>1. /\ s.wall \in Nat /\ s.counter \in Counter /\ s.node \in Nat /\ Base \in Nat
      /\ Width \in Nat
  BY ClockAssumption DEF Proper
<1> DEFINE p == Padded(s.counter)
<1>2. p = [j \in 1..Width |-> Place(s.counter, j)] /\ \A j \in 1..Width : Place(s.counter, j) \in Nat
  BY <1>1, PaddedFits
<1> HIDE DEF p
<1>3. p \in Seq(Nat) /\ Len(p) = Width /\ \A j \in 1..Width : p[j] = Place(s.counter, j)
  BY <1>1, <1>2
<1> DEFINE a == <<s.wall>> \o p
           b == <<Base, s.node>>
<1>4. a \in Seq(Nat) /\ Len(a) = Width + 1
      /\ \A i \in 1..(Width + 1) : a[i] = IF i = 1 THEN s.wall ELSE Place(s.counter, i - 1)
  BY <1>1, <1>3
<1>5. b \in Seq(Nat) /\ Len(b) = 2 /\ b[1] = Base /\ b[2] = s.node
  BY <1>1
<1> HIDE DEF a, b
<1>6. /\ Len(a \o b) = Width + 3
      /\ \A i \in 1..(Width + 3) : (a \o b)[i] = IF i <= Width + 1 THEN a[i] ELSE b[i - (Width + 1)]
  <2>1. /\ Len(a \o b) = Len(a) + Len(b)
        /\ \A i \in 1..(Len(a) + Len(b)) :
              (a \o b)[i] = IF i <= Len(a) THEN a[i] ELSE b[i - Len(a)]
    BY <1>4, <1>5, ConcatProperties
  <2>2. Len(a) + Len(b) = Width + 3
    BY <1>1, <1>4, <1>5
  <2> QED BY <1>4, <2>1, <2>2
<1>7. Text(s) = a \o b
  BY DEF Text, a, b, p
<1>8. ASSUME NEW i \in 1..(Width + 3) PROVE (a \o b)[i] = Sign(s, i)
  <2>1. CASE i <= Width + 1
    <3>1. i \in 1..(Width + 1) /\ (a \o b)[i] = a[i]
      BY <1>1, <1>6, <2>1
    <3>2. a[i] = IF i = 1 THEN s.wall ELSE Place(s.counter, i - 1)
      BY <1>4, <3>1
    <3>3. Sign(s, i) = IF i = 1 THEN s.wall ELSE Place(s.counter, i - 1)
      BY <2>1 DEF Sign
    <3> QED BY <3>1, <3>2, <3>3
  <2>2. CASE i = Width + 2
    <3>1. i - (Width + 1) = 1 /\ ~(i <= Width + 1) /\ i # 1
      BY <1>1, <2>2
    <3> QED BY <1>5, <1>6, <2>2, <3>1 DEF Sign
  <2>3. CASE i = Width + 3
    <3>1. i - (Width + 1) = 2 /\ ~(i <= Width + 1) /\ i # 1 /\ i # Width + 2
      BY <1>1, <2>3
    <3> QED BY <1>5, <1>6, <2>3, <3>1 DEF Sign
  <2>4. i <= Width + 1 \/ i = Width + 2 \/ i = Width + 3
    <3>1. Width \in Nat
      BY <1>1
    <3> QED BY <3>1
  <2> QED BY <2>1, <2>2, <2>3, <2>4
<1>9. ASSUME NEW i \in 1..(Width + 3) PROVE Sign(s, i) \in Nat
  BY <1>1, <1>2 DEF Sign
<1> QED BY <1>6, <1>7, <1>8, <1>9

LEMMA EarlierSortsFirst ==
    ASSUME NEW s \in Proper, NEW e \in Proper, Before(s, e)
    PROVE  TextBefore(Text(s), Text(e))
<1>1. /\ Len(Text(s)) = Width + 3 /\ Len(Text(e)) = Width + 3
      /\ \A i \in 1..(Width + 3) : Text(s)[i] = Sign(s, i) /\ Text(e)[i] = Sign(e, i)
  BY TextSigns
<1>2. /\ s.wall \in Nat /\ e.wall \in Nat /\ s.counter \in Counter /\ e.counter \in Counter
      /\ s.counter \in Nat /\ e.counter \in Nat /\ Width \in Nat
  BY ClockAssumption DEF Proper, Counter
<1> SUFFICES \E i \in 1..(Width + 3) :
                (\A j \in 1..(i - 1) : Sign(s, j) = Sign(e, j)) /\ Sign(s, i) < Sign(e, i)
  <2>1. ASSUME NEW i \in 1..(Width + 3), \A j \in 1..(i - 1) : Sign(s, j) = Sign(e, j),
               Sign(s, i) < Sign(e, i)
        PROVE  TextBefore(Text(s), Text(e))
    <3>1. \A j \in 1..(i - 1) : j \in 1..(Width + 3) /\ j <= Width + 3
      BY <1>2
    <3> QED BY <1>1, <2>1, <3>1 DEF TextBefore
  <2> QED BY <2>1
<1>3. CASE s.wall < e.wall
  <2>1. 1 \in 1..(Width + 3) /\ 1..(1 - 1) = {}
    BY <1>2
  <2> QED BY <1>3, <2>1 DEF Sign
<1>4. CASE s.wall = e.wall /\ s.counter < e.counter
  <2>1. PICK i \in 1..Width :
           /\ \A j \in 1..(i - 1) : Place(s.counter, j) = Place(e.counter, j)
           /\ Place(s.counter, i) < Place(e.counter, i)
    BY <1>2, <1>4, FirstPlace
  <2>2. i + 1 \in 1..(Width + 3) /\ i + 1 <= Width + 1 /\ i + 1 # 1 /\ (i + 1) - 1 = i
    BY <1>2
  <2>3. Sign(s, i + 1) < Sign(e, i + 1)
    BY <2>1, <2>2 DEF Sign
  <2>4. ASSUME NEW j \in 1..((i + 1) - 1) PROVE Sign(s, j) = Sign(e, j)
    <3>1. j # 1 => j - 1 \in 1..(i - 1) /\ j <= Width + 1
      BY <1>2
    <3> QED BY <1>4, <2>1, <3>1 DEF Sign
  <2> QED BY <2>2, <2>3, <2>4
<1>5. CASE s.wall = e.wall /\ s.counter = e.counter /\ s.node < e.node
  <2>1. Width + 3 \in 1..(Width + 3) /\ Width + 3 # 1 /\ ~(Width + 3 <= Width + 1) /\ Width + 3 # Width + 2
    BY <1>2
  <2>2. Sign(s, Width + 3) < Sign(e, Width + 3)
    BY <1>5, <2>1 DEF Sign
  <2>3. ASSUME NEW j \in 1..((Width + 3) - 1) PROVE Sign(s, j) = Sign(e, j)
    <3>1. j = 1 \/ j <= Width + 1 \/ j = Width + 2
      BY <1>2
    <3> QED BY <1>5, <3>1 DEF Sign
  <2> QED BY <2>1, <2>2, <2>3
<1> QED BY <1>3, <1>4, <1>5 DEF Before, Sooner

LEMMA OneWay ==
    ASSUME NEW s \in Proper, NEW e \in Proper, TextBefore(Text(s), Text(e))
    PROVE  ~TextBefore(Text(e), Text(s))
<1>1. /\ Len(Text(s)) = Width + 3 /\ Len(Text(e)) = Width + 3 /\ Width \in Nat
      /\ \A i \in 1..(Width + 3) : Text(s)[i] \in Nat /\ Text(e)[i] \in Nat
  BY TextSigns, ClockAssumption
<1>2. PICK i \in 1..(Width + 3) :
         (\A j \in 1..(i - 1) : Text(s)[j] = Text(e)[j]) /\ Text(s)[i] < Text(e)[i]
  BY <1>1 DEF TextBefore
<1> SUFFICES ASSUME TextBefore(Text(e), Text(s)) PROVE FALSE
  OBVIOUS
<1>3. PICK k \in 1..(Width + 3) :
         (\A j \in 1..(k - 1) : Text(e)[j] = Text(s)[j]) /\ Text(e)[k] < Text(s)[k]
  BY <1>1 DEF TextBefore
<1>4. i < k \/ i = k \/ k < i
  OBVIOUS
<1>5. i < k => i \in 1..(k - 1)
  OBVIOUS
<1>6. k < i => k \in 1..(i - 1)
  OBVIOUS
<1> QED BY <1>1, <1>2, <1>3, <1>4, <1>5, <1>6

LEMMA TextSorts ==
    ASSUME Stamps \subseteq Proper
    PROVE  SortsAsText
<1> SUFFICES ASSUME NEW s \in Stamps, NEW e \in Stamps
             PROVE  TextBefore(Text(s), Text(e)) <=> Before(s, e)
  BY DEF SortsAsText
<1>1. s \in Proper /\ e \in Proper
  OBVIOUS
<1>2. Before(s, e) => TextBefore(Text(s), Text(e))
  BY <1>1, EarlierSortsFirst
<1>3. Before(e, s) => ~TextBefore(Text(s), Text(e))
  BY <1>1, EarlierSortsFirst, OneWay
<1>4. s = e => ~TextBefore(Text(s), Text(e))
  BY <1>1, OneWay
<1>5. Before(s, e) \/ Before(e, s) \/ s = e
  <2>1. /\ s.wall \in Int /\ e.wall \in Int /\ s.counter \in Int /\ e.counter \in Int
        /\ s.node \in Int /\ e.node \in Int
    <3>1. \A x \in Proper : x.wall \in Int /\ x.node \in Int
      <4>1. Node \subseteq Int
        BY ClockAssumption
      <4> SUFFICES ASSUME NEW x \in Proper PROVE x.wall \in Int /\ x.node \in Int
        OBVIOUS
      <4>2. x.wall \in Nat /\ x.node \in Node
        BY DEF Proper
      <4>3. x.node \in Int
        BY <4>1, <4>2
      <4>4. x.wall \in Int
        BY <4>2
      <4> QED BY <4>3, <4>4
    <3>2. \A x \in Proper : x.counter \in Counter
      BY DEF Proper
    <3>3. Counter \subseteq Int
      BY ClockAssumption DEF Counter
    <3> QED BY <1>1, <3>1, <3>2, <3>3
  <2>2. s.wall = e.wall /\ s.counter = e.counter /\ s.node = e.node => s = e
    BY <1>1 DEF Proper
  <2> QED BY <2>1, <2>2 DEF Before, Sooner
<1> QED BY <1>2, <1>3, <1>4, <1>5

-----------------------------------------------------------------------------
(* The clocks: no stamp of a node is later than its clock, and no counter  *)
(* is too long for its text.                                               *)
ClockLatest == \A s \in Stamps : ~Sooner(clock[s.node], s)

ClocksInv == TypeOK /\ CausalOrder /\ ClockLatest /\ Stamps \subseteq Proper

Reading == [wall : Nat, counter : Nat]

-----------------------------------------------------------------------------
(* A clamped counter is later than the reading it was counted from. *)
LEMMA ApplyCounterLater ==
    ASSUME NEW wall \in Nat, NEW counter \in Nat, NEW candidate \in Nat, candidate > counter
    PROVE  /\ ApplyCounter(wall, candidate) \in [wall : wall..(wall + 1), counter : 0..(Ceiling - 1)]
           /\ Sooner([wall |-> wall, counter |-> counter], ApplyCounter(wall, candidate))
BY ClockAssumption DEF ApplyCounter, Sooner

LEMMA MintedLater ==
    ASSUME NEW c \in Reading, NEW t \in 0..MaxWall, c.wall <= MaxWall
    PROVE  /\ Minted(c, t) \in [wall : 0..(MaxWall + 1), counter : 0..(Ceiling - 1)]
           /\ Sooner(c, Minted(c, t))
<1>1. CASE t > c.wall
  BY <1>1, ClockAssumption DEF Minted, Sooner, Reading
<1>2. CASE ~(t > c.wall)
  <2>1. c = [wall |-> c.wall, counter |-> c.counter] /\ c.wall \in Nat /\ c.counter \in Nat
    BY DEF Reading
  <2>2. /\ ApplyCounter(c.wall, c.counter + 1) \in
                [wall : c.wall..(c.wall + 1), counter : 0..(Ceiling - 1)]
        /\ Sooner(c, ApplyCounter(c.wall, c.counter + 1))
    BY <2>1, ApplyCounterLater
  <2>3. Minted(c, t) = ApplyCounter(c.wall, c.counter + 1)
    BY <1>2 DEF Minted
  <2> QED BY <2>1, <2>2, <2>3, ClockAssumption
<1> QED BY <1>1, <1>2

(* A merged reading is later than both that it merges. *)
LEMMA MergedLater ==
    ASSUME NEW c \in Reading, NEW r \in Stamp, NEW t \in 0..MaxWall,
           c.wall <= MaxWall, r.wall <= MaxWall
    PROVE  /\ Merged(c, r, t) \in [wall : 0..(MaxWall + 1), counter : 0..(Ceiling - 1)]
           /\ Sooner(c, Merged(c, r, t)) /\ Sooner(r, Merged(c, r, t))
<1>0. /\ c = [wall |-> c.wall, counter |-> c.counter] /\ c.wall \in Nat /\ c.counter \in Nat
      /\ r.wall \in Nat /\ r.counter \in Nat
  BY DEF Reading, Stamp
<1>1. CASE t > c.wall /\ t > r.wall
  BY <1>0, <1>1, ClockAssumption DEF Merged, Sooner
<1>2. CASE ~(t > c.wall /\ t > r.wall) /\ r.wall > c.wall
  <2>1. Merged(c, r, t) = ApplyCounter(r.wall, r.counter + 1)
    BY <1>2 DEF Merged
  <2> QED BY <1>0, <1>2, <2>1, ClockAssumption DEF ApplyCounter, Sooner
<1>3. CASE ~(t > c.wall /\ t > r.wall) /\ c.wall > r.wall
  <2>1. Merged(c, r, t) = ApplyCounter(c.wall, c.counter + 1)
    BY <1>0, <1>3 DEF Merged
  <2> QED BY <1>0, <1>3, <2>1, ClockAssumption DEF ApplyCounter, Sooner
<1>4. CASE ~(t > c.wall /\ t > r.wall) /\ c.wall = r.wall
  <2>1. Merged(c, r, t) = ApplyCounter(c.wall, Larger(c.counter, r.counter) + 1)
    BY <1>0, <1>4 DEF Merged
  <2> QED BY <1>0, <1>4, <2>1, ClockAssumption DEF ApplyCounter, Sooner, Larger
<1> QED BY <1>0, <1>1, <1>2, <1>3, <1>4

LEMMA SoonerTransitive ==
    ASSUME NEW a \in Stamp, NEW b \in Stamp, NEW c \in Reading, Sooner(a, b), Sooner(b, c)
    PROVE  Sooner(a, c)
BY DEF Stamp, Reading, Sooner

-----------------------------------------------------------------------------
(* An event whose new reading is later than the clock and the stamps it    *)
(* has just seen keeps the invariant and takes a stamp never given before. *)
LEMMA StampedKeeps ==
    ASSUME ClocksInv, NEW n \in Node, NEW c \in [wall : 0..(MaxWall + 1), counter : 0..(Ceiling - 1)],
           NEW new \in SUBSET Stamps, Stamped(n, c, new),
           Sooner(clock[n], c), \A r \in new : Sooner(r, c)
    PROVE  ClocksInv' /\ NewStampStep
<1> DEFINE s == StampOf(n, c)
<1>1. /\ clock' = [clock EXCEPT ![n] = c]
      /\ cause' = [e \in Stamps \cup {s} |-> IF e = s THEN Past(n, new) ELSE cause[e]]
      /\ Stamps' = Stamps \cup {s}
  BY DEF Stamped, Stamps
<1>2. c \in Reading /\ s \in Stamp /\ clock[n] \in Reading
  BY ClockAssumption DEF ClocksInv, TypeOK, StampOf, Stamp, Reading
<1>3. s \notin Stamps
  <2>1. s.node = n /\ (Sooner(clock[n], s) <=> Sooner(clock[n], c))
    BY DEF StampOf, Sooner
  <2> QED BY <2>1 DEF ClocksInv, ClockLatest
<1>4. NewStampStep
  BY <1>1, <1>3 DEF NewStampStep
<1>5. Past(n, new) \subseteq Stamps
  BY DEF Past, ClocksInv, TypeOK
<1>6. TypeOK'
  <2>1. clock' \in [Node -> [wall : 0..(MaxWall + 1), counter : 0..(Ceiling - 1)]]
    BY <1>1 DEF ClocksInv, TypeOK
  <2>2. Stamps' \subseteq Stamp
    BY <1>1, <1>2 DEF ClocksInv, TypeOK
  <2>3. \A e \in Stamps' : cause'[e] \subseteq Stamps'
    BY <1>1, <1>5 DEF ClocksInv, TypeOK
  <2> QED BY <2>1, <2>2, <2>3 DEF TypeOK
<1>7. \A e \in Past(n, new) : Sooner(e, s)
  <2> DEFINE known == new \cup (Stamps \cap {StampOf(n, clock[n])})
  <2>1. \A e \in known : Sooner(e, c)
    BY DEF StampOf, Sooner
  <2>2. \A k \in known : \A e \in cause[k] : Sooner(e, c)
    <3> SUFFICES ASSUME NEW k \in known, NEW e \in cause[k] PROVE Sooner(e, c)
      OBVIOUS
    <3>1. k \in Stamp /\ e \in Stamp /\ Sooner(e, k)
      BY DEF ClocksInv, TypeOK, CausalOrder
    <3> QED BY <3>1, <2>1, <1>2, SoonerTransitive
  <2>3. \A e \in Past(n, new) : Sooner(e, c)
    BY <2>1, <2>2 DEF Past
  <2> QED BY <2>3 DEF StampOf, Sooner
<1>8. CausalOrder'
  <2> SUFFICES ASSUME NEW e \in Stamps', NEW f \in cause'[e] PROVE Sooner(f, e)
    BY DEF CausalOrder, Sooner
  <2>1. CASE e = s
    BY <1>1, <1>7, <2>1
  <2>2. CASE e # s
    <3>1. e \in Stamps /\ f \in cause[e]
      BY <1>1, <2>2
    <3> QED BY <3>1 DEF ClocksInv, CausalOrder
  <2> QED BY <2>1, <2>2
<1>9. ClockLatest'
  <2> SUFFICES ASSUME NEW e \in Stamps', Sooner(clock'[e.node], e) PROVE FALSE
    BY DEF ClockLatest, Sooner
  <2>1. CASE e = s
    <3>1. clock'[e.node] = c
      BY <1>1, <2>1 DEF StampOf, ClocksInv, TypeOK
    <3> QED BY <3>1, <2>1, <1>2 DEF Sooner, StampOf, Reading
  <2>2. CASE e # s
    <3>1. e \in Stamps /\ e \in Stamp /\ ~Sooner(clock[e.node], e)
      BY <1>1, <2>2 DEF ClocksInv, TypeOK, ClockLatest
    <3>2. CASE e.node # n
      <4>1. clock'[e.node] = clock[e.node]
        BY <1>1, <3>1, <3>2 DEF ClocksInv, TypeOK, Stamp
      <4> QED BY <4>1, <3>1
    <3>3. CASE e.node = n
      <4>1. clock'[e.node] = c
        BY <1>1, <3>3 DEF ClocksInv, TypeOK
      <4> QED BY <4>1, <3>1, <3>3, <1>2 DEF Sooner, Reading, Stamp
    <3> QED BY <3>2, <3>3
  <2> QED BY <2>1, <2>2
<1>10. Stamps' \subseteq Proper
  <2>1. s \in Proper
    BY ClockAssumption DEF StampOf, Proper, Counter
  <2> QED BY <1>1, <2>1 DEF ClocksInv, Proper
<1> QED BY <1>4, <1>6, <1>8, <1>9, <1>10 DEF ClocksInv, Proper, Counter

LEMMA ClocksStart == Init => ClocksInv
BY ClockAssumption DEF Init, ClocksInv, TypeOK, CausalOrder, ClockLatest, Stamps

LEMMA ClocksStep ==
    ASSUME ClocksInv, Next
    PROVE  ClocksInv' /\ NewStampStep
<1>1. ASSUME NEW n \in Node, NEW t \in 0..MaxWall, Mint(n, t)
      PROVE  ClocksInv' /\ NewStampStep
  <2>1. clock[n] \in Reading /\ clock[n].wall <= MaxWall
    BY <1>1, ClockAssumption DEF ClocksInv, TypeOK, Reading, Mint
  <2>2. Stamped(n, Minted(clock[n], t), {})
    BY <1>1 DEF Mint
  <2> QED BY <2>1, <2>2, MintedLater, StampedKeeps
<1>2. ASSUME NEW n \in Node, NEW t \in 0..MaxWall, NEW remote \in Stamps, Receive(n, remote, t)
      PROVE  ClocksInv' /\ NewStampStep
  <2>1. /\ clock[n] \in Reading /\ clock[n].wall <= MaxWall
        /\ remote \in Stamp /\ remote.wall <= MaxWall
    BY <1>2, ClockAssumption DEF ClocksInv, TypeOK, Reading, Receive
  <2>2. Stamped(n, Merged(clock[n], remote, t), {remote})
    BY <1>2 DEF Receive
  <2>3. {remote} \in SUBSET Stamps
    BY <1>2
  <2> QED BY <2>1, <2>2, <2>3, MergedLater, StampedKeeps
<1> QED BY <1>1, <1>2 DEF Next

-----------------------------------------------------------------------------
(* The server. *)

Idle == [p \in Server!P |-> "no"]

(* A plugin with no hook of a kind has no such hook that ran. *)
Reported(hook, with) ==
    \A p \in Server!P : hook[p] \in (IF p \in with THEN Server!Ended ELSE {"no"})

(* Only the last of the close hooks that began may run. *)
InTurn(hook) ==
    \A p \in Server!P : hook[p] # "no" =>
        p \in onClose /\ \A q \in onClose : q > p => hook[q] \in Server!Ended

(* What the phase of the shutdown says of the hooks and the responses. *)
Phased ==
    /\ phase \in {"none", "setup"} => shutdownHook = Idle /\ forced = FALSE
    /\ phase = "hooks" =>
          \A p \in Server!P : shutdownHook[p] # "no" <=> p \in onShutdown
    /\ phase \in {"drain", "close", "over"} => Reported(shutdownHook, onShutdown)
    /\ phase \in {"none", "setup", "hooks", "drain"} => closeHook = Idle /\ cut = {}
    /\ phase = "drain" => open # {}
    /\ phase \in {"close", "over"} => open = {} /\ (forced <=> cut # {})
    /\ phase # "close" => \A p \in Server!P : closeHook[p] # "running"
    /\ phase = "over" => Reported(closeHook, onClose)
    /\ InTurn(closeHook)

(* What the signal and the phase say of the setup and the server. *)
Bounded ==
    /\ aborted <=> phase # "none"
    /\ aborted => server # "binding" /\ (server = "bound" => phase = "setup")
    /\ phase \in {"hooks", "drain", "close", "over"} => setup \notin {"starting", "running"}
    /\ listening = "port" \/ server # "none" => setup = "done"
    /\ setup # "done" => listening = "no"
    /\ setup \in {"starting", "running"} => at \in Server!P

ServerInv == Server!TypeOK /\ Phased /\ Bounded

LEMMA ServerInvRight == ServerInv => Server!TypeOK /\ Server!ServerRight
<1> SUFFICES ASSUME ServerInv PROVE Server!ServerRight
  BY DEF ServerInv
<1> USE ServerAssumption DEF ServerInv, Server!TypeOK
<1>1. Server!CloseLast
  <2> SUFFICES ASSUME NEW p \in Server!P, closeHook[p] # "no"
               PROVE  /\ open = {} /\ setup \notin {"starting", "running"}
                      /\ \A q \in Server!P : shutdownHook[q] # "running"
                      /\ \A q \in onClose : q > p => closeHook[q] \in Server!Ended
    BY DEF Server!CloseLast
  <2>1. phase \in {"close", "over"}
    BY DEF Phased, Idle
  <2>2. open = {} /\ setup \notin {"starting", "running"}
    BY <2>1 DEF Phased, Bounded
  <2>3. \A q \in Server!P : shutdownHook[q] # "running"
    BY <2>1 DEF Phased, Reported, Server!Ended
  <2> QED BY <2>2, <2>3 DEF Phased, InTurn
<1>2. Server!ReportExact
  BY DEF Server!ReportExact, Phased, Reported
<1>3. Server!NothingBound
  BY DEF Server!NothingBound, Bounded
<1> QED BY <1>1, <1>2, <1>3 DEF Server!ServerRight

LEMMA ServerStarts == Server!Init => ServerInv
<1> SUFFICES ASSUME Server!Init PROVE ServerInv
  OBVIOUS
<1>1. Idle \in [Server!P -> {"no", "running"} \cup Server!Ended] /\ \A p \in Server!P : Idle[p] = "no"
  BY DEF Idle
<1>2. shutdownHook = Idle /\ closeHook = Idle
  BY DEF Server!Init, Idle
<1>3. Server!TypeOK
  <2>1. shutdownHook \in [Server!P -> {"no", "running"} \cup Server!Ended]
    BY <1>1, <1>2
  <2>2. closeHook \in [Server!P -> {"no", "running"} \cup Server!Ended]
    BY <1>1, <1>2
  <2>3. at \in 0..Plugins /\ setup \in {"starting", "running", "done", "stopped", "failed"}
    BY ServerAssumption DEF Server!Init
  <2> QED BY <2>1, <2>2, <2>3 DEF Server!Init, Server!TypeOK
<1>4. Phased
  BY <1>1, <1>2 DEF Server!Init, Phased, Reported, InTurn
<1>5. Bounded
  BY ServerAssumption DEF Server!Init, Bounded, Server!P
<1> QED BY <1>3, <1>4, <1>5 DEF ServerInv

LEMMA ServerRests == ServerOver => ServerInv
<1> SUFFICES ASSUME ServerOver PROVE ServerInv
  OBVIOUS
<1>1. Idle \in [Server!P -> {"no", "running"} \cup Server!Ended] /\ \A p \in Server!P : Idle[p] = "no"
  BY DEF Idle
<1>2. shutdownHook = Idle /\ closeHook = Idle
  BY DEF ServerOver, Idle
<1>3. Server!TypeOK
  <2>1. shutdownHook \in [Server!P -> {"no", "running"} \cup Server!Ended]
    BY <1>1, <1>2
  <2>2. closeHook \in [Server!P -> {"no", "running"} \cup Server!Ended]
    BY <1>1, <1>2
  <2>3. at \in 0..Plugins /\ setup \in {"starting", "running", "done", "stopped", "failed"}
    BY ServerAssumption DEF ServerOver
  <2> QED BY <2>1, <2>2, <2>3 DEF ServerOver, Server!TypeOK
<1>4. Phased
  BY <1>1, <1>2 DEF ServerOver, Phased, Reported, InTurn
<1>5. Bounded
  BY DEF ServerOver, Bounded
<1> QED BY <1>3, <1>4, <1>5 DEF ServerInv

LEMMA ServerStays == ServerInv /\ UNCHANGED lifecycle => ServerInv'
BY DEF ServerInv, Server!TypeOK, Phased, Bounded, Reported, InTurn, Idle, lifecycle,
   Server!P, Server!Ended

(* The next close hook is the last that is left. *)
LEMMA NextCloseKeeps ==
    ASSUME NEW h \in [Server!P -> {"no"} \cup Server!Ended], InTurn(h), onClose \subseteq Server!P,
           UNCHANGED onClose, Server!NextClose(h)
    PROVE  /\ phase' \in {"close", "over"}
           /\ closeHook' \in [Server!P -> {"no", "running"} \cup Server!Ended]
           /\ phase' = "over" =>
                 /\ Reported(closeHook, onClose)'
                 /\ \A p \in Server!P : closeHook'[p] # "running"
           /\ InTurn(closeHook)'
<1> USE ServerAssumption
<1> DEFINE left == {p \in onClose : h[p] = "no"}
<1>1. CASE left = {}
  <2>1. phase' = "over" /\ closeHook' = h
    BY <1>1 DEF Server!NextClose
  <2> QED BY <1>1, <2>1 DEF Reported, InTurn, Server!Ended
<1>2. CASE left # {}
  <2> DEFINE last == CHOOSE p \in left : \A q \in left : q <= p
  <2>1. \E p \in left : \A q \in left : q <= p
    <3> DEFINE S == {Plugins - p : p \in left}
    <3>0. \A p \in left : p \in Nat /\ Plugins - p \in Nat
      BY DEF Server!P
    <3>1. S \in SUBSET Nat /\ S # {}
      BY <1>2, <3>0
    <3>2. PICK x \in S : \A y \in S : x <= y
      BY <3>1, LeastOfNaturals
    <3>3. PICK p \in left : x = Plugins - p
      OBVIOUS
    <3>4. \A q \in left : Plugins - p <= Plugins - q /\ q \in Nat
      BY <3>0, <3>2, <3>3
    <3>5. \A q \in left : q <= p
      BY <3>4
    <3> QED BY <3>5
  <2>2. last \in left /\ \A q \in left : q <= last
    BY <2>1
  <2>3. phase' = "close" /\ closeHook' = [h EXCEPT ![last] = "running"]
    BY <1>2 DEF Server!NextClose
  <2> HIDE DEF last
  <2>4. closeHook' \in [Server!P -> {"no", "running"} \cup Server!Ended]
    BY <2>2, <2>3
  <2>5. InTurn(closeHook)'
    <3> SUFFICES ASSUME NEW p \in Server!P, closeHook'[p] # "no"
                 PROVE  p \in onClose /\ \A q \in onClose : q > p => closeHook'[q] \in Server!Ended
      BY DEF InTurn
    <3>1. p \in onClose
      BY <2>2, <2>3 DEF InTurn
    <3>2. ASSUME NEW q \in onClose, q > p PROVE closeHook'[q] \in Server!Ended
      <4>1. q \in Nat /\ p \in Nat /\ last \in Nat
        BY <2>2 DEF Server!P
      <4>2. CASE p = last
        <5>1. q \notin left /\ q # last
          BY <2>2, <3>2, <4>1, <4>2
        <5> QED BY <5>1, <2>3
      <4>3. CASE p # last
        <5>1. h[p] # "no" /\ h[q] \in Server!Ended /\ h[last] = "no"
          BY <2>2, <2>3, <3>2, <4>3 DEF InTurn
        <5>2. q # last
          BY <5>1 DEF Server!Ended
        <5> QED BY <5>1, <5>2, <2>3
      <4> QED BY <4>2, <4>3
    <3> QED BY <3>1, <3>2
  <2> QED BY <2>3, <2>4, <2>5
<1> QED BY <1>1, <1>2

LEMMA ServerSteps ==
    ASSUME ServerInv, Server!Next
    PROVE  ServerInv' /\ Server!NothingBegins
<1> USE ServerAssumption DEF ServerInv
<1> DEFINE Kept == ServerInv' /\ Server!NothingBegins
<1> USE DEF Server!created, Server!serving, Server!closing
<1>1. CASE Server!Register
  <2>1. UNCHANGED <<aborted, parent, setup, at, listening, server, open, cut, phase, grace,
                    shutdownHook, closeHook, forced>>
    BY <1>1 DEF Server!Register
  <2>2. phase \in {"none", "setup"} /\ at \in Server!P
    BY <1>1 DEF Server!Register, Bounded, Server!TypeOK, Server!P
  <2>3. Server!TypeOK'
    BY <1>1, <2>1, <2>2 DEF Server!Register, Server!TypeOK
  <2>4. Phased'
    BY <2>1, <2>2 DEF Phased, InTurn, Idle
  <2>5. Bounded' /\ Server!NothingBegins
    BY <2>1 DEF Bounded, Server!NothingBegins
  <2> QED BY <2>3, <2>4, <2>5
<1>15. CASE Server!SetupStarts
  <2>1. UNCHANGED <<aborted, parent, at, onShutdown, onClose, listening, server, open, cut, phase,
                    grace, shutdownHook, closeHook, forced>>
        /\ setup = "starting" /\ setup' = "running"
    BY <1>15 DEF Server!SetupStarts
  <2>2. phase \in {"none", "setup"}
    BY <2>1 DEF Bounded, Server!TypeOK
  <2>3. Server!TypeOK'
    BY <2>1 DEF Server!TypeOK
  <2>4. Phased'
    BY <2>1 DEF Phased, Reported, InTurn, Idle
  <2>5. Bounded' /\ Server!NothingBegins
    BY <2>1, <2>2 DEF Bounded, Server!NothingBegins
  <2> QED BY <2>3, <2>4, <2>5
<1>2. CASE Server!SetupSettles
  BY <1>2 DEF Server!SetupSettles, Server!P, Server!ContinueSetup, Server!TypeOK, Phased, Bounded, Reported, InTurn, Idle, Server!NothingBegins
<1>3. CASE Server!SetupFails
  BY <1>3 DEF Server!SetupFails, Server!Abort, Server!TypeOK, Phased, Bounded, Reported, InTurn, Idle, Server!NothingBegins
<1>4. CASE Server!Dispose
  BY <1>4 DEF Server!Dispose, Server!Abort, Server!TypeOK, Phased, Bounded, Reported, InTurn, Idle, Server!NothingBegins
<1>5. CASE Server!Listen
  BY <1>5 DEF Server!Listen, Server!TypeOK, Phased, Bounded, Reported, InTurn, Idle, Server!NothingBegins
<1>6. CASE Server!PortChosen
  BY <1>6 DEF Server!PortChosen, Server!TypeOK, Phased, Bounded, Reported, InTurn, Idle, Server!NothingBegins
<1>7. CASE Server!Bound
  BY <1>7 DEF Server!Bound, Server!TypeOK, Phased, Bounded, Reported, InTurn, Idle, Server!NothingBegins
<1>8. ASSUME NEW q \in Responses, Server!Arrives(q) PROVE Kept
  BY <1>8 DEF Server!Arrives, Server!TypeOK, Phased, Bounded, Reported, InTurn, Idle, Server!NothingBegins
<1>9. ASSUME NEW q \in Responses, Server!Responds(q) PROVE Kept
  <2>1. CASE phase = "drain" /\ open = {q}
    BY <1>9, <2>1, NextCloseKeeps DEF Server!Responds, Server!TypeOK, Phased, Bounded, Reported, InTurn, Idle, Server!NothingBegins
  <2>2. CASE ~(phase = "drain" /\ open = {q})
    BY <1>9, <2>2 DEF Server!Responds, Server!TypeOK, Phased, Bounded, Reported, InTurn, Idle, Server!NothingBegins
  <2> QED BY <2>1, <2>2
<1>10. CASE Server!StartHooks
  BY <1>10 DEF Server!StartHooks, Server!TypeOK, Phased, Bounded, Reported, InTurn, Idle, Server!NothingBegins
<1>11. CASE Server!StartDrain
  BY <1>11, NextCloseKeeps DEF Server!StartDrain, Server!Conclude, Server!TypeOK, Phased, Bounded, Reported, InTurn, Idle, Server!NothingBegins
<1>12. CASE Server!GracePasses
  BY <1>12, NextCloseKeeps DEF Server!GracePasses, Server!Conclude, Server!TypeOK, Phased, Bounded, Reported, InTurn, Idle, Server!NothingBegins
<1>13. CASE Server!CloseHookEnds
  <2>1. PICK p \in Server!P, how \in Server!Ended :
           closeHook[p] = "running" /\ Server!NextClose([closeHook EXCEPT ![p] = how])
    BY <1>13 DEF Server!CloseHookEnds
  <2>2. UNCHANGED <<aborted, parent, setup, at, onShutdown, onClose, listening, server, open, cut,
                    grace, shutdownHook, forced>>
    BY <1>13 DEF Server!CloseHookEnds
  <2> DEFINE h == [closeHook EXCEPT ![p] = how]
  <2>3. phase = "close"
    BY <2>1 DEF Phased
  <2>4. h \in [Server!P -> {"no"} \cup Server!Ended] /\ InTurn(h)
    <3>1. ASSUME NEW q \in Server!P, closeHook[q] = "running" PROVE q = p
      <4>1. p \in onClose /\ q \in onClose /\ p \in Nat /\ q \in Nat
        BY <2>1, <3>1 DEF Phased, InTurn, Server!P
      <4> QED BY <2>1, <3>1, <4>1 DEF Phased, InTurn, Server!Ended
    <3>2. h \in [Server!P -> {"no"} \cup Server!Ended]
      BY <3>1 DEF Server!TypeOK
    <3>3. \A q \in Server!P : h[q] = IF q = p THEN how ELSE closeHook[q]
      BY DEF Server!TypeOK
    <3>4. closeHook[p] # "no"
      BY <2>1
    <3>5. onClose \subseteq Server!P
      BY DEF Server!TypeOK
    <3>6. \A q \in Server!P : h[q] # "no" => closeHook[q] # "no"
      BY <3>3, <3>4
    <3>7. \A q \in Server!P : closeHook[q] \in Server!Ended => h[q] \in Server!Ended
      BY <3>3
    <3> QED BY <3>2, <3>5, <3>6, <3>7 DEF Phased, InTurn
  <2> HIDE DEF h
  <2>5. /\ phase' \in {"close", "over"}
        /\ closeHook' \in [Server!P -> {"no", "running"} \cup Server!Ended]
        /\ phase' = "over" =>
              /\ Reported(closeHook, onClose)'
              /\ \A q \in Server!P : closeHook'[q] # "running"
        /\ InTurn(closeHook)'
    BY <2>1, <2>2, <2>4, NextCloseKeeps DEF Server!TypeOK, h
  <2>6. Server!TypeOK'
    BY <2>2, <2>5 DEF Server!TypeOK
  <2>7. Phased'
    BY <2>2, <2>3, <2>5 DEF Phased, Reported
  <2>8. Bounded' /\ Server!NothingBegins
    BY <2>2, <2>3, <2>5 DEF Bounded, Server!NothingBegins
  <2> QED BY <2>6, <2>7, <2>8
<1>14. ASSUME NEW p \in Server!P, Server!ShutdownHookEnds(p) PROVE Kept
  BY <1>14 DEF Server!ShutdownHookEnds, Server!Ended, Server!TypeOK, Phased, Bounded, Reported, InTurn, Idle, Server!NothingBegins
<1> HIDE DEF ServerInv, Server!created, Server!serving, Server!closing
<1> QED
  BY <1>1, <1>2, <1>3, <1>4, <1>5, <1>6, <1>7, <1>8, <1>9, <1>10, <1>11, <1>12, <1>13, <1>14, <1>15
  DEF Server!Next

-----------------------------------------------------------------------------
(* The client. *)
CallState ==
    [pc : {"idle", "hop", "limited", "check", "auth", "fetch", "body", "backoff", "done"},
     attempt : 1..Attempts, redirects : 0..MaxRedirects,
     sent : Client!Sent, fetches : 0..(Attempts * (MaxRedirects + 1)),
     linked : {"none", "live", "timedOut", "aborted"}, timer : Int,
     due : Int, aborted : BOOLEAN,
     outcome : {"none", "response", "thrown", "REFUSED", "TOO_MANY_REDIRECTS",
                "RESPONSE_TOO_LARGE", "TIMEOUT", "ABORTED", "NETWORK"}]

(* A call with no fetch to come on its present hop. *)
Spent == {"fetch", "body", "backoff", "done"}

(* The request and its attempt know of every fetch there was, and so does  *)
(* the error, if there is one.                                             *)
SentFits(r) ==
    /\ call[r].sent.request <=> call[r].fetches > 0
    /\ call[r].sent.attempt <=> call[r].fetches > 0
    /\ call[r].outcome \in Client!Errors => (call[r].sent.error <=> call[r].fetches > 0)
    /\ call[r].pc # "done" => call[r].outcome = "none"
    /\ call[r].pc \in {"fetch", "body"} => call[r].fetches > 0

(* An attempt fetches once a hop; what may not be repeated has one         *)
(* attempt; the linked signal follows the caller's.                        *)
CallFits(r) ==
    /\ SentFits(r)
    /\ call[r].fetches <= (call[r].attempt - 1) * (MaxRedirects + 1) + call[r].redirects
                            + (IF call[r].pc \in Spent THEN 1 ELSE 0)
    /\ r \notin Idempotent => call[r].attempt = 1
    /\ call[r].pc = "backoff" => Client!CanRetry(r)
    /\ call[r].pc \in {"check", "auth", "fetch", "body"} => call[r].linked # "none"
    /\ call[r].linked = "live" => ~call[r].aborted
    /\ call[r].pc = "idle" => call[r].redirects = 0

(* Claims on the bucket: under 0 one that is not fetched on yet, else each *)
(* fetch by its number.  The reserved ones that are granted, or will be by *)
(* the time t.                                                             *)
Claim == Calls \X (0..(Attempts * (MaxRedirects + 1)))

Granted ==
    {e \in Claim : IF e[2] = 0 THEN call[e[1]].pc \in {"check", "auth"}
                               ELSE e[2] <= call[e[1]].fetches}

DueBy(t) ==
    Granted \cup {e \in Claim : e[2] = 0 /\ call[e[1]].pc = "limited" /\ call[e[1]].due <= t}

Reserved == Granted \cup {e \in Claim : e[2] = 0 /\ call[e[1]].pc = "limited"}

(* The bucket has been charged for every claim, and at the time a wait is  *)
(* due there is room for all that are due by then.                         *)
BucketFits ==
    /\ Cardinality(Reserved) * Per + tokens <= Client!Capacity + updated * Rate
    /\ now < Horizon => Cardinality(Granted) * Per <= Client!Capacity + now * Rate
    /\ \A q \in Calls : now < Horizon /\ call[q].pc = "limited" =>
          /\ call[q].due >= now
          /\ Cardinality(DueBy(call[q].due)) * Per <= Client!Capacity + call[q].due * Rate

ClientTyped ==
    /\ now \in 0..Horizon /\ updated \in 0..now /\ tokens \in Int /\ tokens <= Client!Capacity
    /\ call \in [Calls -> CallState]

ClientInv == ClientTyped /\ (\A r \in Calls : CallFits(r)) /\ BucketFits

-----------------------------------------------------------------------------
LEMMA ClientNumbers ==
    /\ Attempts \in Nat \ {0} /\ Rate \in Nat \ {0} /\ Per \in Nat \ {0}
    /\ MaxRedirects \in Nat /\ Timeout \in Nat /\ Horizon \in Nat
    /\ Attempts * (MaxRedirects + 1) \in Nat /\ Client!Capacity \in Nat
BY ClientAssumption DEF Client!Capacity

LEMMA MoreCostsMore ==
    ASSUME NEW m \in Nat, NEW n \in Nat, NEW k \in Nat, m <= n
    PROVE  m * k <= n * k /\ m * k \in Nat
OBVIOUS

LEMMA OneMore ==
    ASSUME NEW n \in Int, NEW k \in Nat
    PROVE  (n + 1) * k = n * k + k /\ (n - 1) * k = n * k - k /\ n * k \in Int
OBVIOUS

LEMMA ClaimFinite ==
    ASSUME NEW S \in SUBSET Claim
    PROVE  IsFiniteSet(S) /\ Cardinality(S) \in Nat
<1>1. IsFiniteSet(Claim)
  <2>1. IsFiniteSet(0..(Attempts * (MaxRedirects + 1)))
    BY ClientNumbers, FS_Interval
  <2> QED BY <2>1, ClientAssumption, FS_Product DEF Claim
<1> QED BY <1>1, FS_Subset, FS_CardinalityType

LEMMA Fewer ==
    ASSUME NEW S \in SUBSET Claim, NEW T \in SUBSET S
    PROVE  /\ Cardinality(S) \in Nat /\ Cardinality(T) \in Nat /\ Cardinality(T) <= Cardinality(S)
           /\ Cardinality(T) * Per <= Cardinality(S) * Per
           /\ Cardinality(T) * Per \in Nat /\ Cardinality(S) * Per \in Nat
<1>1. Cardinality(S) \in Nat /\ Cardinality(T) \in Nat /\ Cardinality(T) <= Cardinality(S)
  BY ClaimFinite, FS_Subset
<1> QED BY <1>1, MoreCostsMore, ClientNumbers

(* One claim more costs one token more, one less a token less, and a claim *)
(* that is exchanged for another costs the same.                           *)
LEMMA Added ==
    ASSUME NEW S \in SUBSET Claim, NEW e, NEW T \in SUBSET (S \cup {e})
    PROVE  Cardinality(T) * Per <= Cardinality(S) * Per + Per
<1>1. IsFiniteSet(S) /\ IsFiniteSet(S \cup {e}) /\ Cardinality(S) \in Nat
      /\ Cardinality(S \cup {e}) \in Nat /\ Cardinality(S \cup {e}) <= Cardinality(S) + 1
  BY ClaimFinite, FS_AddElement, FS_CardinalityType
<1>2. Cardinality(T) \in Nat /\ Cardinality(T) <= Cardinality(S) + 1
  BY <1>1, FS_Subset, FS_CardinalityType
<1>3. Cardinality(T) * Per <= (Cardinality(S) + 1) * Per
  BY <1>1, <1>2, MoreCostsMore, ClientNumbers
<1>4. (Cardinality(S) + 1) * Per = Cardinality(S) * Per + Per
  BY <1>1, OneMore, ClientNumbers
<1> QED BY <1>3, <1>4

LEMMA Removed ==
    ASSUME NEW S \in SUBSET Claim, NEW e \in S, NEW T \in SUBSET (S \ {e})
    PROVE  Cardinality(T) * Per + Per <= Cardinality(S) * Per
<1>1. IsFiniteSet(S) /\ IsFiniteSet(S \ {e}) /\ Cardinality(S) \in Nat
      /\ Cardinality(S \ {e}) \in Nat /\ Cardinality(S \ {e}) = Cardinality(S) - 1
  BY ClaimFinite, FS_RemoveElement, FS_CardinalityType
<1>2. Cardinality(T) \in Nat /\ Cardinality(T) <= Cardinality(S) - 1
  BY <1>1, FS_Subset, FS_CardinalityType
<1>3. (Cardinality(T) + 1) * Per <= Cardinality(S) * Per
  BY <1>1, <1>2, MoreCostsMore, ClientNumbers
<1>4. (Cardinality(T) + 1) * Per = Cardinality(T) * Per + Per
  BY <1>2, OneMore, ClientNumbers
<1> QED BY <1>3, <1>4

LEMMA Exchanged ==
    ASSUME NEW S \in SUBSET Claim, NEW e \in S, NEW f, NEW T \in SUBSET ((S \ {e}) \cup {f})
    PROVE  Cardinality(T) * Per <= Cardinality(S) * Per
<1>1. S \ {e} \in SUBSET Claim
  OBVIOUS
<1>2. Cardinality(T) * Per <= Cardinality(S \ {e}) * Per + Per
  BY <1>1, Added
<1>3. Cardinality(S \ {e}) * Per + Per <= Cardinality(S) * Per
  BY Removed
<1>4. Cardinality(S \ {e}) \in Nat /\ Cardinality(S) \in Nat /\ Cardinality(T) \in Nat
  <2>1. IsFiniteSet((S \ {e}) \cup {f})
    BY <1>1, ClaimFinite, FS_AddElement
  <2> QED BY <1>1, <2>1, ClaimFinite, FS_Subset, FS_CardinalityType
<1>5. Cardinality(S \ {e}) * Per \in Nat /\ Cardinality(S) * Per \in Nat /\ Cardinality(T) * Per \in Nat
  BY <1>4, ClientNumbers
<1> QED BY <1>2, <1>3, <1>5, ClientNumbers

LEMMA ClientSize == \A S : Client!Cardinality(S) = Cardinality(S)
BY DEF Client!Cardinality, Cardinality

LEMMA ClientInvRight == ClientInv => Client!TypeOK /\ Client!ClientRight
<1> SUFFICES ASSUME ClientInv PROVE Client!TypeOK /\ Client!ClientRight
  OBVIOUS
<1>1. Client!TypeOK
  BY DEF ClientInv, ClientTyped, Client!TypeOK, CallState
<1>2. Client!SentHonest
  BY DEF ClientInv, CallFits, SentFits, Client!SentHonest
<1>3. Client!RateKept
  <2>1. Client!Fetches \in SUBSET Granted
    BY ClientNumbers DEF Client!Fetches, Granted, Claim
  <2>2. Granted \in SUBSET Claim
    BY DEF Granted
  <2>3. Cardinality(Client!Fetches) * Per <= Cardinality(Granted) * Per
        /\ Cardinality(Client!Fetches) * Per \in Nat /\ Cardinality(Granted) * Per \in Nat
    BY <2>1, <2>2, Fewer
  <2>4. now * Rate \in Nat
    BY ClientNumbers DEF ClientInv, ClientTyped
  <2>5. now < Horizon => Cardinality(Granted) * Per <= Client!Capacity + now * Rate
    BY DEF ClientInv, BucketFits
  <2> HIDE DEF ClientInv
  <2>6. now < Horizon => Cardinality(Client!Fetches) * Per <= Client!Capacity + now * Rate
    BY <2>3, <2>4, <2>5, ClientNumbers
  <2> QED BY <2>6, ClientSize DEF Client!RateKept
<1>4. Client!TriedOnce
  <2> SUFFICES ASSUME NEW r \in Calls \ Idempotent PROVE call[r].fetches <= call[r].redirects + 1
    BY DEF Client!TriedOnce
  <2>1. call[r].attempt = 1 /\ call[r] \in CallState
    BY DEF ClientInv, ClientTyped, CallFits
  <2>2. (call[r].attempt - 1) * (MaxRedirects + 1) = 0
    BY <2>1, ClientNumbers
  <2> QED BY <2>1, <2>2, ClientNumbers DEF ClientInv, CallFits, CallState
<1> QED BY <1>1, <1>2, <1>3, <1>4 DEF Client!ClientRight

-----------------------------------------------------------------------------
(* A step of one call, and what it does to the claims. *)
Moves(r) ==
    /\ call' \in [Calls -> CallState]
    /\ \A q \in Calls : q # r => call'[q] = call[q]
    /\ CallFits(r)'

Rests(r) == Moves(r) /\ call'[r].fetches = call[r].fetches

Releases(r) == Rests(r) /\ call'[r].pc \notin {"limited", "check", "auth"}

(* A call that drops its claim, or keeps what it has. *)
LEMMA KeepsClaims ==
    ASSUME ClientInv, NEW r \in Calls, Rests(r), UNCHANGED <<now, tokens, updated>>,
           call'[r].pc \in {"check", "auth"} => call[r].pc \in {"check", "auth"},
           call'[r].pc = "limited" => call[r].pc = "limited" /\ call'[r].due = call[r].due
    PROVE  ClientInv'
<1> USE DEF Rests, Moves
<1>1. ClientTyped'
  BY DEF ClientInv, ClientTyped
<1>2. \A q \in Calls : CallFits(q)'
  <2> SUFFICES ASSUME NEW q \in Calls, q # r PROVE CallFits(q)'
    OBVIOUS
  <2>1. call'[q] = call[q]
    OBVIOUS
  <2> QED BY <2>1 DEF ClientInv, CallFits, SentFits, Client!CanRetry
<1>3. Granted' \subseteq Granted
  BY DEF Granted, Claim
<1>4. Reserved' \subseteq Reserved
  BY <1>3 DEF Reserved, Claim
<1>5. \A q \in Calls : call'[q].pc = "limited" =>
         call[q].pc = "limited" /\ call'[q].due = call[q].due
  OBVIOUS
<1>6. \A q \in Calls : DueBy(call[q].due)' \subseteq DueBy(call'[q].due)
  BY <1>3, <1>5 DEF DueBy, Claim
<1>7. Granted \in SUBSET Claim /\ Reserved \in SUBSET Claim /\ \A t : DueBy(t) \in SUBSET Claim
  BY DEF Granted, Reserved, DueBy
<1>8. BucketFits'
  <2>1. Cardinality(Reserved') * Per <= Cardinality(Reserved) * Per
        /\ Cardinality(Reserved') * Per \in Nat /\ Cardinality(Reserved) * Per \in Nat
    BY <1>4, <1>7, Fewer
  <2>2. Cardinality(Granted') * Per <= Cardinality(Granted) * Per
        /\ Cardinality(Granted') * Per \in Nat /\ Cardinality(Granted) * Per \in Nat
    BY <1>3, <1>7, Fewer
  <2>3. updated * Rate \in Nat /\ now * Rate \in Nat
    BY ClientNumbers DEF ClientInv, ClientTyped
  <2>4. Cardinality(Reserved') * Per + tokens' <= Client!Capacity + updated' * Rate
    BY <2>1, <2>3, ClientNumbers DEF ClientInv, ClientTyped, BucketFits
  <2>5. now' < Horizon => Cardinality(Granted') * Per <= Client!Capacity + now' * Rate
    BY <2>2, <2>3, ClientNumbers DEF ClientInv, BucketFits
  <2>6. ASSUME NEW q \in Calls, now' < Horizon, call'[q].pc = "limited"
        PROVE  /\ call'[q].due >= now'
               /\ Cardinality(DueBy(call[q].due)') * Per <= Client!Capacity + call'[q].due * Rate
    <3>1. call[q].pc = "limited" /\ call'[q].due = call[q].due /\ call[q].due \in Int
      BY <1>5, <2>6 DEF ClientInv, ClientTyped, CallState
    <3>2. call[q].due >= now /\ Cardinality(DueBy(call[q].due)) * Per <= Client!Capacity + call[q].due * Rate
      BY <3>1, <2>6 DEF ClientInv, BucketFits
    <3>3. Cardinality(DueBy(call[q].due)') * Per <= Cardinality(DueBy(call[q].due)) * Per
          /\ Cardinality(DueBy(call[q].due)') * Per \in Nat /\ Cardinality(DueBy(call[q].due)) * Per \in Nat
      BY <1>6, <1>7, <3>1, Fewer
    <3>4. call[q].due * Rate \in Int
      BY <3>1, ClientNumbers
    <3> QED BY <3>1, <3>2, <3>3, <3>4, ClientNumbers
  <2> QED BY <2>4, <2>5, <2>6 DEF BucketFits, Client!Capacity
<1> QED BY <1>1, <1>2, <1>8 DEF ClientInv

-----------------------------------------------------------------------------
(* How an attempt ends, and how it goes on. *)
Failures == {"NETWORK", "TIMEOUT", "ABORTED"}

Outcomes ==
    Failures \cup {"response", "thrown", "REFUSED", "TOO_MANY_REDIRECTS", "RESPONSE_TOO_LARGE"}

LEMMA CallNumbers ==
    ASSUME ClientInv, NEW r \in Calls
    PROVE  /\ call[r] \in CallState /\ CallFits(r)
           /\ call[r].attempt \in 1..Attempts /\ call[r].redirects \in 0..MaxRedirects
           /\ call[r].fetches \in Nat
           /\ (call[r].attempt - 1) * (MaxRedirects + 1) \in Nat
           /\ call[r].attempt * (MaxRedirects + 1)
                 = (call[r].attempt - 1) * (MaxRedirects + 1) + MaxRedirects + 1
           /\ call[r].attempt * (MaxRedirects + 1) <= Attempts * (MaxRedirects + 1)
<1>1. call[r] \in CallState /\ CallFits(r)
  BY DEF ClientInv, ClientTyped
<1>2. /\ call[r].attempt \in 1..Attempts /\ call[r].redirects \in 0..MaxRedirects
      /\ call[r].fetches \in Nat
  BY <1>1, ClientNumbers DEF CallState
<1>3. call[r].attempt \in Nat /\ call[r].attempt - 1 \in Nat /\ call[r].attempt <= Attempts
  BY <1>2, ClientNumbers
<1>4. (call[r].attempt - 1) * (MaxRedirects + 1)
        = call[r].attempt * (MaxRedirects + 1) - (MaxRedirects + 1)
  BY <1>3, OneMore, ClientNumbers
<1>5. call[r].attempt * (MaxRedirects + 1) <= Attempts * (MaxRedirects + 1)
      /\ call[r].attempt * (MaxRedirects + 1) \in Nat
  BY <1>3, MoreCostsMore, ClientNumbers
<1>6. (call[r].attempt - 1) * (MaxRedirects + 1) \in Nat
  BY <1>3, MoreCostsMore, ClientNumbers
<1> QED BY <1>1, <1>2, <1>4, <1>5, <1>6, ClientNumbers

LEMMA FieldsSet ==
    ASSUME NEW c \in CallState
    PROVE  /\ \A x \in {"idle", "hop", "limited", "check", "auth", "fetch", "body", "backoff", "done"} :
                 [c EXCEPT !.pc = x] \in CallState
           /\ \A x \in Outcomes : [c EXCEPT !.outcome = x] \in CallState
           /\ \A x \in {"none", "live", "timedOut", "aborted"} : [c EXCEPT !.linked = x] \in CallState
           /\ \A x \in Int : [c EXCEPT !.timer = x] \in CallState /\ [c EXCEPT !.due = x] \in CallState
           /\ \A x \in 1..Attempts : [c EXCEPT !.attempt = x] \in CallState
           /\ \A x \in 0..MaxRedirects : [c EXCEPT !.redirects = x] \in CallState
           /\ \A x \in 0..(Attempts * (MaxRedirects + 1)) : [c EXCEPT !.fetches = x] \in CallState
           /\ \A x \in BOOLEAN : [c EXCEPT !.aborted = x] \in CallState
BY DEF CallState, Outcomes, Failures

LEMMA SentFieldsSet ==
    ASSUME NEW c \in CallState, NEW x \in BOOLEAN
    PROVE  /\ [c EXCEPT !.sent.request = x] \in CallState
           /\ [c EXCEPT !.sent.attempt = x] \in CallState
           /\ [c EXCEPT !.sent.error = x] \in CallState
<1>1. c.sent \in Client!Sent
  BY DEF CallState
<1>2. \A y \in Client!Sent : [c EXCEPT !.sent = y] \in CallState
  BY DEF CallState
<1>3. /\ [c.sent EXCEPT !.request = x] \in Client!Sent
      /\ [c.sent EXCEPT !.attempt = x] \in Client!Sent
      /\ [c.sent EXCEPT !.error = x] \in Client!Sent
  BY <1>1 DEF Client!Sent
<1> QED BY <1>2, <1>3

(* A step that ends no call and starts no fetch notes nothing down. *)
LEMMA SentStays ==
    ASSUME NEW r \in Calls, SentFits(r),
           call'[r].sent = call[r].sent, call'[r].fetches = call[r].fetches,
           call'[r].outcome = call[r].outcome,
           call[r].pc = "done" => call'[r].pc = "done",
           call'[r].pc \in {"fetch", "body"} => call[r].pc \in {"fetch", "body"}
    PROVE  SentFits(r)'
BY DEF SentFits

LEMMA FinishReleases ==
    ASSUME ClientInv, NEW r \in Calls, NEW code \in Outcomes, NEW said \in BOOLEAN,
           code \in Client!Errors => (said <=> call[r].fetches > 0),
           Client!Finish(r, code, said)
    PROVE  Releases(r)
<1>1. call \in [Calls -> CallState] /\ CallFits(r)
  BY DEF ClientInv, ClientTyped
<1>2. call' \in [Calls -> CallState]
  <2> DEFINE a == [call[r] EXCEPT !.pc = "done"]
             b == [a EXCEPT !.outcome = code]
             s == [b EXCEPT !.sent.error = said]
             c == [s EXCEPT !.linked = "none"]
             d == [c EXCEPT !.timer = Client!None]
             e == [d EXCEPT !.due = Client!None]
  <2>1. call' = [call EXCEPT ![r] = e]
    BY DEF Client!Finish
  <2>0. Client!None \in Int
    BY DEF Client!None
  <2>2. a \in CallState
    BY <1>1, FieldsSet
  <2> HIDE DEF a
  <2>3. b \in CallState
    BY <2>2, FieldsSet
  <2> HIDE DEF b
  <2>7. s \in CallState
    BY <2>3, SentFieldsSet
  <2> HIDE DEF s
  <2>4. c \in CallState
    BY <2>7, FieldsSet
  <2> HIDE DEF c
  <2>5. d \in CallState
    BY <2>0, <2>4, FieldsSet
  <2> HIDE DEF d
  <2>6. e \in CallState
    BY <2>0, <2>5, FieldsSet
  <2> HIDE DEF e
  <2> QED BY <1>1, <2>1, <2>6
<1>3. /\ \A q \in Calls : q # r => call'[q] = call[q]
      /\ call'[r].pc = "done" /\ call'[r].linked = "none" /\ call'[r].outcome = code
      /\ call'[r].attempt = call[r].attempt /\ call'[r].redirects = call[r].redirects
      /\ call'[r].sent = [call[r].sent EXCEPT !.error = said]
      /\ call'[r].fetches = call[r].fetches
  BY <1>1 DEF Client!Finish, CallState
<1>5. /\ call'[r].sent.request = call[r].sent.request
      /\ call'[r].sent.attempt = call[r].sent.attempt /\ call'[r].sent.error = said
  BY <1>1, <1>3 DEF CallState, Client!Sent
<1>6. SentFits(r)'
  BY <1>1, <1>3, <1>5 DEF CallFits, SentFits
<1>4. CallFits(r)'
  BY <1>1, <1>3, <1>6, CallNumbers, ClientNumbers DEF CallFits, Spent
<1> QED BY <1>2, <1>3, <1>4 DEF Releases, Rests, Moves

LEMMA WaitReleases ==
    ASSUME ClientInv, NEW r \in Calls, call[r].pc # "done", Client!CanRetry(r), Client!Wait(r)
    PROVE  Releases(r)
<1>1. CASE call[r].aborted
  <2>1. /\ call[r].sent.request \in BOOLEAN
        /\ call[r].sent.request <=> call[r].fetches > 0
    BY CallNumbers DEF CallState, Client!Sent, CallFits, SentFits
  <2> QED BY <1>1, <2>1, FinishReleases DEF Client!Wait, Outcomes, Failures
<1>2. CASE ~call[r].aborted
  <2>1. call \in [Calls -> CallState] /\ CallFits(r) /\ now \in Nat
    BY ClientNumbers DEF ClientInv, ClientTyped
  <2>2. PICK d \in Delays :
           call' = [call EXCEPT ![r].pc = "backoff", ![r].due = now + d,
                                ![r].linked = "none", ![r].timer = Client!None]
    BY <1>2 DEF Client!Wait
  <2>3. d \in Nat
    BY ClientAssumption
  <2>4. call' \in [Calls -> CallState]
    <3> DEFINE a == [call[r] EXCEPT !.pc = "backoff"]
               b == [a EXCEPT !.due = now + d]
               c == [b EXCEPT !.linked = "none"]
               e == [c EXCEPT !.timer = Client!None]
    <3>1. call' = [call EXCEPT ![r] = e]
      BY <2>2
    <3>0. Client!None \in Int /\ now + d \in Int
      BY <2>1, <2>3 DEF Client!None
    <3>2. a \in CallState
      BY <2>1, FieldsSet
    <3> HIDE DEF a
    <3>3. b \in CallState
      BY <3>0, <3>2, FieldsSet
    <3> HIDE DEF b
    <3>4. c \in CallState
      BY <3>3, FieldsSet
    <3> HIDE DEF c
    <3>5. e \in CallState
      BY <3>0, <3>4, FieldsSet
    <3> HIDE DEF e
    <3> QED BY <2>1, <3>1, <3>5
  <2>5. /\ \A q \in Calls : q # r => call'[q] = call[q]
        /\ call'[r].pc = "backoff" /\ call'[r].linked = "none"
        /\ call'[r].attempt = call[r].attempt /\ call'[r].redirects = call[r].redirects
        /\ call'[r].sent = call[r].sent /\ call'[r].fetches = call[r].fetches
        /\ call'[r].outcome = call[r].outcome
    BY <2>1, <2>2 DEF CallState
  <2>7. SentFits(r)'
    BY <2>1, <2>5, SentStays DEF CallFits
  <2>6. CallFits(r)'
    BY <2>1, <2>5, <2>7, CallNumbers, ClientNumbers DEF CallFits, Spent, Client!CanRetry
  <2> QED BY <2>4, <2>5, <2>6 DEF Releases, Rests, Moves
<1> QED BY <1>1, <1>2

LEMMA FailReleases ==
    ASSUME ClientInv, NEW r \in Calls, call[r].pc # "done", NEW code \in Failures,
           NEW said \in BOOLEAN, said <=> call[r].fetches > 0, Client!Fail(r, code, said)
    PROVE  Releases(r)
BY FinishReleases, WaitReleases DEF Client!Fail, Outcomes

LEMMA CodeIsFailure ==
    ASSUME NEW r \in Calls PROVE Client!CodeOf(r) \in Failures
BY DEF Client!CodeOf, Failures

LEMMA FailureReleases ==
    ASSUME ClientInv, NEW r \in Calls, call[r].pc # "done", Client!Failure(r)
    PROVE  Releases(r)
<1>1. call[r].sent.attempt \in BOOLEAN /\ (call[r].sent.attempt <=> call[r].fetches > 0)
  BY CallNumbers DEF CallState, Client!Sent, CallFits, SentFits
<1> QED BY <1>1, CodeIsFailure, FailReleases DEF Client!Failure

(* A call whose wait is over claims what it reserved, or gives up. *)
LEMMA TimerStarts ==
    ASSUME ClientInv, NEW r \in Calls, call[r].pc \in {"hop", "limited"}, Client!StartTimer(r)
    PROVE  Rests(r) /\ call'[r].pc # "limited"
<1> DEFINE linked == IF call[r].linked # "none" THEN call[r].linked
                     ELSE IF call[r].aborted THEN "aborted" ELSE "live"
           timer == IF call[r].linked = "none" THEN now + Timeout ELSE call[r].timer
<1>1. call \in [Calls -> CallState] /\ CallFits(r) /\ now \in Nat
  BY ClientNumbers DEF ClientInv, ClientTyped
<1>2. CASE linked = "live"
  <2>1. call' = [call EXCEPT ![r].pc = "check", ![r].linked = linked, ![r].timer = timer,
                             ![r].due = Client!None]
    BY <1>2 DEF Client!StartTimer
  <2>2. timer \in Int /\ ~call[r].aborted
    BY <1>1, <1>2, ClientNumbers DEF CallState, CallFits
  <2> HIDE DEF timer, linked
  <2>3. call' \in [Calls -> CallState]
    <3> DEFINE a == [call[r] EXCEPT !.pc = "check"]
               b == [a EXCEPT !.linked = linked]
               c == [b EXCEPT !.timer = timer]
               e == [c EXCEPT !.due = Client!None]
    <3>1. call' = [call EXCEPT ![r] = e]
      BY <2>1
    <3>0. Client!None \in Int
      BY DEF Client!None
    <3>2. a \in CallState
      BY <1>1, FieldsSet
    <3> HIDE DEF a
    <3>3. b \in CallState
      BY <1>2, <3>2, FieldsSet
    <3> HIDE DEF b
    <3>4. c \in CallState
      BY <2>2, <3>3, FieldsSet
    <3> HIDE DEF c
    <3>5. e \in CallState
      BY <3>0, <3>4, FieldsSet
    <3> HIDE DEF e
    <3> QED BY <1>1, <3>1, <3>5
  <2>4. /\ \A q \in Calls : q # r => call'[q] = call[q]
        /\ call'[r].pc = "check" /\ call'[r].linked = "live" /\ call'[r].aborted = call[r].aborted
        /\ call'[r].attempt = call[r].attempt /\ call'[r].redirects = call[r].redirects
        /\ call'[r].sent = call[r].sent /\ call'[r].fetches = call[r].fetches
        /\ call'[r].outcome = call[r].outcome
    BY <1>1, <1>2, <2>1 DEF CallState
  <2>6. SentFits(r)'
    BY <1>1, <2>4, SentStays DEF CallFits
  <2>5. CallFits(r)'
    BY <1>1, <2>2, <2>4, <2>6, CallNumbers, ClientNumbers DEF CallFits, Spent
  <2> QED BY <2>3, <2>4, <2>5 DEF Rests, Moves
<1>3. CASE linked # "live"
  <2>1. Client!Fail(r, IF linked = "timedOut" THEN "TIMEOUT" ELSE "ABORTED", call[r].sent.attempt)
    BY <1>3 DEF Client!StartTimer
  <2>2. call[r].sent.attempt \in BOOLEAN /\ (call[r].sent.attempt <=> call[r].fetches > 0)
    BY <1>1 DEF CallState, Client!Sent, CallFits, SentFits
  <2> QED BY <2>1, <2>2, FailReleases DEF Releases, Failures
<1> QED BY <1>2, <1>3

(* What both claim sets are made of. *)
LEMMA ClaimSets ==
    /\ Granted \in SUBSET Claim /\ Reserved \in SUBSET Claim
    /\ Granted \subseteq Reserved
    /\ \A t : DueBy(t) \in SUBSET Claim /\ Granted \subseteq DueBy(t) /\ DueBy(t) \subseteq Reserved
BY DEF Granted, Reserved, DueBy

LEMMA BucketNumbers ==
    ASSUME ClientInv
    PROVE  /\ now \in Nat /\ updated \in Nat /\ updated <= now /\ tokens \in Int
           /\ now * Rate \in Nat /\ updated * Rate \in Nat
           /\ Cardinality(Reserved) * Per \in Nat /\ Cardinality(Granted) * Per \in Nat
           /\ \A t : Cardinality(DueBy(t)) * Per \in Nat
<1>1. now \in Nat /\ updated \in Nat /\ updated <= now /\ tokens \in Int
  BY ClientNumbers DEF ClientInv, ClientTyped
<1>2. now * Rate \in Nat /\ updated * Rate \in Nat
  BY <1>1, ClientNumbers
<1>3. \A S \in SUBSET Claim : Cardinality(S) * Per \in Nat
  BY ClaimFinite, ClientNumbers
<1> QED BY <1>1, <1>2, <1>3, ClaimSets

LEMMA OthersFit ==
    ASSUME ClientInv, NEW r \in Calls, Moves(r)
    PROVE  \A q \in Calls : CallFits(q)'
<1> SUFFICES ASSUME NEW q \in Calls, q # r PROVE CallFits(q)'
  BY DEF Moves
<1>1. call'[q] = call[q]
  BY DEF Moves
<1> QED BY <1>1 DEF ClientInv, CallFits, SentFits, Client!CanRetry

(* Membership, claim by claim. *)
LEMMA ClaimByClaim ==
    ASSUME NEW S \in SUBSET Claim, NEW T,
           \A q \in Calls, k \in 0..(Attempts * (MaxRedirects + 1)) : <<q, k>> \in S => <<q, k>> \in T
    PROVE  S \subseteq T
BY DEF Claim

LEMMA InSets ==
    ASSUME NEW q \in Calls, NEW k \in 0..(Attempts * (MaxRedirects + 1))
    PROVE  /\ <<q, k>> \in Granted <=>
                 IF k = 0 THEN call[q].pc \in {"check", "auth"} ELSE k <= call[q].fetches
           /\ <<q, k>> \in Reserved <=>
                 IF k = 0 THEN call[q].pc \in {"check", "auth", "limited"} ELSE k <= call[q].fetches
           /\ \A t : <<q, k>> \in DueBy(t) <=>
                 IF k = 0 THEN \/ call[q].pc \in {"check", "auth"}
                               \/ call[q].pc = "limited" /\ call[q].due <= t
                          ELSE k <= call[q].fetches
BY DEF Granted, Reserved, DueBy, Claim

LEMMA InSetsNext ==
    ASSUME NEW q \in Calls, NEW k \in 0..(Attempts * (MaxRedirects + 1))
    PROVE  /\ <<q, k>> \in Granted' <=>
                 IF k = 0 THEN call'[q].pc \in {"check", "auth"} ELSE k <= call'[q].fetches
           /\ <<q, k>> \in Reserved' <=>
                 IF k = 0 THEN call'[q].pc \in {"check", "auth", "limited"} ELSE k <= call'[q].fetches
           /\ \A p : <<q, k>> \in DueBy(call[p].due)' <=>
                 IF k = 0 THEN \/ call'[q].pc \in {"check", "auth"}
                               \/ call'[q].pc = "limited" /\ call'[q].due <= call'[p].due
                          ELSE k <= call'[q].fetches
BY DEF Granted, Reserved, DueBy, Claim

LEMMA ClaimSetsNext ==
    /\ Granted' \in SUBSET Claim /\ Reserved' \in SUBSET Claim /\ Granted' \subseteq Reserved'
    /\ \A p : DueBy(call[p].due)' \in SUBSET Claim /\ DueBy(call[p].due)' \subseteq Reserved'
BY DEF Granted, Reserved, DueBy, Claim

(* A fetch takes the place of the claim it starts on. *)
LEMMA FetchClaims ==
    ASSUME NEW r \in Calls, call[r].pc = "auth", call'[r].pc = "fetch",
           call'[r].fetches = call[r].fetches + 1, call[r].fetches \in Nat,
           call[r].fetches + 1 \in 1..(Attempts * (MaxRedirects + 1)),
           \A q \in Calls : q # r => call'[q] = call[q]
    PROVE  LET old == <<r, 0>>
               new == <<r, call[r].fetches + 1>>
           IN  /\ Granted' \subseteq (Granted \ {old}) \cup {new}
               /\ Reserved' \subseteq (Reserved \ {old}) \cup {new}
               /\ \A p \in Calls :
                     DueBy(call[p].due)' \subseteq (DueBy(call'[p].due) \ {old}) \cup {new}
<1> DEFINE n == call[r].fetches + 1
           old == <<r, 0>>
           new == <<r, n>>
<1>1. Granted' \subseteq (Granted \ {old}) \cup {new}
  <2> DEFINE T == (Granted \ {old}) \cup {new}
  <2>1. ASSUME NEW q \in Calls, NEW k \in 0..(Attempts * (MaxRedirects + 1)),
               <<q, k>> \in Granted'
        PROVE  <<q, k>> \in T
    BY <2>1, InSets, InSetsNext
  <2> HIDE DEF T
  <2>2. Granted' \in SUBSET Claim
    BY ClaimSetsNext
  <2>3. Granted' \subseteq T
    BY <2>1, <2>2, ClaimByClaim
  <2> QED BY <2>3 DEF T
<1>2. Reserved' \subseteq (Reserved \ {old}) \cup {new}
  <2> DEFINE T == (Reserved \ {old}) \cup {new}
  <2>1. ASSUME NEW q \in Calls, NEW k \in 0..(Attempts * (MaxRedirects + 1)),
               <<q, k>> \in Reserved'
        PROVE  <<q, k>> \in T
    BY <2>1, InSets, InSetsNext
  <2> HIDE DEF T
  <2>2. Reserved' \in SUBSET Claim
    BY ClaimSetsNext
  <2>3. Reserved' \subseteq T
    BY <2>1, <2>2, ClaimByClaim
  <2> QED BY <2>3 DEF T
<1>3. ASSUME NEW p \in Calls
      PROVE  DueBy(call[p].due)' \subseteq (DueBy(call'[p].due) \ {old}) \cup {new}
  <2> DEFINE T == (DueBy(call'[p].due) \ {old}) \cup {new}
  <2>1. ASSUME NEW q \in Calls, NEW k \in 0..(Attempts * (MaxRedirects + 1)),
               <<q, k>> \in DueBy(call[p].due)'
        PROVE  <<q, k>> \in T
    BY <2>1, InSets, InSetsNext
  <2> HIDE DEF T
  <2>2. DueBy(call[p].due)' \in SUBSET Claim
    BY ClaimSetsNext
  <2>3. DueBy(call[p].due)' \subseteq T
    BY <2>1, <2>2, ClaimByClaim
  <2> QED BY <2>3 DEF T
<1> QED BY <1>1, <1>2, <1>3

(* A fetch starts on a claim that was granted, and no other way. *)
LEMMA FetchStarts ==
    ASSUME ClientInv, NEW r \in Calls, call[r].pc = "auth", ~Client!Signalled(r),
           call' = [call EXCEPT ![r].pc = "fetch", ![r].fetches = @ + 1,
                                ![r].sent.request = TRUE, ![r].sent.attempt = TRUE],
           UNCHANGED <<now, tokens, updated>>
    PROVE  ClientInv' /\ call[r].linked = "live" /\ ~call[r].aborted
           /\ \A q \in Calls : q # r => call'[q] = call[q]
<1> DEFINE n == call[r].fetches + 1
<1>0. call \in [Calls -> CallState] /\ CallFits(r)
  BY DEF ClientInv, ClientTyped
<1>1. call[r].linked = "live" /\ ~call[r].aborted
  BY <1>0 DEF Client!Signalled, CallFits, CallState
<1>2. n \in 1..(Attempts * (MaxRedirects + 1))
  BY <1>0, CallNumbers, ClientNumbers DEF CallFits, Spent
<1>3. call' \in [Calls -> CallState]
  <2> DEFINE a == [call[r] EXCEPT !.pc = "fetch"]
             b == [a EXCEPT !.fetches = n]
             d == [b EXCEPT !.sent.request = TRUE]
             c == [d EXCEPT !.sent.attempt = TRUE]
  <2>1. call' = [call EXCEPT ![r] = c]
    OBVIOUS
  <2>2. a \in CallState
    BY <1>0, FieldsSet
  <2> HIDE DEF a
  <2>4. n \in 0..(Attempts * (MaxRedirects + 1))
    BY <1>2, ClientNumbers
  <2>3. b \in CallState
    BY <2>2, <2>4, FieldsSet
  <2> HIDE DEF b
  <2>6. d \in CallState
    BY <2>3, SentFieldsSet
  <2> HIDE DEF d
  <2>5. c \in CallState
    BY <2>6, SentFieldsSet
  <2> HIDE DEF c
  <2> QED BY <1>0, <2>1, <2>5
<1>4. /\ \A q \in Calls : q # r => call'[q] = call[q]
      /\ call'[r].pc = "fetch" /\ call'[r].fetches = n
      /\ call'[r].sent = [[call[r].sent EXCEPT !.request = TRUE] EXCEPT !.attempt = TRUE]
      /\ call'[r].attempt = call[r].attempt /\ call'[r].redirects = call[r].redirects
      /\ call'[r].linked = call[r].linked /\ call'[r].aborted = call[r].aborted
      /\ call'[r].outcome = call[r].outcome
  BY <1>0 DEF CallState
<1>12. SentFits(r)'
  <2>1. call'[r].sent.request /\ call'[r].sent.attempt
    BY <1>0, <1>4 DEF CallState, Client!Sent
  <2>2. call'[r].fetches > 0 /\ call'[r].outcome = "none"
    BY <1>0, <1>2, <1>4, ClientNumbers DEF CallFits, SentFits
  <2> QED BY <1>4, <2>1, <2>2 DEF SentFits, Client!Errors
<1>5. Moves(r)
  BY <1>0, <1>1, <1>3, <1>4, <1>2, <1>12, CallNumbers, ClientNumbers DEF Moves, CallFits, Spent
<1>6. ClientTyped'
  BY <1>3 DEF ClientInv, ClientTyped
<1> DEFINE old == <<r, 0>>
           new == <<r, n>>
<1>7. old \in Granted
  BY ClientNumbers DEF Granted, Claim
<1>13. /\ Granted' \subseteq (Granted \ {old}) \cup {new}
       /\ Reserved' \subseteq (Reserved \ {old}) \cup {new}
       /\ \A p \in Calls : DueBy(call[p].due)' \subseteq (DueBy(call'[p].due) \ {old}) \cup {new}
  BY <1>2, <1>4, CallNumbers, FetchClaims
<1>8. Granted' \subseteq (Granted \ {old}) \cup {new}
  BY <1>13
<1>9. Reserved' \subseteq (Reserved \ {old}) \cup {new}
  BY <1>13
<1>10. ASSUME NEW p \in Calls
       PROVE  DueBy(call[p].due)' \subseteq (DueBy(call'[p].due) \ {old}) \cup {new}
  BY <1>13
<1>11. BucketFits'
  <2>1. Cardinality(Reserved') * Per <= Cardinality(Reserved) * Per
    BY <1>7, <1>9, ClaimSets, Exchanged
  <2>2. Cardinality(Granted') * Per <= Cardinality(Granted) * Per
    BY <1>7, <1>8, ClaimSets, Exchanged
  <2>3. \A S \in SUBSET Claim : Cardinality(S) * Per \in Nat
    BY ClaimFinite, ClientNumbers
  <2>4. Reserved' \in SUBSET Claim /\ Granted' \in SUBSET Claim
    BY DEF Reserved, Granted, Claim
  <2>5. Cardinality(Reserved') * Per + tokens' <= Client!Capacity + updated' * Rate
    BY <2>1, <2>3, <2>4, BucketNumbers, ClientNumbers DEF ClientInv, BucketFits
  <2>6. now' < Horizon => Cardinality(Granted') * Per <= Client!Capacity + now' * Rate
    BY <2>2, <2>3, <2>4, BucketNumbers, ClientNumbers DEF ClientInv, BucketFits
  <2>7. ASSUME NEW q \in Calls, now' < Horizon, call'[q].pc = "limited"
        PROVE  /\ call'[q].due >= now'
               /\ Cardinality(DueBy(call[q].due)') * Per <= Client!Capacity + call'[q].due * Rate
    <3>1. q # r /\ call'[q] = call[q] /\ call[q].pc = "limited" /\ call[q].due \in Int
      BY <1>0, <1>4, <2>7 DEF CallState
    <3>2. call[q].due >= now /\ Cardinality(DueBy(call[q].due)) * Per <= Client!Capacity + call[q].due * Rate
      BY <3>1, <2>7 DEF ClientInv, BucketFits
    <3>3. Cardinality(DueBy(call[q].due)') * Per <= Cardinality(DueBy(call[q].due)) * Per
      BY <1>7, <1>10, <3>1, ClaimSets, Exchanged
    <3>4. DueBy(call[q].due)' \in SUBSET Claim
      BY DEF DueBy, Granted, Claim
    <3>5. Cardinality(DueBy(call[q].due)') * Per \in Nat /\ Cardinality(DueBy(call[q].due)) * Per \in Nat
      BY <3>4, <2>3, ClaimSets
    <3>6. call[q].due * Rate \in Int
      BY <3>1, ClientNumbers
    <3> QED BY <3>1, <3>2, <3>3, <3>5, <3>6, ClientNumbers
  <2> QED BY <2>5, <2>6, <2>7 DEF BucketFits, Client!Capacity
<1> QED BY <1>1, <1>4, <1>5, <1>6, <1>11, OthersFit DEF ClientInv

-----------------------------------------------------------------------------
(* What a step of a call that starts no fetch makes of the claims. *)
LEMMA ClaimsMove ==
    ASSUME ClientInv, NEW r \in Calls, Rests(r)
    PROVE  /\ Reserved' \subseteq Reserved \cup {<<r, 0>>}
           /\ call'[r].pc \notin {"check", "auth", "limited"} => Reserved' \subseteq Reserved \ {<<r, 0>>}
           /\ call[r].pc = "limited" =>
                 Reserved' \subseteq Reserved /\ Granted' \subseteq DueBy(call[r].due)
           /\ call'[r].pc \notin {"check", "auth"} => Granted' \subseteq Granted
           /\ \A p \in Calls :
                 /\ p # r
                 /\ \/ call'[r].pc \notin {"check", "auth", "limited"}
                    \/ call'[r].pc = "limited" /\ ~(call'[r].due <= call[p].due)
                    \/ call[r].pc = "limited" /\ call[r].due <= call[p].due
                 => DueBy(call[p].due)' \subseteq DueBy(call'[p].due)
<1>0. /\ \A q \in Calls : q # r => call'[q] = call[q]
      /\ call'[r].fetches = call[r].fetches /\ call[r].due <= call[r].due
  BY CallNumbers DEF Rests, Moves, CallState
<1>1. Reserved' \subseteq Reserved \cup {<<r, 0>>}
  <2> DEFINE T == Reserved \cup {<<r, 0>>}
  <2>1. ASSUME NEW q \in Calls, NEW k \in 0..(Attempts * (MaxRedirects + 1)), <<q, k>> \in Reserved'
        PROVE  <<q, k>> \in T
    BY <2>1, <1>0, InSets, InSetsNext
  <2> HIDE DEF T
  <2>2. Reserved' \in SUBSET Claim
    BY ClaimSetsNext
  <2>3. Reserved' \subseteq T
    BY <2>1, <2>2, ClaimByClaim
  <2> QED BY <2>3 DEF T
<1>2. ASSUME call'[r].pc \notin {"check", "auth", "limited"} PROVE Reserved' \subseteq Reserved \ {<<r, 0>>}
  <2> DEFINE T == Reserved \ {<<r, 0>>}
  <2>1. ASSUME NEW q \in Calls, NEW k \in 0..(Attempts * (MaxRedirects + 1)), <<q, k>> \in Reserved'
        PROVE  <<q, k>> \in T
    BY <2>1, <1>0, <1>2, InSets, InSetsNext
  <2> HIDE DEF T
  <2>2. Reserved' \in SUBSET Claim
    BY ClaimSetsNext
  <2>3. Reserved' \subseteq T
    BY <2>1, <2>2, ClaimByClaim
  <2> QED BY <2>3 DEF T
<1>3. ASSUME call[r].pc = "limited" PROVE Reserved' \subseteq Reserved
  <2> DEFINE T == Reserved
  <2>1. ASSUME NEW q \in Calls, NEW k \in 0..(Attempts * (MaxRedirects + 1)), <<q, k>> \in Reserved'
        PROVE  <<q, k>> \in T
    BY <2>1, <1>0, <1>3, InSets, InSetsNext
  <2> HIDE DEF T
  <2>2. Reserved' \in SUBSET Claim
    BY ClaimSetsNext
  <2>3. Reserved' \subseteq T
    BY <2>1, <2>2, ClaimByClaim
  <2> QED BY <2>3 DEF T
<1>4. ASSUME call[r].pc = "limited" PROVE Granted' \subseteq DueBy(call[r].due)
  <2> DEFINE T == DueBy(call[r].due)
  <2>1. ASSUME NEW q \in Calls, NEW k \in 0..(Attempts * (MaxRedirects + 1)), <<q, k>> \in Granted'
        PROVE  <<q, k>> \in T
    BY <2>1, <1>0, <1>4, InSets, InSetsNext
  <2> HIDE DEF T
  <2>2. Granted' \in SUBSET Claim
    BY ClaimSetsNext
  <2>3. Granted' \subseteq T
    BY <2>1, <2>2, ClaimByClaim
  <2> QED BY <2>3 DEF T
<1>5. ASSUME call'[r].pc \notin {"check", "auth"} PROVE Granted' \subseteq Granted
  <2> DEFINE T == Granted
  <2>1. ASSUME NEW q \in Calls, NEW k \in 0..(Attempts * (MaxRedirects + 1)), <<q, k>> \in Granted'
        PROVE  <<q, k>> \in T
    BY <2>1, <1>0, <1>5, InSets, InSetsNext
  <2> HIDE DEF T
  <2>2. Granted' \in SUBSET Claim
    BY ClaimSetsNext
  <2>3. Granted' \subseteq T
    BY <2>1, <2>2, ClaimByClaim
  <2> QED BY <2>3 DEF T
<1>6. ASSUME NEW p \in Calls, p # r,
             \/ call'[r].pc \notin {"check", "auth", "limited"}
             \/ call'[r].pc = "limited" /\ ~(call'[r].due <= call[p].due)
             \/ call[r].pc = "limited" /\ call[r].due <= call[p].due
      PROVE DueBy(call[p].due)' \subseteq DueBy(call'[p].due)
  <2> DEFINE T == DueBy(call'[p].due)
  <2>1. ASSUME NEW q \in Calls, NEW k \in 0..(Attempts * (MaxRedirects + 1)), <<q, k>> \in DueBy(call[p].due)'
        PROVE  <<q, k>> \in T
    BY <2>1, <1>0, <1>6, InSets, InSetsNext
  <2> HIDE DEF T
  <2>2. DueBy(call[p].due)' \in SUBSET Claim
    BY ClaimSetsNext
  <2>3. DueBy(call[p].due)' \subseteq T
    BY <2>1, <2>2, ClaimByClaim
  <2> QED BY <2>3 DEF T
<1> QED BY <1>1, <1>2, <1>3, <1>4, <1>5, <1>6

-----------------------------------------------------------------------------
(* A reservation may make the tokens negative; the wait is long enough for *)
(* them to come back.                                                      *)
LEMMA DelayCovers ==
    ASSUME NEW left \in Int
    PROVE  LET delay == (Rate - 1 - left) \div Rate
           IN  delay \in Int /\ delay * Rate >= 0 - left /\ (delay <= 0 => left >= 0)
<1> DEFINE delay == (Rate - 1 - left) \div Rate
<1>1. Rate \in Nat /\ Rate > 0
  BY ClientNumbers
<1>2. delay \in Int /\ Rate * delay <= Rate - 1 - left /\ Rate - 1 - left < Rate * delay + Rate
  BY <1>1
<1>3. Rate * delay = delay * Rate /\ delay * Rate \in Int
  BY <1>1, <1>2
<1> HIDE DEF delay
<1>4. delay * Rate >= 0 - left
  BY <1>1, <1>2, <1>3
<1>5. ASSUME delay <= 0 PROVE left >= 0
  <2>1. delay * Rate <= 0
    BY <1>1, <1>2, <1>5
  <2> QED BY <1>4, <2>1, <1>3
<1> QED BY <1>2, <1>4, <1>5 DEF delay

LEMMA HopKeeps ==
    ASSUME ClientInv, NEW r \in Calls, Client!Hop(r)
    PROVE  ClientInv' /\ Rests(r)
<1> DEFINE left == Client!Min2(Client!Capacity, tokens + (now - updated) * Rate) - Per
           delay == (Rate - 1 - left) \div Rate
<1>0. call[r].pc = "hop" /\ UNCHANGED now
  BY DEF Client!Hop
<1>1. CASE Client!Signalled(r)
  <2>1. Client!Failure(r) /\ UNCHANGED <<now, tokens, updated>>
    BY <1>1 DEF Client!Hop
  <2>2. Releases(r)
    BY <1>0, <2>1, FailureReleases
  <2> QED BY <2>1, <2>2, KeepsClaims DEF Releases
<1>2. CASE ~Client!Signalled(r)
  <2>1. tokens' = left /\ updated' = now
    BY <1>2 DEF Client!Hop
  <2>2. /\ left \in Int /\ left <= Client!Capacity
        /\ left <= tokens + (now * Rate - updated * Rate) - Per
    <3>1. (now - updated) * Rate = now * Rate - updated * Rate
      BY BucketNumbers, ClientNumbers
    <3> QED BY <3>1, BucketNumbers, ClientNumbers DEF Client!Min2
  <2>3. delay \in Int /\ delay * Rate >= 0 - left /\ (delay <= 0 => left >= 0)
    BY <2>2, DelayCovers
  <2> HIDE DEF left, delay
  <2>4. ASSUME Rests(r)
        PROVE  Cardinality(Reserved') * Per + left <= Client!Capacity + now * Rate
               /\ Cardinality(Reserved') * Per \in Nat
    <3>1. Cardinality(Reserved') * Per <= Cardinality(Reserved) * Per + Per
      BY <2>4, ClaimsMove, ClaimSets, Added
    <3>2. Cardinality(Reserved') * Per \in Nat
      BY ClaimSetsNext, ClaimFinite, ClientNumbers
    <3>3. Cardinality(Reserved) * Per + tokens <= Client!Capacity + updated * Rate
      BY DEF ClientInv, BucketFits
    <3> QED BY <2>2, <3>1, <3>2, <3>3, BucketNumbers, ClientNumbers
  <2>5. ASSUME Rests(r) PROVE ClientTyped'
    BY <2>1, <2>2, <2>5, <1>0, BucketNumbers, ClientNumbers
    DEF ClientInv, ClientTyped, Rests, Moves, Client!Capacity
  <2>6. \A p \in Calls : call[p].due \in Int
    BY CallNumbers DEF CallState
  <2>7. CASE delay <= 0
    <3>1. Rests(r) /\ call'[r].pc # "limited"
      BY <1>0, <1>2, <2>7, TimerStarts DEF Client!Hop, left, delay
    <3>2. /\ Cardinality(Granted') * Per <= Cardinality(Reserved') * Per
          /\ Cardinality(Granted') * Per \in Nat
      BY ClaimSetsNext, Fewer
    <3>3. left >= 0 /\ Cardinality(Reserved') * Per <= Client!Capacity + now * Rate
      BY <2>2, <2>3, <2>4, <2>7, <3>1, BucketNumbers, ClientNumbers
    <3>4. Cardinality(Granted') * Per <= Client!Capacity + now' * Rate
      BY <1>0, <2>4, <3>1, <3>2, <3>3, BucketNumbers, ClientNumbers
    <3>5. ASSUME NEW p \in Calls, now' < Horizon, call'[p].pc = "limited"
          PROVE  /\ call'[p].due >= now'
                 /\ Cardinality(DueBy(call[p].due)') * Per <= Client!Capacity + call'[p].due * Rate
      <4>1. p # r /\ call'[p] = call[p] /\ call[p].due >= now
        BY <1>0, <3>1, <3>5 DEF Rests, Moves, ClientInv, BucketFits
      <4>2. /\ Cardinality(DueBy(call[p].due)') * Per <= Cardinality(Reserved') * Per
            /\ Cardinality(DueBy(call[p].due)') * Per \in Nat
        BY ClaimSetsNext, Fewer
      <4>3. now * Rate <= call[p].due * Rate /\ call[p].due * Rate \in Int
        <5>1. call[p].due \in Nat
          BY <2>6, <4>1, BucketNumbers
        <5> QED BY <4>1, <5>1, BucketNumbers, MoreCostsMore, ClientNumbers
      <4> QED BY <1>0, <2>4, <3>1, <3>3, <4>1, <4>2, <4>3, BucketNumbers, ClientNumbers
    <3>6. BucketFits'
      BY <1>0, <2>1, <2>4, <3>1, <3>4, <3>5 DEF BucketFits, Client!Capacity
    <3> QED BY <2>5, <3>1, <3>6, OthersFit DEF ClientInv, Rests
  <2>8. CASE ~(delay <= 0)
    <3>0. call \in [Calls -> CallState] /\ CallFits(r)
      BY DEF ClientInv, ClientTyped
    <3>1. call' = [call EXCEPT ![r].pc = "limited", ![r].due = now + delay]
      BY <1>2, <2>8 DEF Client!Hop, left, delay
    <3>2. call' \in [Calls -> CallState]
      <4> DEFINE a == [call[r] EXCEPT !.pc = "limited"]
                 b == [a EXCEPT !.due = now + delay]
      <4>1. call' = [call EXCEPT ![r] = b]
        BY <3>1
      <4>2. a \in CallState
        BY <3>0, FieldsSet
      <4> HIDE DEF a
      <4>3. now + delay \in Int
        BY <2>3, BucketNumbers
      <4>4. b \in CallState
        BY <4>2, <4>3, FieldsSet
      <4> HIDE DEF b
      <4> QED BY <3>0, <4>1, <4>4
    <3>3. /\ \A q \in Calls : q # r => call'[q] = call[q]
          /\ call'[r].pc = "limited" /\ call'[r].due = now + delay
          /\ call'[r].attempt = call[r].attempt /\ call'[r].redirects = call[r].redirects
          /\ call'[r].sent = call[r].sent /\ call'[r].fetches = call[r].fetches
          /\ call'[r].linked = call[r].linked /\ call'[r].aborted = call[r].aborted
          /\ call'[r].outcome = call[r].outcome
      BY <3>0, <3>1 DEF CallState
    <3>12. SentFits(r)'
      BY <1>0, <3>0, <3>3, SentStays DEF CallFits
    <3>4. Rests(r)
      BY <1>0, <3>0, <3>2, <3>3, <3>12 DEF Rests, Moves, CallFits, Spent
    <3>5. Granted' \subseteq Granted
      BY <3>3, <3>4, ClaimsMove
    <3>6. /\ Cardinality(Granted') * Per <= Cardinality(Granted) * Per
          /\ Cardinality(Granted') * Per \in Nat
      BY <3>5, ClaimSets, Fewer
    <3>7. now' < Horizon => Cardinality(Granted') * Per <= Client!Capacity + now' * Rate
      BY <1>0, <3>6, BucketNumbers, ClientNumbers DEF ClientInv, BucketFits
    <3>8. /\ (now + delay) * Rate = now * Rate + delay * Rate /\ delay * Rate \in Int
          /\ (now + delay) * Rate \in Int /\ now + delay \in Nat /\ now + delay >= now
      BY <2>3, <2>8, BucketNumbers, ClientNumbers
    <3>9. Cardinality(Reserved') * Per <= Client!Capacity + (now + delay) * Rate
      BY <2>2, <2>3, <2>4, <3>4, <3>8, BucketNumbers, ClientNumbers
    <3>10. ASSUME NEW p \in Calls, now' < Horizon, call'[p].pc = "limited"
           PROVE  /\ call'[p].due >= now'
                  /\ Cardinality(DueBy(call[p].due)') * Per <= Client!Capacity + call'[p].due * Rate
      <4>0. /\ Cardinality(DueBy(call[p].due)') * Per <= Cardinality(Reserved') * Per
            /\ Cardinality(DueBy(call[p].due)') * Per \in Nat
        BY ClaimSetsNext, Fewer
      <4>1. CASE p = r
        BY <1>0, <2>4, <3>3, <3>4, <3>8, <3>9, <4>0, <4>1, ClientNumbers
      <4>2. CASE p # r
        <5>1. call'[p] = call[p] /\ call[p].due >= now /\ call[p].due \in Nat
              /\ Cardinality(DueBy(call[p].due)) * Per <= Client!Capacity + call[p].due * Rate
          BY <1>0, <2>6, <3>3, <3>10, <4>2, BucketNumbers DEF ClientInv, BucketFits
        <5>2. call[p].due * Rate \in Nat
          BY <5>1, ClientNumbers
        <5>3. CASE now + delay <= call[p].due
          <6>1. (now + delay) * Rate <= call[p].due * Rate
            BY <5>1, <5>3, <3>8, MoreCostsMore, ClientNumbers
          <6> QED BY <1>0, <2>4, <3>4, <3>8, <3>9, <4>0, <5>1, <5>2, <6>1, ClientNumbers
        <5>4. CASE ~(now + delay <= call[p].due)
          <6>1. DueBy(call[p].due)' \subseteq DueBy(call'[p].due)
            BY <3>3, <3>4, <4>2, <5>4, ClaimsMove
          <6>2. Cardinality(DueBy(call[p].due)') * Per <= Cardinality(DueBy(call'[p].due)) * Per
            BY <6>1, ClaimSets, Fewer
          <6> QED BY <1>0, <4>0, <5>1, <5>2, <6>2, BucketNumbers, ClientNumbers
        <5> QED BY <5>3, <5>4
      <4> QED BY <4>1, <4>2
    <3>11. BucketFits'
      BY <1>0, <2>1, <2>4, <3>4, <3>7, <3>10 DEF BucketFits, Client!Capacity
    <3> QED BY <2>5, <3>4, <3>11, OthersFit DEF ClientInv, Rests
  <2> QED BY <2>7, <2>8
<1> QED BY <1>1, <1>2

-----------------------------------------------------------------------------
(* A wait that is over: all that are due by its time are granted at once.  *)
LEMMA GrantedKeeps ==
    ASSUME ClientInv, NEW r \in Calls, Client!Granted(r)
    PROVE  ClientInv' /\ Rests(r)
<1>0. call[r].pc = "limited" /\ Client!DueAt(call[r].due) /\ UNCHANGED <<now, tokens, updated>>
      /\ call[r].due \in Int
  BY CallNumbers DEF Client!Granted, CallState
<1>1. Rests(r) /\ call'[r].pc # "limited"
  BY TimerStarts DEF Client!Granted
<1>2. Reserved' \subseteq Reserved /\ Granted' \subseteq DueBy(call[r].due)
  BY <1>0, <1>1, ClaimsMove
<1>3. ClientTyped'
  BY <1>0, <1>1 DEF ClientInv, ClientTyped, Rests, Moves, Client!Capacity
<1>4. \A S \in SUBSET Claim : Cardinality(S) * Per \in Nat
  BY ClaimFinite, ClientNumbers
<1>5. Cardinality(Reserved') * Per + tokens' <= Client!Capacity + updated' * Rate
  <2>1. Cardinality(Reserved') * Per <= Cardinality(Reserved) * Per
    BY <1>2, ClaimSets, Fewer
  <2>2. Cardinality(Reserved') * Per \in Nat
    BY <1>4, ClaimSetsNext
  <2> QED BY <1>0, <2>1, <2>2, BucketNumbers, ClientNumbers DEF ClientInv, BucketFits
<1>6. now < Horizon => call[r].due = now
  <2> SUFFICES ASSUME now < Horizon PROVE call[r].due = now
    OBVIOUS
  <2>1. call[r].due >= now
    BY <1>0 DEF ClientInv, BucketFits
  <2>2. now >= call[r].due \/ now = Horizon
    BY <1>0 DEF Client!DueAt
  <2>3. call[r].due \in Int /\ now \in Int /\ Horizon \in Int
    BY <1>0, BucketNumbers, ClientNumbers
  <2> HIDE <1>0
  <2> QED BY <2>1, <2>2, <2>3
<1>7. now' < Horizon => Cardinality(Granted') * Per <= Client!Capacity + now' * Rate
  <2> SUFFICES ASSUME now < Horizon
               PROVE  Cardinality(Granted') * Per <= Client!Capacity + now * Rate
    BY <1>0
  <2>1. Cardinality(Granted') * Per <= Cardinality(DueBy(call[r].due)) * Per
    BY <1>2, ClaimSets, Fewer
  <2>2. Cardinality(DueBy(call[r].due)) * Per <= Client!Capacity + now * Rate
    BY <1>0, <1>6 DEF ClientInv, BucketFits
  <2>3. Cardinality(Granted') * Per \in Nat
    BY <1>4, ClaimSetsNext
  <2> QED BY <2>1, <2>2, <2>3, BucketNumbers, ClientNumbers
<1>8. ASSUME NEW p \in Calls, now' < Horizon, call'[p].pc = "limited"
      PROVE  /\ call'[p].due >= now'
             /\ Cardinality(DueBy(call[p].due)') * Per <= Client!Capacity + call'[p].due * Rate
  <2>1. p # r /\ call'[p] = call[p] /\ call[p].due >= now /\ call[p].due \in Int
        /\ Cardinality(DueBy(call[p].due)) * Per <= Client!Capacity + call[p].due * Rate
    <3>1. call[p].due \in Int
      BY CallNumbers DEF CallState
    <3> QED BY <1>0, <1>1, <1>8, <3>1 DEF Rests, Moves, ClientInv, BucketFits
  <2>2. call[r].due <= call[p].due
    BY <1>0, <1>6, <1>8, <2>1
  <2>3. DueBy(call[p].due)' \subseteq DueBy(call'[p].due)
    BY <1>0, <1>1, <2>1, <2>2, ClaimsMove
  <2>4. Cardinality(DueBy(call[p].due)') * Per <= Cardinality(DueBy(call'[p].due)) * Per
    BY <2>3, ClaimSets, Fewer
  <2>5. Cardinality(DueBy(call[p].due)') * Per \in Nat /\ call[p].due * Rate \in Int
    BY <1>4, <2>1, ClaimSetsNext, ClientNumbers
  <2> QED BY <1>0, <2>1, <2>4, <2>5, BucketNumbers, ClientNumbers
<1>9. BucketFits'
  BY <1>5, <1>7, <1>8 DEF BucketFits, Client!Capacity
<1> QED BY <1>1, <1>3, <1>9, OthersFit DEF ClientInv, Rests

(* What an aborted wait gives back is less than what it had claimed. *)
LEMMA LimitedAbortedKeeps ==
    ASSUME ClientInv, NEW r \in Calls, Client!LimitedAborted(r)
    PROVE  ClientInv' /\ Rests(r)
<1>0. call[r].pc = "limited" /\ UNCHANGED <<now, updated>> /\ tokens' = Client!Refund
  BY DEF Client!LimitedAborted
<1>1. Releases(r)
  BY <1>0, FailureReleases DEF Client!LimitedAborted
<1>2. /\ Rests(r) /\ Reserved' \subseteq Reserved \ {<<r, 0>>} /\ Granted' \subseteq Granted
  BY <1>1, ClaimsMove DEF Releases
<1>3. tokens' \in Int /\ tokens' <= Client!Capacity /\ tokens' <= tokens + Per
  BY <1>0, BucketNumbers, ClientNumbers DEF Client!Refund, Client!Min2
<1>4. ClientTyped'
  BY <1>0, <1>2, <1>3 DEF ClientInv, ClientTyped, Rests, Moves, Client!Capacity
<1>5. \A S \in SUBSET Claim : Cardinality(S) * Per \in Nat
  BY ClaimFinite, ClientNumbers
<1>6. Cardinality(Reserved') * Per + tokens' <= Client!Capacity + updated' * Rate
  <2>1. <<r, 0>> \in Reserved
    BY <1>0, InSets, ClientNumbers
  <2>2. Cardinality(Reserved') * Per + Per <= Cardinality(Reserved) * Per
    BY <1>2, <2>1, ClaimSets, Removed
  <2>3. Cardinality(Reserved') * Per \in Nat
    BY <1>5, ClaimSetsNext
  <2> QED BY <1>0, <1>3, <2>2, <2>3, BucketNumbers, ClientNumbers DEF ClientInv, BucketFits
<1>7. now' < Horizon => Cardinality(Granted') * Per <= Client!Capacity + now' * Rate
  <2>1. Cardinality(Granted') * Per <= Cardinality(Granted) * Per
    BY <1>2, ClaimSets, Fewer
  <2>2. Cardinality(Granted') * Per \in Nat
    BY <1>5, ClaimSetsNext
  <2> QED BY <1>0, <2>1, <2>2, BucketNumbers, ClientNumbers DEF ClientInv, BucketFits
<1>8. ASSUME NEW p \in Calls, now' < Horizon, call'[p].pc = "limited"
      PROVE  /\ call'[p].due >= now'
             /\ Cardinality(DueBy(call[p].due)') * Per <= Client!Capacity + call'[p].due * Rate
  <2>1. p # r /\ call'[p] = call[p] /\ call[p].due >= now /\ call[p].due \in Int
        /\ Cardinality(DueBy(call[p].due)) * Per <= Client!Capacity + call[p].due * Rate
    <3>1. call[p].due \in Int
      BY CallNumbers DEF CallState
    <3> QED BY <1>0, <1>1, <1>8, <3>1 DEF Releases, Rests, Moves, ClientInv, BucketFits
  <2>3. DueBy(call[p].due)' \subseteq DueBy(call'[p].due)
    BY <1>1, <1>2, <2>1, ClaimsMove DEF Releases
  <2>4. Cardinality(DueBy(call[p].due)') * Per <= Cardinality(DueBy(call'[p].due)) * Per
    BY <2>3, ClaimSets, Fewer
  <2>5. Cardinality(DueBy(call[p].due)') * Per \in Nat /\ call[p].due * Rate \in Int
    BY <1>5, <2>1, ClaimSetsNext, ClientNumbers
  <2> QED BY <1>0, <2>1, <2>4, <2>5, BucketNumbers, ClientNumbers
<1>9. BucketFits'
  BY <1>6, <1>7, <1>8 DEF BucketFits, Client!Capacity
<1> QED BY <1>2, <1>4, <1>9, OthersFit DEF ClientInv, Rests

(* Time passes: more drips in, and no wait is overdue. *)
LEMMA TickKeeps ==
    ASSUME ClientInv, Client!Tick
    PROVE  ClientInv' /\ UNCHANGED call
<1>0. now < Horizon /\ now' = now + 1 /\ UNCHANGED <<tokens, updated, call>>
  BY DEF Client!Tick
<1>1. ClientTyped'
  BY <1>0, ClientNumbers DEF ClientInv, ClientTyped, Client!Capacity
<1>2. \A r \in Calls : CallFits(r)'
  BY <1>0 DEF ClientInv, CallFits, SentFits, Client!CanRetry
<1>3. Reserved' = Reserved /\ Granted' = Granted /\ \A p \in Calls : DueBy(call[p].due)' = DueBy(call[p].due)
  BY <1>0 DEF Reserved, Granted, DueBy, Claim
<1>4. now' * Rate = now * Rate + Rate
  BY <1>0, OneMore, BucketNumbers, ClientNumbers
<1>5. now' < Horizon => Cardinality(Granted') * Per <= Client!Capacity + now' * Rate
  BY <1>0, <1>3, <1>4, BucketNumbers, ClientNumbers DEF ClientInv, BucketFits
<1>6. ASSUME NEW p \in Calls, now' < Horizon, call'[p].pc = "limited"
      PROVE  /\ call'[p].due >= now'
             /\ Cardinality(DueBy(call[p].due)') * Per <= Client!Capacity + call'[p].due * Rate
  <2>1. call'[p] = call[p] /\ call[p].pc = "limited" /\ call[p].due \in Int
    BY <1>0, <1>6, CallNumbers DEF CallState
  <2>2. now < call[p].due
    BY <1>0, <2>1 DEF Client!Tick
  <2> QED BY <1>0, <1>3, <2>1, <2>2, BucketNumbers DEF ClientInv, BucketFits
<1>7. BucketFits'
  BY <1>0, <1>3, <1>5, <1>6 DEF ClientInv, BucketFits, Client!Capacity
<1> QED BY <1>0, <1>1, <1>2, <1>7 DEF ClientInv

-----------------------------------------------------------------------------
(* The steps that leave the bucket alone. *)
LEMMA AttemptBegins ==
    ASSUME ClientInv, NEW r \in Calls, call[r].pc \in {"idle", "backoff"}, Client!BeginAttempt(r)
    PROVE  Releases(r)
<1> DEFINE n == IF call[r].pc = "backoff" THEN call[r].attempt + 1 ELSE call[r].attempt
           a == [call[r] EXCEPT !.pc = "hop"]
           b == [a EXCEPT !.redirects = 0]
           s == [b EXCEPT !.sent.attempt = call[r].sent.request]
           c == [s EXCEPT !.attempt = n]
           d == [c EXCEPT !.due = Client!None]
<1>1. call \in [Calls -> CallState] /\ CallFits(r)
  BY DEF ClientInv, ClientTyped
<1>2. call' = [call EXCEPT ![r] = d]
  BY <1>1 DEF Client!BeginAttempt
<1>3. n \in 1..Attempts
  BY <1>1, CallNumbers, ClientNumbers DEF CallFits, Client!CanRetry
<1>4. Client!None \in Int /\ 0 \in 0..MaxRedirects
  BY ClientNumbers DEF Client!None
<1>5. call' \in [Calls -> CallState]
  <2>1. a \in CallState
    BY <1>1, FieldsSet
  <2> HIDE DEF a
  <2>2. b \in CallState
    BY <1>4, <2>1, FieldsSet
  <2> HIDE DEF b, n
  <2>5. call[r].sent.request \in BOOLEAN
    BY <1>1 DEF CallState, Client!Sent
  <2>6. s \in CallState
    BY <2>2, <2>5, SentFieldsSet
  <2> HIDE DEF s
  <2>3. c \in CallState
    BY <1>3, <2>6, FieldsSet
  <2> HIDE DEF c
  <2>4. d \in CallState
    BY <1>4, <2>3, FieldsSet
  <2> HIDE DEF d
  <2> QED BY <1>1, <1>2, <2>4
<1>6. /\ \A q \in Calls : q # r => call'[q] = call[q]
      /\ call'[r].pc = "hop" /\ call'[r].redirects = 0 /\ call'[r].attempt = n
      /\ call'[r].sent = [call[r].sent EXCEPT !.attempt = call[r].sent.request]
      /\ call'[r].fetches = call[r].fetches /\ call'[r].outcome = call[r].outcome
      /\ call'[r].linked = call[r].linked /\ call'[r].aborted = call[r].aborted
  BY <1>1, <1>2 DEF CallState
<1>7. call[r].fetches <= (n - 1) * (MaxRedirects + 1)
  <2>1. CASE call[r].pc = "idle"
    BY <1>1, <2>1, CallNumbers, ClientNumbers DEF CallFits, Spent
  <2>2. CASE call[r].pc = "backoff"
    <3>1. n - 1 = call[r].attempt
      BY <2>2, CallNumbers, ClientNumbers
    <3>2. call[r].fetches <= call[r].attempt * (MaxRedirects + 1)
      BY <1>1, <2>2, CallNumbers, ClientNumbers DEF CallFits, Spent
    <3> QED BY <3>1, <3>2
  <2> QED BY <2>1, <2>2
<1>8. r \notin Idempotent => n = 1
  BY <1>1 DEF CallFits, Client!CanRetry
<1> HIDE DEF n
<1>9. (n - 1) * (MaxRedirects + 1) + 0 + 0 = (n - 1) * (MaxRedirects + 1)
  BY <1>3, ClientNumbers
<1>11. SentFits(r)'
  <2>1. /\ call'[r].sent.request = call[r].sent.request
        /\ call'[r].sent.attempt = call[r].sent.request
    BY <1>1, <1>6 DEF CallState, Client!Sent
  <2>2. call'[r].outcome = "none"
    BY <1>1, <1>6 DEF CallFits, SentFits
  <2> QED BY <1>1, <1>6, <2>1, <2>2 DEF CallFits, SentFits, Client!Errors
<1>10. CallFits(r)'
  BY <1>1, <1>6, <1>7, <1>8, <1>9, <1>11 DEF CallFits, Spent
<1> QED BY <1>5, <1>6, <1>10 DEF Releases, Rests, Moves

LEMMA GoesOn ==
    ASSUME ClientInv, NEW r \in Calls, NEW next \in {"auth", "body"},
           <<call[r].pc, next>> \in {<<"check", "auth">>, <<"fetch", "body">>},
           call' = [call EXCEPT ![r].pc = next]
    PROVE  Rests(r) /\ call'[r].pc = next
<1>1. call \in [Calls -> CallState] /\ CallFits(r)
  BY DEF ClientInv, ClientTyped
<1>2. call' \in [Calls -> CallState]
  BY <1>1, FieldsSet
<1>3. /\ \A q \in Calls : q # r => call'[q] = call[q]
      /\ call'[r].pc = next /\ call'[r].redirects = call[r].redirects
      /\ call'[r].attempt = call[r].attempt
      /\ call'[r].sent = call[r].sent /\ call'[r].fetches = call[r].fetches
      /\ call'[r].linked = call[r].linked /\ call'[r].aborted = call[r].aborted
      /\ call'[r].outcome = call[r].outcome
  BY <1>1 DEF CallState
<1>5. SentFits(r)'
  BY <1>1, <1>3, SentStays DEF CallFits
<1>4. CallFits(r)'
  BY <1>1, <1>3, <1>5 DEF CallFits, Spent
<1> QED BY <1>2, <1>3, <1>4 DEF Rests, Moves

LEMMA RedirectedReleases ==
    ASSUME ClientInv, NEW r \in Calls, call[r].pc = "fetch", Client!Redirected(r)
    PROVE  Releases(r)
<1>1. CASE call[r].redirects >= MaxRedirects
  <2>1. call[r].fetches > 0
    BY CallNumbers DEF CallFits, SentFits
  <2> QED BY <1>1, <2>1, FinishReleases DEF Client!Redirected, Outcomes
<1>2. CASE ~(call[r].redirects >= MaxRedirects)
  <2> DEFINE n == call[r].redirects + 1
             a == [call[r] EXCEPT !.pc = "hop"]
             b == [a EXCEPT !.redirects = n]
  <2>1. call \in [Calls -> CallState] /\ CallFits(r)
    BY DEF ClientInv, ClientTyped
  <2>2. call' = [call EXCEPT ![r] = b]
    BY <1>2, <2>1 DEF Client!Redirected
  <2>3. n \in 0..MaxRedirects
    BY <1>2, CallNumbers, ClientNumbers
  <2>4. call' \in [Calls -> CallState]
    <3>1. a \in CallState
      BY <2>1, FieldsSet
    <3> HIDE DEF a, n
    <3>2. b \in CallState
      BY <2>3, <3>1, FieldsSet
    <3> HIDE DEF b
    <3> QED BY <2>1, <2>2, <3>2
  <2>5. /\ \A q \in Calls : q # r => call'[q] = call[q]
        /\ call'[r].pc = "hop" /\ call'[r].redirects = n /\ call'[r].attempt = call[r].attempt
        /\ call'[r].sent = call[r].sent /\ call'[r].fetches = call[r].fetches
        /\ call'[r].linked = call[r].linked /\ call'[r].aborted = call[r].aborted
        /\ call'[r].outcome = call[r].outcome
    BY <2>1, <2>2 DEF CallState
  <2>7. SentFits(r)'
    BY <2>1, <2>5, SentStays DEF CallFits
  <2>6. CallFits(r)'
    BY <2>1, <2>5, <2>7, CallNumbers, ClientNumbers DEF CallFits, Spent
  <2> QED BY <2>4, <2>5, <2>6 DEF Releases, Rests, Moves
<1> QED BY <1>1, <1>2

LEMMA SignalRests ==
    ASSUME ClientInv, NEW r \in Calls, Client!TimerFires(r) \/ Client!Abort(r)
    PROVE  Rests(r) /\ call'[r].pc = call[r].pc /\ call'[r].due = call[r].due
<1>1. call \in [Calls -> CallState] /\ CallFits(r)
  BY DEF ClientInv, ClientTyped
<1>2. PICK l \in {"none", "live", "timedOut", "aborted"}, b \in BOOLEAN :
         /\ call' = [call EXCEPT ![r].linked = l, ![r].aborted = b]
         /\ l = "live" => ~b
         /\ l = "none" => call[r].linked = "none"
  <2>1. CASE Client!TimerFires(r)
    <3>1. call' = [call EXCEPT ![r].linked = "timedOut", ![r].aborted = call[r].aborted]
      BY <1>1, <2>1 DEF Client!TimerFires, CallState
    <3>2. call[r].aborted \in BOOLEAN
      BY <1>1 DEF CallState
    <3> QED BY <3>1, <3>2
  <2>2. CASE Client!Abort(r)
    <3> DEFINE l == IF call[r].linked = "live" THEN "aborted" ELSE call[r].linked
    <3>1. call' = [call EXCEPT ![r].linked = l, ![r].aborted = TRUE]
      BY <1>1, <2>2 DEF Client!Abort, CallState
    <3>2. l \in {"none", "live", "timedOut", "aborted"} /\ l # "live"
          /\ (l = "none" => call[r].linked = "none")
      BY <1>1 DEF CallState
    <3> QED BY <3>1, <3>2
  <2> QED BY <2>1, <2>2
<1> DEFINE c == [call[r] EXCEPT !.linked = l]
           d == [c EXCEPT !.aborted = b]
<1>3. call' = [call EXCEPT ![r] = d]
  BY <1>1, <1>2
<1>4. call' \in [Calls -> CallState]
  <2>1. c \in CallState
    BY <1>1, FieldsSet
  <2> HIDE DEF c
  <2>2. d \in CallState
    BY <2>1, FieldsSet
  <2> HIDE DEF d
  <2> QED BY <1>1, <1>3, <2>2
<1>5. /\ \A q \in Calls : q # r => call'[q] = call[q]
      /\ call'[r].pc = call[r].pc /\ call'[r].redirects = call[r].redirects
      /\ call'[r].attempt = call[r].attempt /\ call'[r].due = call[r].due
      /\ call'[r].sent = call[r].sent /\ call'[r].fetches = call[r].fetches
      /\ call'[r].linked = l /\ call'[r].aborted = b /\ call'[r].outcome = call[r].outcome
  BY <1>1, <1>3 DEF CallState
<1>7. SentFits(r)'
  BY <1>1, <1>5, SentStays DEF CallFits
<1>6. CallFits(r)'
  BY <1>1, <1>2, <1>5, <1>7 DEF CallFits, Client!CanRetry, Spent
<1> QED BY <1>4, <1>5, <1>6 DEF Rests, Moves

(* What a step of one call does to it, and to the fetches that started. *)
LEMMA CallSteps ==
    ASSUME ClientInv, NEW r \in Calls,
           Client!Request(r) \/ Client!Answers(r) \/ Client!Runs(r) \/ Client!Abort(r)
    PROVE  /\ ClientInv'
           /\ \A q \in Calls : q # r => call'[q] = call[q]
           /\ \/ call'[r].fetches = call[r].fetches
              \/ call[r].linked = "live" /\ ~call[r].aborted
<1>1. ASSUME Rests(r), UNCHANGED <<now, tokens, updated>>,
             call'[r].pc \in {"check", "auth"} => call[r].pc \in {"check", "auth"},
             call'[r].pc = "limited" => call[r].pc = "limited" /\ call'[r].due = call[r].due
      PROVE  ClientInv' /\ Rests(r)
  BY <1>1, KeepsClaims
<1>2. ASSUME Releases(r), UNCHANGED <<now, tokens, updated>> PROVE ClientInv' /\ Rests(r)
  BY <1>1, <1>2 DEF Releases
<1>3. CASE Client!Request(r)
  BY <1>2, <1>3, AttemptBegins DEF Client!Request, Rests, Moves
<1>12. /\ call[r].sent.attempt \in BOOLEAN /\ call[r].sent.request \in BOOLEAN
       /\ call[r].sent.attempt <=> call[r].fetches > 0
       /\ call[r].sent.request <=> call[r].fetches > 0
       /\ call[r].pc \in {"fetch", "body"} => call[r].fetches > 0
  BY CallNumbers DEF CallState, Client!Sent, CallFits, SentFits
<1>4. CASE Client!Checked(r)
  <2>1. CASE Client!Finish(r, "REFUSED", call[r].sent.attempt)
    BY <1>2, <1>4, <1>12, <2>1, FinishReleases DEF Client!Checked, Outcomes, Rests, Moves
  <2>2. CASE Client!Failure(r)
    BY <1>2, <1>4, <2>2, FailureReleases DEF Client!Checked, Rests, Moves
  <2>3. CASE call' = [call EXCEPT ![r].pc = "auth"]
    <3>1. Rests(r) /\ call'[r].pc = "auth"
      BY <1>4, <2>3, GoesOn DEF Client!Checked
    <3> QED BY <1>1, <1>4, <3>1 DEF Client!Checked, Rests, Moves
  <2> QED BY <1>4, <2>1, <2>2, <2>3 DEF Client!Checked
<1>5. CASE Client!Authorised(r)
  <2>1. CASE Client!Finish(r, "thrown", FALSE)
    <3>1. "thrown" \notin Client!Errors
      BY DEF Client!Errors
    <3> QED BY <1>2, <1>5, <2>1, <3>1, FinishReleases DEF Client!Authorised, Outcomes, Rests, Moves
  <2>2. CASE call' = [call EXCEPT ![r].pc = "fetch", ![r].fetches = @ + 1,
                                  ![r].sent.request = TRUE, ![r].sent.attempt = TRUE]
    BY <1>5, <2>2, FetchStarts DEF Client!Authorised
  <2> QED BY <1>5, <2>1, <2>2 DEF Client!Authorised
<1>6. CASE Client!Fetched(r)
  <2>0. call[r].pc = "fetch" /\ UNCHANGED <<now, tokens, updated>>
    BY <1>6 DEF Client!Fetched
  <2>6. CASE Client!Failure(r)
    BY <1>2, <2>0, <2>6, FailureReleases DEF Rests, Moves
  <2>1. CASE Client!Fail(r, "NETWORK", TRUE)
    BY <1>2, <1>12, <2>0, <2>1, FailReleases DEF Failures, Rests, Moves
  <2>2. CASE Client!Finish(r, "REFUSED", TRUE)
    BY <1>2, <1>12, <2>0, <2>2, FinishReleases DEF Outcomes, Rests, Moves
  <2>3. CASE Client!Redirected(r)
    BY <1>2, <2>0, <2>3, RedirectedReleases DEF Rests, Moves
  <2>4. CASE Client!CanRetry(r) /\ Client!Wait(r)
    BY <1>2, <2>0, <2>4, WaitReleases DEF Rests, Moves
  <2>5. CASE call' = [call EXCEPT ![r].pc = "body"]
    <3>1. Rests(r) /\ call'[r].pc = "body"
      BY <2>0, <2>5, GoesOn
    <3> QED BY <1>1, <2>0, <3>1 DEF Rests, Moves
  <2> QED BY <1>6, <2>1, <2>2, <2>3, <2>4, <2>5, <2>6 DEF Client!Fetched
<1>7. CASE Client!BodyRead(r)
  <2>1. CASE Client!Finish(r, "response", FALSE)
    <3>1. "response" \notin Client!Errors
      BY DEF Client!Errors
    <3> QED BY <1>2, <1>7, <2>1, <3>1, FinishReleases DEF Client!BodyRead, Outcomes, Rests, Moves
  <2>2. CASE Client!Finish(r, "RESPONSE_TOO_LARGE", TRUE)
    BY <1>2, <1>7, <1>12, <2>2, FinishReleases DEF Client!BodyRead, Outcomes, Rests, Moves
  <2>3. CASE Client!Failure(r)
    BY <1>2, <1>7, <2>3, FailureReleases DEF Client!BodyRead, Rests, Moves
  <2> QED BY <1>7, <2>1, <2>2, <2>3 DEF Client!BodyRead
<1>8. CASE Client!Hop(r) \/ Client!Granted(r) \/ Client!LimitedAborted(r)
  BY <1>8, HopKeeps, GrantedKeeps, LimitedAbortedKeeps DEF Rests, Moves
<1>9. CASE Client!Interrupted(r)
  BY <1>2, <1>9, FailureReleases DEF Client!Interrupted, Rests, Moves
<1>10. CASE Client!BackoffOver(r)
  <2>1. CASE Client!Finish(r, "ABORTED", call[r].sent.request)
    BY <1>2, <1>10, <1>12, <2>1, FinishReleases DEF Client!BackoffOver, Outcomes, Failures, Rests, Moves
  <2>2. CASE Client!BeginAttempt(r)
    BY <1>2, <1>10, <2>2, AttemptBegins DEF Client!BackoffOver, Rests, Moves
  <2> QED BY <1>10, <2>1, <2>2 DEF Client!BackoffOver
<1>11. CASE Client!TimerFires(r) \/ Client!Abort(r)
  <2>1. UNCHANGED <<now, tokens, updated>>
    BY <1>11 DEF Client!TimerFires, Client!Abort
  <2> QED BY <1>1, <1>11, <2>1, SignalRests DEF Rests, Moves
<1> QED BY <1>3, <1>4, <1>5, <1>6, <1>7, <1>8, <1>9, <1>10, <1>11 DEF Client!Answers, Client!Runs

LEMMA ClientSteps ==
    ASSUME ClientInv, Client!Next
    PROVE  ClientInv' /\ Client!NoLateFetch
<1>1. CASE Client!Tick
  BY <1>1, TickKeeps, CallNumbers DEF Client!NoLateFetch
<1>2. ASSUME NEW r \in Calls,
             Client!Request(r) \/ Client!Answers(r) \/ Client!Runs(r) \/ Client!Abort(r)
      PROVE  ClientInv' /\ Client!NoLateFetch
  <2>1. \A q \in Calls : call[q].fetches \in Nat
    BY CallNumbers
  <2> QED BY <1>2, <2>1, CallSteps DEF Client!NoLateFetch
<1> QED BY <1>1, <1>2 DEF Client!Next

-----------------------------------------------------------------------------
(* Where the client starts, and where it rests. *)
LEMMA NothingClaimed ==
    ASSUME ClientTyped, tokens = Client!Capacity, updated = 0,
           \A r \in Calls : call[r].pc \in {"idle", "done"} /\ call[r].fetches = 0
    PROVE  BucketFits
<1>1. \A r \in Calls : call[r].pc \notin {"limited", "check", "auth"}
  OBVIOUS
<1>2. Granted = {} /\ Reserved = {}
  BY <1>1 DEF Granted, Reserved, Claim
<1>3. Cardinality(Granted) * Per = 0 /\ Cardinality(Reserved) * Per = 0
  BY <1>2, FS_EmptySet, ClientNumbers
<1>4. now * Rate \in Nat
  BY ClientNumbers DEF ClientTyped
<1> QED BY <1>1, <1>3, <1>4, ClientNumbers DEF BucketFits

LEMMA ClientStarts ==
    Client!Init \/ ClientOver => ClientInv
<1> SUFFICES ASSUME Client!Init \/ ClientOver PROVE ClientInv
  OBVIOUS
<1>1. call \in [Calls -> CallState]
  <2> DEFINE c(pc, aborted_, outcome) ==
               [pc |-> pc, attempt |-> 1, redirects |-> 0, sent |-> Client!NotSent, fetches |-> 0,
                linked |-> "none", timer |-> Client!None, due |-> Client!None,
                aborted |-> aborted_, outcome |-> outcome]
  <2>1. 1 \in 1..Attempts /\ 0 \in 0..MaxRedirects /\ 0 \in 0..(Attempts * (MaxRedirects + 1))
        /\ Client!None \in Int /\ Client!NotSent \in Client!Sent
    BY ClientNumbers DEF Client!None, Client!NotSent, Client!Sent
  <2>2. c("idle", FALSE, "none") \in CallState /\ c("done", TRUE, "ABORTED") \in CallState
    BY <2>1 DEF CallState
  <2>3. call = [r \in Calls |-> c("idle", FALSE, "none")]
        \/ call = [r \in Calls |-> c("done", TRUE, "ABORTED")]
    BY DEF Client!Init, ClientOver
  <2> HIDE DEF c
  <2> QED BY <2>2, <2>3
<1>2. ClientTyped
  BY <1>1, ClientNumbers DEF ClientTyped, Client!Init, ClientOver
<1>3. /\ \A r \in Calls : call[r].pc \in {"idle", "done"} /\ call[r].fetches = 0
            /\ call[r].sent = Client!NotSent /\ call[r].attempt = 1 /\ call[r].redirects = 0
            /\ call[r].linked = "none" /\ (call[r].pc = "idle" => call[r].outcome = "none")
      /\ tokens = Client!Capacity /\ updated = 0
  BY DEF Client!Init, ClientOver
<1>5. \A r \in Calls : SentFits(r)
  BY <1>3 DEF SentFits, Client!NotSent
<1>4. \A r \in Calls : CallFits(r)
  BY <1>3, <1>5, ClientNumbers DEF CallFits, Spent
<1> QED BY <1>2, <1>3, <1>4, NothingClaimed DEF ClientInv

LEMMA ClientStays ==
    ASSUME ClientInv, UNCHANGED client
    PROVE  ClientInv' /\ Client!NoLateFetch
<1>1. ClientTyped' /\ BucketFits' /\ \A r \in Calls : CallFits(r)'
  BY DEF client, ClientInv, ClientTyped, CallFits, SentFits, BucketFits, Granted, Reserved, DueBy,
         Client!Capacity, Client!CanRetry
<1>2. Client!NoLateFetch
  BY CallNumbers DEF client, Client!NoLateFetch
<1> QED BY <1>1, <1>2 DEF ClientInv

-----------------------------------------------------------------------------
(* The cache of validators: no schema is used twice in the history, and    *)
(* the map holds its last ones.                                            *)
Distinct(seq) == \A i, j \in 1..Len(seq) : seq[i] = seq[j] => i = j

LastUsed(kept, seq) ==
    /\ Len(kept) <= Len(seq) /\ Len(kept) <= MaxEntries
    /\ Len(kept) = Len(seq) \/ Len(kept) = MaxEntries
    /\ \A i \in 1..Len(kept) : kept[i].schema = seq[Len(seq) - Len(kept) + i]

FactoryFits ==
    /\ factory <= made /\ disposedFactories \subseteq 1..made
    /\ factory \notin disposedFactories /\ Cache!NoneLeaks
    /\ compiles <= MaxCompiles
    /\ factory = 0 => compiles = 0 /\ entries = <<>>
    /\ disposed => factory = 0
    /\ \A i \in 1..Len(entries) : entries[i].factory = factory
    /\ given # Cache!NoEntry => given.factory = factory

CacheInv ==
    /\ Cache!TypeOK /\ FactoryFits
    /\ used \in Seq(Schemas) /\ Distinct(used) /\ LastUsed(entries, used)

LEMMA CacheNumbers ==
    /\ MaxEntries \in Nat \ {0} /\ MaxCompiles \in Nat \ {0} /\ MaxFactories \in Nat
BY CacheAssumption

LEMMA CacheInvRight == CacheInv => Cache!CacheRight
<1> SUFFICES ASSUME CacheInv PROVE Cache!CacheRight
  OBVIOUS
<1>1. Cache!TypeOK /\ Cache!NoneLeaks
  BY DEF CacheInv, FactoryFits
<1>2. entries \in Seq(Cache!Entry) /\ used \in Seq(Schemas) /\ LastUsed(entries, used)
  BY DEF CacheInv, Cache!TypeOK
<1>3. Cache!Live
  BY <1>2, CacheNumbers DEF CacheInv, FactoryFits, LastUsed, Cache!Live
<1>4. Cache!LeastRecentGoes
  <2> DEFINE kept == IF Len(used) > MaxEntries THEN MaxEntries ELSE Len(used)
             last == SubSeq(used, Len(used) - kept + 1, Len(used))
  <2>1. kept = Len(entries) /\ Len(entries) \in Nat /\ Len(used) \in Nat
    BY <1>2, CacheNumbers DEF LastUsed
  <2>2. \A i \in 1..Len(entries) : entries[i].schema = used[Len(used) - Len(entries) + i]
    BY <1>2 DEF LastUsed
  <2>3. last \in Seq(Schemas) /\ Len(last) = Len(entries)
        /\ \A i \in 1..Len(entries) : last[i] = used[Len(used) - Len(entries) + i]
    BY <1>2, <2>1, SubSeqProperties DEF LastUsed
  <2> HIDE DEF last, kept
  <2>4. /\ Cache!Cached = [i \in 1..Len(entries) |-> entries[i].schema]
        /\ last = [i \in 1..Len(entries) |-> last[i]]
    <3>1. DOMAIN entries = 1..Len(entries) /\ DOMAIN last = 1..Len(entries)
      BY <1>2, <2>3
    <3>2. last = [i \in DOMAIN last |-> last[i]]
      BY <2>3, LenProperties
    <3> QED BY <3>1, <3>2 DEF Cache!Cached
  <2>5. Cache!Cached = last
    BY <2>2, <2>3, <2>4
  <2> QED BY <2>5 DEF Cache!LeastRecentGoes, last, kept
<1> QED BY <1>1, <1>3, <1>4 DEF Cache!CacheRight

-----------------------------------------------------------------------------
(* One element less, and one that goes to the end. *)
LEMMA OneRemoved ==
    ASSUME NEW T, NEW s \in Seq(T), NEW k \in 1..Len(s)
    PROVE  /\ Cache!RemoveAt(s, k) \in Seq(T) /\ Len(Cache!RemoveAt(s, k)) = Len(s) - 1
           /\ \A j \in 1..(Len(s) - 1) :
                 Cache!RemoveAt(s, k)[j] = IF j < k THEN s[j] ELSE s[j + 1]
<1> DEFINE a == SubSeq(s, 1, k - 1)
           b == SubSeq(s, k + 1, Len(s))
<1>1. a \in Seq(T) /\ Len(a) = k - 1 /\ \A j \in 1..(k - 1) : a[j] = s[j]
  BY SubSeqProperties
<1>2. b \in Seq(T) /\ Len(b) = Len(s) - k /\ \A j \in 1..(Len(s) - k) : b[j] = s[k + j]
  BY SubSeqProperties
<1> HIDE DEF a, b
<1>3. /\ a \o b \in Seq(T) /\ Len(a \o b) = Len(s) - 1
      /\ \A j \in 1..(Len(s) - 1) : (a \o b)[j] = IF j < k THEN s[j] ELSE s[j + 1]
  <2>1. Len(s) \in Nat /\ k \in Nat
    OBVIOUS
  <2>2. /\ a \o b \in Seq(T) /\ Len(a \o b) = Len(a) + Len(b)
        /\ \A j \in 1..(Len(a) + Len(b)) :
              (a \o b)[j] = IF j <= Len(a) THEN a[j] ELSE b[j - Len(a)]
    BY <1>1, <1>2, ConcatProperties
  <2>3. ASSUME NEW j \in 1..(Len(s) - 1)
        PROVE  (a \o b)[j] = IF j < k THEN s[j] ELSE s[j + 1]
    <3>1. CASE j < k
      BY <1>1, <1>2, <2>1, <2>2, <3>1
    <3>2. CASE ~(j < k)
      <4>1. j - (k - 1) \in 1..(Len(s) - k) /\ k + (j - (k - 1)) = j + 1 /\ j \in 1..(Len(a) + Len(b))
        BY <1>1, <1>2, <2>1, <3>2
      <4>2. (a \o b)[j] = b[j - (k - 1)]
        BY <1>1, <2>1, <2>2, <3>2, <4>1
      <4> QED BY <1>2, <3>2, <4>1, <4>2
    <3> QED BY <3>1, <3>2
  <2> QED BY <1>1, <1>2, <2>1, <2>2, <2>3
<1> QED BY <1>3 DEF Cache!RemoveAt, a, b

LEMMA GoesLast ==
    ASSUME NEW T, NEW s \in Seq(T), NEW k \in 1..Len(s), NEW e \in T
    PROVE  LET t == Append(Cache!RemoveAt(s, k), e)
           IN  /\ t \in Seq(T) /\ Len(t) = Len(s)
               /\ \A j \in 1..Len(s) :
                     t[j] = IF j < k THEN s[j] ELSE IF j < Len(s) THEN s[j + 1] ELSE e
<1> DEFINE r == Cache!RemoveAt(s, k)
<1>1. Len(s) \in Nat /\ r \in Seq(T) /\ Len(r) = Len(s) - 1
      /\ \A j \in 1..(Len(s) - 1) : r[j] = IF j < k THEN s[j] ELSE s[j + 1]
  BY OneRemoved
<1> HIDE DEF r
<1>2. Append(r, e) \in Seq(T) /\ Len(Append(r, e)) = Len(s)
      /\ \A j \in 1..Len(s) : Append(r, e)[j] = IF j = Len(s) THEN e ELSE r[j]
  BY <1>1, AppendProperties
<1>3. ASSUME NEW j \in 1..Len(s)
      PROVE  Append(r, e)[j] = IF j < k THEN s[j] ELSE IF j < Len(s) THEN s[j + 1] ELSE e
  <2>1. CASE j < Len(s)
    <3>1. j \in 1..(Len(s) - 1) /\ j # Len(s)
      BY <1>1, <2>1
    <3> QED BY <1>1, <1>2, <2>1, <3>1
  <2>2. CASE j = Len(s)
    BY <1>2, <2>2
  <2> QED BY <1>1, <2>1, <2>2
<1> QED BY <1>2, <1>3 DEF r

LEMMA StillDistinct ==
    ASSUME NEW T, NEW s \in Seq(T), Distinct(s), NEW k \in 1..Len(s)
    PROVE  Distinct(Append(Cache!RemoveAt(s, k), s[k]))
<1> DEFINE t == Append(Cache!RemoveAt(s, k), s[k])
<1>1. Len(s) \in Nat /\ s[k] \in T
  OBVIOUS
<1>2. Len(t) = Len(s)
      /\ \A j \in 1..Len(s) : t[j] = IF j < k THEN s[j] ELSE IF j < Len(s) THEN s[j + 1] ELSE s[k]
  BY <1>1, GoesLast
<1> HIDE DEF t
<1> SUFFICES ASSUME NEW i \in 1..Len(s), NEW j \in 1..Len(s), t[i] = t[j] PROVE i = j
  BY <1>2 DEF Distinct, t
<1> DEFINE from(n) == IF n < k THEN n ELSE IF n < Len(s) THEN n + 1 ELSE k
<1>3. \A n \in 1..Len(s) : from(n) \in 1..Len(s) /\ t[n] = s[from(n)]
  BY <1>1, <1>2
<1>4. from(i) = from(j) => i = j
  BY <1>1
<1> HIDE DEF from
<1> QED BY <1>3, <1>4 DEF Distinct

(* What a use of the schema does to the history. *)
LEMMA Uses ==
    ASSUME NEW schema \in Schemas, used \in Seq(Schemas), Distinct(used)
    PROVE  LET t == Append(Cache!Without(used, schema), schema)
           IN  /\ t \in Seq(Schemas) /\ Distinct(t)
               /\ \/ /\ \A i \in 1..Len(used) : used[i] # schema
                     /\ t = Append(used, schema)
                  \/ \E k \in 1..Len(used) :
                        used[k] = schema /\ t = Append(Cache!RemoveAt(used, k), schema)
<1>1. CASE \A i \in 1..Len(used) : used[i] # schema
  <2>1. Cache!Without(used, schema) = used
    BY <1>1 DEF Cache!Without
  <2>2. Distinct(Append(used, schema))
    BY <1>1 DEF Distinct
  <2> QED BY <1>1, <2>1, <2>2
<1>2. CASE ~\A i \in 1..Len(used) : used[i] # schema
  <2>1. PICK k \in 1..Len(used) : used[k] = schema
    BY <1>2
  <2>2. {i \in DOMAIN used : used[i] = schema} = {k}
    BY <2>1 DEF Distinct
  <2>3. (CHOOSE i \in {k} : TRUE) = k
    OBVIOUS
  <2>4. Cache!Without(used, schema) = Cache!RemoveAt(used, k)
    BY <2>2, <2>3 DEF Cache!Without
  <2>5. /\ Append(Cache!RemoveAt(used, k), schema) \in Seq(Schemas)
        /\ Distinct(Append(Cache!RemoveAt(used, k), schema))
    BY <2>1, GoesLast, StillDistinct
  <2> QED BY <2>1, <2>4, <2>5
<1> QED BY <1>1, <1>2

-----------------------------------------------------------------------------
LEMMA HitKeeps ==
    ASSUME CacheInv, NEW schema \in Schemas, Cache!Hit(schema)
    PROVE  CacheInv'
<1> DEFINE t == Append(Cache!Without(used, schema), schema)
<1>1. /\ entries \in Seq(Cache!Entry) /\ used \in Seq(Schemas)
      /\ Distinct(used) /\ LastUsed(entries, used)
  BY DEF CacheInv, Cache!TypeOK
<1>2. PICK i \in 1..Len(entries) :
         /\ entries[i].schema = schema /\ given' = entries[i]
         /\ entries' = Append(Cache!RemoveAt(entries, i), entries[i])
  <2>1. DOMAIN entries = 1..Len(entries)
    BY <1>1
  <2> QED BY <2>1 DEF Cache!Hit
<1>3. /\ used' = t /\ UNCHANGED <<factory, disposedFactories, generation, compiles, disposed, made>>
  BY DEF Cache!Hit
<1>4. Len(entries) \in Nat /\ Len(used) \in Nat /\ entries[i] \in Cache!Entry
  BY <1>1
<1>5. /\ entries' \in Seq(Cache!Entry) /\ Len(entries') = Len(entries)
      /\ \A j \in 1..Len(entries) :
            entries'[j] = IF j < i THEN entries[j]
                          ELSE IF j < Len(entries) THEN entries[j + 1] ELSE entries[i]
  BY <1>1, <1>2, <1>4, GoesLast
<1> DEFINE k == Len(used) - Len(entries) + i
<1>6. k \in 1..Len(used) /\ used[k] = schema
  <2>1. Len(entries) <= Len(used) /\ entries[i].schema = used[k]
    BY <1>1 DEF LastUsed
  <2> QED BY <1>2, <1>4, <2>1
<1>7. used' = Append(Cache!RemoveAt(used, k), schema) /\ used' \in Seq(Schemas) /\ Distinct(used)'
  <2>1. PICK m \in 1..Len(used) :
           used[m] = schema /\ t = Append(Cache!RemoveAt(used, m), schema)
    <3> HIDE DEF k
    <3> QED BY <1>1, <1>6, Uses
  <2>2. m = k
    BY <1>1, <1>6, <2>1 DEF Distinct
  <2>3. t \in Seq(Schemas) /\ Distinct(t)
    BY <1>1, Uses
  <2> HIDE DEF t
  <2>4. Distinct(used')
    BY <1>3, <2>3
  <2> QED BY <1>3, <2>1, <2>2, <2>3, <2>4 DEF Distinct
<1> HIDE DEF t
<1>8. /\ Len(used') = Len(used)
      /\ \A j \in 1..Len(used) :
            used'[j] = IF j < k THEN used[j]
                       ELSE IF j < Len(used) THEN used[j + 1] ELSE schema
  BY <1>1, <1>6, <1>7, GoesLast
<1>9. LastUsed(entries, used)'
  <2>1. ASSUME NEW j \in 1..Len(entries)
        PROVE  entries'[j].schema = used'[Len(used) - Len(entries) + j]
    <3>1. \A n \in 1..Len(entries) : entries[n].schema = used[Len(used) - Len(entries) + n]
          /\ Len(entries) <= Len(used)
      BY <1>1 DEF LastUsed
    <3>2. CASE j < i
      BY <1>4, <1>5, <1>8, <3>1, <3>2
    <3>3. CASE ~(j < i) /\ j < Len(entries)
      <4>1. j + 1 \in 1..Len(entries) /\ Len(used) - Len(entries) + j \in 1..Len(used)
            /\ Len(used) - Len(entries) + (j + 1) = (Len(used) - Len(entries) + j) + 1
            /\ ~(Len(used) - Len(entries) + j < k) /\ Len(used) - Len(entries) + j < Len(used)
        BY <1>4, <3>1, <3>3
      <4> HIDE DEF k
      <4>2. entries'[j] = entries[j + 1]
            /\ used'[Len(used) - Len(entries) + j] = used[(Len(used) - Len(entries) + j) + 1]
        BY <1>5, <1>8, <3>3, <4>1
      <4> QED BY <3>1, <4>1, <4>2
    <3>4. CASE j = Len(entries)
      <4>1. Len(used) - Len(entries) + j = Len(used) /\ Len(used) \in 1..Len(used)
            /\ ~(Len(used) < k) /\ ~(j < i)
        BY <1>4, <3>1, <3>4
      <4> HIDE DEF k
      <4>2. entries'[j] = entries[i] /\ used'[Len(used)] = schema
        BY <1>4, <1>5, <1>8, <3>4, <4>1
      <4> QED BY <1>2, <4>1, <4>2
    <3> QED BY <1>4, <3>2, <3>3, <3>4
  <2> QED BY <1>1, <1>5, <1>8, <2>1 DEF LastUsed
<1>10. \A j \in 1..Len(entries) : entries'[j].factory = factory
  BY <1>4, <1>5 DEF CacheInv, FactoryFits
<1>11. FactoryFits'
  <2>1. factory # 0
    BY <1>1, <1>2 DEF CacheInv, FactoryFits
  <2> QED BY <1>2, <1>3, <1>5, <1>10, <2>1 DEF CacheInv, FactoryFits, Cache!NoneLeaks
<1>12. Cache!TypeOK'
  BY <1>3, <1>5 DEF CacheInv, Cache!TypeOK
<1> QED BY <1>7, <1>9, <1>11, <1>12 DEF CacheInv

(* What is compiled goes last in the map; a map that is full drops its     *)
(* first.                                                                  *)
LEMMA Fills ==
    ASSUME NEW seq \in Seq(Cache!Entry), Len(seq) <= MaxEntries, NEW e \in Cache!Entry
    PROVE  LET kept == Cache!Evicted(Append(seq, e))
               gone == IF Len(seq) = MaxEntries THEN 1 ELSE 0
           IN  /\ kept \in Seq(Cache!Entry) /\ Len(kept) = Len(seq) + 1 - gone
               /\ \A j \in 1..Len(kept) :
                     kept[j] = IF j = Len(kept) THEN e ELSE seq[j + gone]
<1> DEFINE long == Append(seq, e)
<1>1. Len(seq) \in Nat /\ long \in Seq(Cache!Entry) /\ Len(long) = Len(seq) + 1
      /\ \A j \in 1..(Len(seq) + 1) : long[j] = IF j = Len(seq) + 1 THEN e ELSE seq[j]
  BY AppendProperties
<1> HIDE DEF long
<1>2. CASE Len(seq) = MaxEntries
  <2>1. Cache!Evicted(long) = Tail(long)
    BY <1>1, <1>2 DEF Cache!Evicted
  <2>2. Tail(long) \in Seq(Cache!Entry) /\ Len(Tail(long)) = Len(seq)
        /\ \A j \in 1..Len(seq) : Tail(long)[j] = long[j + 1]
    BY <1>1, HeadTailProperties
  <2>3. \A j \in 1..Len(seq) : long[j + 1] = IF j = Len(seq) THEN e ELSE seq[j + 1]
    BY <1>1
  <2> QED BY <1>1, <1>2, <2>1, <2>2, <2>3 DEF long
<1>3. CASE Len(seq) # MaxEntries
  <2>1. Cache!Evicted(long) = long
    BY <1>1, <1>3, CacheNumbers DEF Cache!Evicted
  <2>2. \A j \in 1..Len(long) : long[j] = IF j = Len(long) THEN e ELSE seq[j + 0]
    BY <1>1
  <2> QED BY <1>1, <1>3, <2>1, <2>2 DEF long
<1> QED BY <1>2, <1>3

LEMMA FillsLastUsed ==
    ASSUME entries \in Seq(Cache!Entry), used \in Seq(Schemas), Distinct(used),
           LastUsed(entries, used), NEW e \in Cache!Entry,
           \A i \in 1..Len(entries) : entries[i].schema # e.schema
    PROVE  LastUsed(Cache!Evicted(Append(entries, e)), Append(Cache!Without(used, e.schema), e.schema))
<1> DEFINE kept == Cache!Evicted(Append(entries, e))
           gone == IF Len(entries) = MaxEntries THEN 1 ELSE 0
           t == Append(Cache!Without(used, e.schema), e.schema)
<1>0. e.schema \in Schemas
  BY DEF Cache!Entry
<1>1. /\ Len(entries) \in Nat /\ Len(used) \in Nat
      /\ Len(entries) <= Len(used) /\ Len(entries) <= MaxEntries
      /\ Len(entries) = Len(used) \/ Len(entries) = MaxEntries
      /\ \A i \in 1..Len(entries) : entries[i].schema = used[Len(used) - Len(entries) + i]
  BY DEF LastUsed
<1>2. /\ Len(kept) = Len(entries) + 1 - gone
      /\ \A j \in 1..Len(kept) : kept[j] = IF j = Len(kept) THEN e ELSE entries[j + gone]
  BY <1>1, Fills
<1>3. \/ /\ \A i \in 1..Len(used) : used[i] # e.schema
         /\ t = Append(used, e.schema)
      \/ \E k \in 1..Len(used) :
            used[k] = e.schema /\ t = Append(Cache!RemoveAt(used, k), e.schema)
  BY <1>0, Uses
<1> HIDE DEF kept, t
<1>4. CASE t = Append(used, e.schema)
  <2>1. Len(t) = Len(used) + 1
        /\ \A j \in 1..(Len(used) + 1) : t[j] = IF j = Len(used) + 1 THEN e.schema ELSE used[j]
    BY <1>0, <1>4, AppendProperties
  <2>2. Len(t) - Len(kept) = (Len(used) - Len(entries)) + gone
    BY <1>1, <1>2, <2>1
  <2>3. ASSUME NEW j \in 1..Len(kept) PROVE kept[j].schema = t[Len(t) - Len(kept) + j]
    <3>1. CASE j = Len(kept)
      BY <1>1, <1>2, <2>1, <3>1
    <3>2. CASE j # Len(kept)
      <4> DEFINE n == Len(used) - Len(entries) + (j + gone)
      <4>1. j \in Nat /\ j >= 1 /\ j < Len(kept) /\ gone \in {0, 1}
        BY <1>1, <1>2, <3>2
      <4>2. j + gone \in 1..Len(entries) /\ n \in 1..Len(used)
        BY <1>1, <1>2, <4>1
      <4> HIDE DEF gone
      <4>3. Len(t) - Len(kept) + j = n
        BY <1>1, <1>2, <2>1, <4>1
      <4> HIDE DEF n
      <4>4. t[n] = used[n]
        BY <1>1, <2>1, <4>2
      <4>5. kept[j] = entries[j + gone]
        BY <1>2, <3>2
      <4> QED BY <1>1, <4>2, <4>3, <4>4, <4>5 DEF n
    <3> QED BY <3>1, <3>2
  <2>4. /\ Len(kept) <= Len(t) /\ Len(kept) <= MaxEntries
        /\ Len(kept) = Len(t) \/ Len(kept) = MaxEntries
    BY <1>1, <1>2, <2>1, CacheNumbers
  <2>5. LastUsed(kept, t)
    BY <2>3, <2>4 DEF LastUsed
  <2> QED BY <2>5 DEF kept, t
<1>5. ASSUME NEW k \in 1..Len(used), used[k] = e.schema,
             t = Append(Cache!RemoveAt(used, k), e.schema)
      PROVE  LastUsed(kept, t)
  <2>1. k <= Len(used) - Len(entries)
    <3> SUFFICES ASSUME k > Len(used) - Len(entries) PROVE FALSE
      BY <1>1
    <3> DEFINE i == k - (Len(used) - Len(entries))
    <3>1. i \in 1..Len(entries) /\ Len(used) - Len(entries) + i = k
      BY <1>1
    <3> HIDE DEF i
    <3>2. entries[i].schema = used[k]
      BY <1>1, <3>1
    <3> QED BY <1>5, <3>1, <3>2
  <2>2. Len(entries) = MaxEntries /\ gone = 1 /\ Len(kept) = Len(entries) /\ Len(entries) >= 1
    BY <1>1, <1>2, <2>1, CacheNumbers
  <2> HIDE DEF gone
  <2>3. /\ Len(t) = Len(used)
        /\ \A j \in 1..Len(used) :
              t[j] = IF j < k THEN used[j] ELSE IF j < Len(used) THEN used[j + 1] ELSE e.schema
    BY <1>0, <1>5, GoesLast
  <2>4. ASSUME NEW j \in 1..Len(kept) PROVE kept[j].schema = t[Len(t) - Len(kept) + j]
    <3>1. CASE j = Len(kept)
      <4>1. Len(t) - Len(kept) + j = Len(used) /\ Len(used) \in 1..Len(used) /\ ~(Len(used) < k)
        BY <1>1, <2>1, <2>2, <2>3, <3>1
      <4>2. t[Len(used)] = e.schema
        BY <1>1, <2>3, <4>1
      <4> QED BY <1>2, <3>1, <4>1, <4>2
    <3>2. CASE j # Len(kept)
      <4> DEFINE n == Len(used) - Len(entries) + j
      <4>1. /\ j + 1 \in 1..Len(entries) /\ Len(t) - Len(kept) + j = n
            /\ n \in 1..Len(used) /\ ~(n < k) /\ n < Len(used)
            /\ Len(used) - Len(entries) + (j + 1) = n + 1
        BY <1>1, <2>1, <2>2, <2>3, <3>2
      <4> HIDE DEF n
      <4>2. kept[j] = entries[j + 1] /\ t[n] = used[n + 1]
        BY <1>2, <2>2, <2>3, <3>2, <4>1
      <4> QED BY <1>1, <4>1, <4>2
    <3> QED BY <3>1, <3>2
  <2> QED BY <1>1, <2>2, <2>3, <2>4 DEF LastUsed
<1> QED BY <1>3, <1>4, <1>5 DEF kept, t

LEMMA MissKeeps ==
    ASSUME CacheInv, NEW schema \in Schemas, Cache!Miss(schema)
    PROVE  CacheInv'
<1>1. /\ entries \in Seq(Cache!Entry) /\ used \in Seq(Schemas)
      /\ Distinct(used) /\ LastUsed(entries, used) /\ Len(entries) \in Nat
  BY DEF CacheInv, Cache!TypeOK
<1>2. /\ ~disposed /\ ~Cache!Full /\ compiles' = compiles + 1
      /\ \A i \in 1..Len(entries) : entries[i].schema # schema
      /\ UNCHANGED <<disposedFactories, generation, disposed>>
      /\ used' = Append(Cache!Without(used, schema), schema)
  <2>1. DOMAIN entries = 1..Len(entries)
    BY <1>1
  <2> QED BY <2>1 DEF Cache!Miss, Cache!Missing
<1>3. /\ made' \in 0..MaxFactories /\ factory' \in 1..made'
      /\ \/ factory = 0 /\ made' = made + 1 /\ factory' = made'
         \/ factory # 0 /\ made' = made /\ factory' = factory
  BY CacheNumbers DEF Cache!Miss, CacheInv, Cache!TypeOK, FactoryFits
<1>4. PICK compiled \in BOOLEAN :
         LET entry == [schema |-> schema, factory |-> factory', compiled |-> compiled]
         IN  entries' = Cache!Evicted(Append(entries, entry)) /\ given' = entry
  BY DEF Cache!Miss, Cache!Compile
<1> DEFINE e == [schema |-> schema, factory |-> factory', compiled |-> compiled]
<1>5. e \in Cache!Entry /\ e.schema = schema /\ e.factory = factory'
  BY <1>3, CacheNumbers DEF Cache!Entry
<1>6. entries' = Cache!Evicted(Append(entries, e)) /\ given' = e
  BY <1>4
<1> HIDE DEF e
<1>7. Len(entries) <= MaxEntries
  BY <1>1 DEF LastUsed
<1>8. /\ entries' \in Seq(Cache!Entry)
      /\ \A j \in 1..Len(entries') : entries'[j] = e
            \/ \E i \in 1..Len(entries) : entries'[j] = entries[i]
  <2> DEFINE gone == IF Len(entries) = MaxEntries THEN 1 ELSE 0
  <2>1. /\ entries' \in Seq(Cache!Entry) /\ Len(entries') = Len(entries) + 1 - gone
        /\ \A j \in 1..Len(entries') :
              entries'[j] = IF j = Len(entries') THEN e ELSE entries[j + gone]
    BY <1>1, <1>5, <1>6, <1>7, Fills
  <2>2. ASSUME NEW j \in 1..Len(entries'), j # Len(entries')
        PROVE  j + gone \in 1..Len(entries)
    BY <1>1, <2>1, <2>2
  <2> HIDE DEF gone
  <2> QED BY <2>1, <2>2
<1>9. LastUsed(entries', used')
  BY <1>1, <1>2, <1>5, <1>6, FillsLastUsed
<1>10. used' \in Seq(Schemas) /\ Distinct(used')
  BY <1>1, <1>2, Uses
<1>11. \A i \in 1..Len(entries) : entries[i].factory = factory'
  BY <1>1, <1>3 DEF CacheInv, FactoryFits
<1>12. \A j \in 1..Len(entries') : entries'[j].factory = factory'
  BY <1>5, <1>8, <1>11
<1>13. compiles' \in Nat /\ compiles' <= MaxCompiles
  BY <1>2, <1>3, CacheNumbers DEF CacheInv, FactoryFits, Cache!TypeOK, Cache!Full
<1>14. /\ made \in 0..MaxFactories /\ factory \in 0..MaxFactories /\ factory <= made
       /\ disposedFactories \subseteq 1..made /\ factory \notin disposedFactories
       /\ Cache!NoneLeaks
  BY DEF CacheInv, FactoryFits, Cache!TypeOK
<1>15. Cache!NoneLeaks' /\ factory' \notin disposedFactories' /\ disposedFactories' \subseteq 1..made'
  <2>1. CASE factory = 0
    <3>1. made' = made + 1 /\ factory' = made' /\ disposedFactories' = disposedFactories
      BY <1>2, <1>3, <2>1
    <3>2. (1..made) \ disposedFactories = {} /\ 1..(made + 1) = (1..made) \cup {made + 1}
          /\ made + 1 \notin disposedFactories /\ made + 1 # 0
      BY <1>14, <2>1, CacheNumbers DEF Cache!NoneLeaks
    <3> QED BY <1>14, <3>1, <3>2 DEF Cache!NoneLeaks
  <2>2. CASE factory # 0
    BY <1>2, <1>3, <1>14, <2>2 DEF Cache!NoneLeaks
  <2> QED BY <2>1, <2>2
<1>16. FactoryFits'
  BY <1>2, <1>3, <1>5, <1>6, <1>12, <1>13, <1>15, CacheNumbers DEF FactoryFits
<1>17. Cache!TypeOK'
  BY <1>2, <1>3, <1>8, <1>13, CacheNumbers DEF CacheInv, Cache!TypeOK
<1> QED BY <1>9, <1>10, <1>16, <1>17 DEF CacheInv, LastUsed, Distinct

LEMMA MissReplacingKeeps ==
    ASSUME CacheInv, NEW schema \in Schemas, Cache!MissReplacing(schema)
    PROVE  CacheInv'
<1>1. /\ made \in 0..MaxFactories /\ factory \in 0..MaxFactories /\ factory <= made
      /\ disposedFactories \subseteq 1..made /\ factory \notin disposedFactories
      /\ Cache!NoneLeaks /\ generation \in Nat /\ disposed \in BOOLEAN
  BY DEF CacheInv, FactoryFits, Cache!TypeOK
<1>2. /\ factory # 0 /\ made < MaxFactories /\ made' = made + 1 /\ factory' = made + 1
      /\ disposedFactories' = disposedFactories \cup {factory}
      /\ generation' = generation + 1 /\ compiles' = 1
      /\ used' = <<schema>> /\ UNCHANGED disposed /\ ~disposed
  BY DEF Cache!MissReplacing, Cache!Full, Cache!Missing
<1>3. PICK compiled \in BOOLEAN :
         LET entry == [schema |-> schema, factory |-> factory', compiled |-> compiled]
         IN  entries' = Cache!Evicted(Append(<<>>, entry)) /\ given' = entry
  BY DEF Cache!MissReplacing, Cache!Compile
<1> DEFINE e == [schema |-> schema, factory |-> factory', compiled |-> compiled]
<1>4. e \in Cache!Entry /\ e.schema = schema /\ e.factory = factory'
  BY <1>1, <1>2, CacheNumbers DEF Cache!Entry
<1>5. entries' = Cache!Evicted(Append(<<>>, e)) /\ given' = e
  BY <1>3
<1> HIDE DEF e
<1>6. entries' = <<e>>
  BY <1>5, CacheNumbers DEF Cache!Evicted
<1>7. used' \in Seq(Schemas) /\ Distinct(used') /\ LastUsed(entries', used')
  BY <1>2, <1>4, <1>6, CacheNumbers DEF Distinct, LastUsed
<1>8. entries' \in Seq(Cache!Entry) /\ \A j \in 1..Len(entries') : entries'[j].factory = factory'
  BY <1>4, <1>6
<1>9. Cache!NoneLeaks' /\ factory' \notin disposedFactories' /\ disposedFactories' \subseteq 1..made'
  <2>1. (1..made) \ disposedFactories = {factory} /\ 1..(made + 1) = (1..made) \cup {made + 1}
        /\ made + 1 \notin disposedFactories /\ made + 1 # factory /\ made + 1 # 0
    BY <1>1, <1>2, CacheNumbers DEF Cache!NoneLeaks
  <2>2. disposedFactories' \subseteq 1..made'
    BY <1>1, <1>2, CacheNumbers
  <2> QED BY <1>2, <2>1, <2>2 DEF Cache!NoneLeaks
<1>10. FactoryFits'
  BY <1>1, <1>2, <1>4, <1>5, <1>8, <1>9, CacheNumbers DEF FactoryFits
<1>11. Cache!TypeOK'
  BY <1>1, <1>2, <1>8, <1>9, CacheNumbers DEF Cache!TypeOK
<1> QED BY <1>7, <1>10, <1>11 DEF CacheInv, LastUsed, Distinct

LEMMA ResetKeeps ==
    ASSUME CacheInv, Cache!Reset, UNCHANGED disposed \/ disposed' = TRUE
    PROVE  CacheInv'
<1>1. /\ made \in 0..MaxFactories /\ factory \in 0..MaxFactories /\ factory <= made
      /\ disposedFactories \subseteq 1..made /\ factory \notin disposedFactories
      /\ Cache!NoneLeaks /\ disposed \in BOOLEAN
  BY DEF CacheInv, FactoryFits, Cache!TypeOK
<1>2. /\ factory' = 0 /\ entries' = <<>> /\ compiles' = 0 /\ generation' = 0
      /\ used' = <<>> /\ given' = Cache!NoEntry /\ UNCHANGED made
      /\ disposedFactories' = IF factory = 0 THEN disposedFactories
                              ELSE disposedFactories \cup {factory}
  BY DEF Cache!Reset
<1>3. disposedFactories' \subseteq 1..made' /\ (1..made') \ disposedFactories' = {}
      /\ 0 \notin disposedFactories'
  BY <1>1, <1>2, CacheNumbers DEF Cache!NoneLeaks
<1>4. FactoryFits'
  BY <1>1, <1>2, <1>3, CacheNumbers DEF FactoryFits, Cache!NoneLeaks
<1>5. Cache!TypeOK'
  <2>1. entries' \in Seq(Cache!Entry)
    BY <1>2
  <2>2. factory' \in 0..MaxFactories /\ made' \in 0..MaxFactories
    BY <1>1, <1>2, CacheNumbers
  <2>3. disposedFactories' \subseteq 1..MaxFactories
    BY <1>1, <1>3, <2>2, CacheNumbers
  <2>4. disposed' \in BOOLEAN
    BY <1>1
  <2> QED BY <1>2, <2>1, <2>2, <2>3, <2>4 DEF Cache!TypeOK
<1>6. used' \in Seq(Schemas) /\ Distinct(used)' /\ LastUsed(entries, used)'
  BY <1>2, CacheNumbers DEF Distinct, LastUsed
<1> QED BY <1>4, <1>5, <1>6 DEF CacheInv

LEMMA CacheStarts == Cache!Init => CacheInv
<1> SUFFICES ASSUME Cache!Init PROVE CacheInv
  OBVIOUS
<1>1. /\ entries = <<>> /\ factory = 0 /\ disposedFactories = {}
      /\ generation = 0 /\ compiles = 0 /\ disposed = FALSE
      /\ given = Cache!NoEntry /\ used = <<>> /\ made = 0
  BY DEF Cache!Init
<1>2. Cache!TypeOK
  <2>1. entries \in Seq(Cache!Entry) /\ factory \in 0..MaxFactories /\ made \in 0..MaxFactories
    BY <1>1, CacheNumbers
  <2> QED BY <1>1, <2>1 DEF Cache!TypeOK
<1>3. FactoryFits
  BY <1>1, CacheNumbers DEF FactoryFits, Cache!NoneLeaks
<1>4. used \in Seq(Schemas) /\ Distinct(used) /\ LastUsed(entries, used)
  BY <1>1, CacheNumbers DEF Distinct, LastUsed
<1> QED BY <1>2, <1>3, <1>4 DEF CacheInv

LEMMA CacheSteps ==
    ASSUME CacheInv, Cache!Next
    PROVE  CacheInv'
BY HitKeeps, MissKeeps, MissReplacingKeeps, ResetKeeps DEF Cache!Next, Cache!Clear, Cache!Dispose

LEMMA CacheStays ==
    ASSUME CacheInv, UNCHANGED cache
    PROVE  CacheInv'
BY DEF cache, CacheInv, Cache!TypeOK, FactoryFits, Cache!NoneLeaks, Distinct, LastUsed

-----------------------------------------------------------------------------
(* An operation on a document that strict mode lets through. *)
LEMMA SetsAlike ==
    ASSUME NEW d, NEW path, NEW v, NEW insert, NEW append,
           Patch!SetPath(d, path, v, TRUE, insert, append) # Patch!Failed
    PROVE  Patch!SetPath(d, path, v, FALSE, insert, append)
             = Patch!SetPath(d, path, v, TRUE, insert, append)
<1> DEFINE target == Patch!At(d, Patch!Front(Patch!Parsed(path)))
           s == Patch!Last(Patch!Parsed(path))
<1>1. ~(path = <<>> \/ Patch!Refused(path) \/ target = Patch!Undefined)
  BY DEF Patch!SetPath
<1>2. Patch!SetIn(target, s, v, TRUE, insert, append) # Patch!Failed
  BY <1>1 DEF Patch!SetPath, Patch!PutBack
<1>3. Patch!SetIn(target, s, v, FALSE, insert, append)
        = Patch!SetIn(target, s, v, TRUE, insert, append)
  <2> HIDE DEF target, s
  <2>1. CASE target.kind = "array"
    BY <2>1 DEF Patch!SetIn
  <2>2. CASE target.kind # "array"
    BY <1>2, <2>2 DEF Patch!SetIn
  <2> QED BY <2>1, <2>2
<1> HIDE DEF target, s
<1> QED BY <1>1, <1>3 DEF Patch!SetPath, target, s

LEMMA DeletesAlike ==
    ASSUME NEW d, NEW path, Patch!DeletePath(d, path, TRUE) # Patch!Failed
    PROVE  Patch!DeletePath(d, path, FALSE) = Patch!DeletePath(d, path, TRUE)
<1> DEFINE target == Patch!At(d, Patch!Front(Patch!Parsed(path)))
           s == Patch!Last(Patch!Parsed(path))
<1>1. path # <<>> /\ ~Patch!Refused(path) /\ target # Patch!Undefined
  BY DEF Patch!DeletePath
<1>2. Patch!DeleteIn(target, s, TRUE) # Patch!Failed
  BY <1>1 DEF Patch!DeletePath, Patch!PutBack
<1>3. Patch!DeleteIn(target, s, FALSE) = Patch!DeleteIn(target, s, TRUE)
  <2> HIDE DEF target, s
  <2> QED BY <1>2 DEF Patch!DeleteIn
<1> HIDE DEF target, s
<1> QED BY <1>1, <1>3 DEF Patch!DeletePath, target, s

(* What strict mode lets through is the same without it. *)
LEMMA LenientIsStrict ==
    ASSUME NEW d, NEW p \in Patch!Operations, Patch!Apply(d, p, TRUE) # Patch!Failed
    PROVE  Patch!Apply(d, p, FALSE) = Patch!Apply(d, p, TRUE)
<1>1. CASE p.op = "add"
  BY <1>1 DEF Patch!Apply
<1>2. CASE p.op = "replace"
  BY <1>2, SetsAlike DEF Patch!Apply
<1>3. CASE p.op = "set"
  BY <1>3 DEF Patch!Apply
<1>4. CASE p.op = "remove"
  BY <1>4, DeletesAlike DEF Patch!Apply
<1>5. CASE p.op = "copy"
  BY <1>5 DEF Patch!Apply
<1>6. CASE p.op = "move"
  BY <1>6, DeletesAlike DEF Patch!Apply
<1>7. CASE p.op = "test"
  BY <1>7 DEF Patch!Apply
<1> QED BY <1>1, <1>2, <1>3, <1>4, <1>5, <1>6, <1>7 DEF Patch!Operations

LEMMA AlwaysLenient == Patch!LenientAgrees
BY LenientIsStrict DEF Patch!LenientAgrees

-----------------------------------------------------------------------------
(* In strict mode the operation p makes a into b, which is an object. *)
Does(a, b, p) == b = Patch!Apply(a, p, TRUE) /\ b.kind = "object"

(* Operations that make one document into another, one after the other.    *)
Leads(a, b, ps) ==
    /\ \E S : ps \in Seq(S)
    /\ \E w : /\ w[0] = a /\ w[Len(ps)] = b
              /\ \A i \in 1..Len(ps) : Does(w[i - 1], w[i], ps[i])

LEMMA LeadsNowhere == \A a : Leads(a, a, <<>>)
<1> SUFFICES ASSUME NEW a PROVE Leads(a, a, <<>>)
  OBVIOUS
<1>1. <<>> \in Seq({}) /\ Len(<<>>) = 0
  OBVIOUS
<1> DEFINE w == [i \in {0} |-> a]
<1>2. w[0] = a /\ w[Len(<<>>)] = a
  BY <1>1
<1>3. \A i \in 1..Len(<<>>) : FALSE
  BY <1>1
<1> HIDE DEF w
<1> QED BY <1>1, <1>2, <1>3, Zenon DEF Leads

LEMMA LeadsAlong ==
    ASSUME NEW n \in Nat, NEW w, NEW ps, NEW S, ps \in Seq(S), Len(ps) = n,
           \A i \in 1..n : Does(w[i - 1], w[i], ps[i])
    PROVE  Leads(w[0], w[n], ps)
BY Zenon DEF Leads

LEMMA LeadsOne ==
    ASSUME NEW a, NEW b, NEW p, Does(a, b, p)
    PROVE  Leads(a, b, <<p>>)
<1> DEFINE w == [i \in {0, 1} |-> IF i = 0 THEN a ELSE b]
           ps == <<p>>
<1>1. ps \in Seq({p}) /\ Len(ps) = 1 /\ ps[1] = p
  OBVIOUS
<1>2. w[0] = a /\ w[1] = b
  OBVIOUS
<1>3. \A i \in 1..1 : i = 1 /\ i - 1 = 0
  OBVIOUS
<1> HIDE DEF w, ps
<1>4. \A i \in 1..1 : Does(w[i - 1], w[i], ps[i])
  BY <1>1, <1>2, <1>3, Zenon
<1>5. Leads(w[0], w[1], ps)
  BY <1>1, <1>4, LeadsAlong
<1> QED BY <1>2, <1>5 DEF ps

LEMMA Wider ==
    ASSUME NEW S, NEW T, NEW s \in Seq(S)
    PROVE  s \in Seq(S \cup T) /\ s \in Seq(T \cup S)
OBVIOUS

LEMMA LeadsOn ==
    ASSUME NEW a, NEW b, NEW c, NEW ps, NEW qs, Leads(a, b, ps), Leads(b, c, qs)
    PROVE  Leads(a, c, ps \o qs)
<1>1. PICK S : ps \in Seq(S)
  BY DEF Leads
<1>2. PICK T : qs \in Seq(T)
  BY DEF Leads
<1>3. PICK v : /\ v[0] = a /\ v[Len(ps)] = b
               /\ \A i \in 1..Len(ps) :
                     Does(v[i - 1], v[i], ps[i])
  BY Zenon DEF Leads
<1>4. PICK w : /\ w[0] = b /\ w[Len(qs)] = c
               /\ \A i \in 1..Len(qs) :
                     Does(w[i - 1], w[i], qs[i])
  BY Zenon DEF Leads
<1> DEFINE n == Len(ps)
           m == Len(qs)
           rs == ps \o qs
           u == [i \in 0..(n + m) |-> IF i <= n THEN v[i] ELSE w[i - n]]
<1>5. n \in Nat /\ m \in Nat
  BY <1>1, <1>2, LenProperties
<1>6. /\ rs \in Seq(S \cup T) /\ Len(rs) = n + m
      /\ \A i \in 1..(n + m) : rs[i] = IF i <= n THEN ps[i] ELSE qs[i - n]
  <2>1. ps \in Seq(S \cup T) /\ qs \in Seq(S \cup T)
    BY <1>1, <1>2, Wider
  <2> QED BY <2>1, ConcatProperties
<1>7. \A i \in 1..(n + m) : ~(i <= n) => i - n \in 1..m /\ (i - n) - 1 = (i - 1) - n
  BY <1>5
<1> HIDE DEF n, m, rs, u
<1>8. \A i \in 0..(n + m) : u[i] = IF i <= n THEN v[i] ELSE w[i - n]
  BY DEF u
<1>9. /\ u[0] = a /\ u[n + m] = c
      /\ \A i \in 0..(n + m) : i >= n => u[i] = w[i - n]
  <2>1. u[0] = a
    BY <1>3, <1>5, <1>8
  <2>2. ASSUME NEW i \in 0..(n + m), i >= n PROVE u[i] = w[i - n]
    <3>1. CASE i = n
      <4>1. u[i] = v[n] /\ i - n = 0
        BY <1>5, <1>8, <2>2, <3>1
      <4> QED BY <1>3, <1>4, <4>1 DEF n
    <3>2. CASE i # n
      BY <1>5, <1>8, <2>2, <3>2
    <3> QED BY <3>1, <3>2
  <2>3. n + m \in 0..(n + m) /\ n + m >= n /\ (n + m) - n = m
    BY <1>5
  <2>4. u[n + m] = w[m]
    BY <2>2, <2>3
  <2> QED BY <1>4, <2>1, <2>2, <2>4 DEF m
<1>10. ASSUME NEW i \in 1..(n + m)
       PROVE  Does(u[i - 1], u[i], rs[i])
  <2>0. i \in 0..(n + m) /\ i - 1 \in 0..(n + m)
    BY <1>5
  <2>1. CASE i <= n
    <3>1. i \in 1..n /\ i - 1 <= n
      BY <1>5, <2>1
    <3>2. u[i] = v[i] /\ u[i - 1] = v[i - 1] /\ rs[i] = ps[i]
      BY <1>6, <1>8, <2>0, <2>1, <3>1
    <3> QED BY <1>3, <3>1, <3>2, Zenon DEF n
  <2>2. CASE ~(i <= n)
    <3>1. i - n \in 1..m /\ (i - n) - 1 = (i - 1) - n /\ i - 1 >= n /\ i >= n
      BY <1>5, <1>7, <2>2
    <3>2. u[i] = w[i - n] /\ u[i - 1] = w[(i - n) - 1] /\ rs[i] = qs[i - n]
      BY <1>6, <1>9, <2>0, <2>2, <3>1
    <3> QED BY <1>4, <3>1, <3>2, Zenon DEF m
  <2> QED BY <2>1, <2>2
<1>11. n + m \in Nat
  BY <1>5
<1>12. Leads(u[0], u[n + m], rs)
  BY <1>6, <1>10, <1>11, LeadsAlong
<1> QED BY <1>9, <1>12 DEF rs

LEMMA LeadsFirst ==
    ASSUME NEW a, NEW b, NEW ps, Leads(a, b, ps), ps # <<>>
    PROVE  LET next == Patch!Apply(a, Head(ps), TRUE)
           IN  next.kind = "object" /\ Leads(next, b, Tail(ps))
<1>1. PICK S : ps \in Seq(S)
  BY DEF Leads
<1>2. PICK v : /\ v[0] = a /\ v[Len(ps)] = b
               /\ \A i \in 1..Len(ps) :
                     Does(v[i - 1], v[i], ps[i])
  BY Zenon DEF Leads
<1> DEFINE qs == Tail(ps)
           m == Len(ps) - 1
           w == [i \in 0..m |-> v[i + 1]]
<1>3. /\ qs \in Seq(S) /\ Len(qs) = m /\ m \in Nat /\ Head(ps) = ps[1] /\ Len(ps) = m + 1
      /\ \A i \in 1..m : qs[i] = ps[i + 1]
  <2>1. Len(ps) \in Nat /\ Len(ps) # 0
    BY <1>1, EmptySeq, LenProperties
  <2>2. Len(ps) \in Nat /\ m \in Nat /\ Len(ps) = m + 1 /\ \A i \in 1..m : i \in 1..(Len(ps) - 1)
    BY <2>1
  <2> QED BY <1>1, <2>2, HeadTailProperties
<1> HIDE DEF qs, m, w
<1>4. \A i \in 0..m : w[i] = v[i + 1]
  BY DEF w
<1>5. w[0] = v[1] /\ w[m] = b
  BY <1>2, <1>3, <1>4
<1>6. ASSUME NEW i \in 1..m
      PROVE  Does(w[i - 1], w[i], qs[i])
  <2>1. i + 1 \in 1..Len(ps) /\ i \in 0..m /\ i - 1 \in 0..m /\ (i + 1) - 1 = i /\ (i - 1) + 1 = i
    BY <1>3
  <2>2. w[i] = v[i + 1] /\ w[i - 1] = v[i] /\ qs[i] = ps[i + 1]
    BY <1>3, <1>4, <2>1
  <2>3. Does(v[(i + 1) - 1], v[i + 1], ps[i + 1])
    BY <1>2, <2>1, Zenon
  <2> QED BY <2>1, <2>2, <2>3, Zenon
<1>7. Leads(w[0], w[m], qs)
  BY <1>3, <1>6, LeadsAlong
<1>8. Does(a, v[1], Head(ps))
  <2>1. 1 \in 1..Len(ps) /\ 1 - 1 = 0
    BY <1>3
  <2>2. Does(v[1 - 1], v[1], ps[1])
    BY <1>2, <2>1, Zenon
  <2> QED BY <1>2, <1>3, <2>1, <2>2, Zenon
<1> QED BY <1>5, <1>7, <1>8 DEF qs, Does

LEMMA LeadsNone ==
    ASSUME NEW a, NEW b, Leads(a, b, <<>>)
    PROVE  a = b
<1>1. Len(<<>>) = 0
  OBVIOUS
<1> QED BY <1>1 DEF Leads

(* Sequences one behind the other, up to the k-th. *)
Flat(seqs, n, f) == f = [i \in 1..n |-> IF i = 1 THEN seqs[i] ELSE f[i - 1] \o seqs[i]]

LEMMA Flattening ==
    ASSUME NEW seqs, NEW n \in Nat
    PROVE  \E f : Flat(seqs, n, f)
<1> DEFINE S == {k \in Nat : \E f : Flat(seqs, k, f)}
<1>1. 0 \in S
  <2> DEFINE f == [i \in {} |-> i]
  <2>1. Flat(seqs, 0, f)
    <3>1. 1..0 = {}
      OBVIOUS
    <3> QED BY <3>1 DEF Flat
  <2> QED BY <2>1
<1>2. ASSUME NEW k \in S, k >= 0 PROVE k + 1 \in S
  <2>1. k \in Nat
    OBVIOUS
  <2>2. PICK f : Flat(seqs, k, f)
    OBVIOUS
  <2> DEFINE g == [i \in 1..(k + 1) |->
                      IF i <= k THEN f[i] ELSE IF i = 1 THEN seqs[i] ELSE f[i - 1] \o seqs[i]]
  <2>3. ASSUME NEW i \in 1..(k + 1)
        PROVE  g[i] = IF i = 1 THEN seqs[i] ELSE g[i - 1] \o seqs[i]
    <3>1. CASE i = 1
      <4>1. i <= k => i \in 1..k
        BY <2>1, <3>1
      <4>2. i <= k => f[i] = seqs[i]
        BY <2>2, <3>1, <4>1 DEF Flat
      <4> QED BY <3>1, <4>2
    <3>2. CASE i # 1
      <4>1. i - 1 \in 1..(k + 1) /\ i - 1 <= k /\ (i <= k => i \in 1..k)
        BY <2>1, <3>2
      <4>2. i <= k => f[i] = f[i - 1] \o seqs[i]
        BY <2>2, <3>2, <4>1 DEF Flat
      <4> QED BY <3>2, <4>1, <4>2
    <3> QED BY <3>1, <3>2
  <2>4. Flat(seqs, k + 1, g)
    <3> HIDE DEF g
    <3>1. g = [i \in 1..(k + 1) |-> g[i]]
      BY DEF g
    <3> QED BY <2>3, <3>1 DEF Flat
  <2> HIDE DEF g
  <2> QED BY <2>1, <2>4
<1>3. S \in SUBSET Nat
  OBVIOUS
<1> HIDE DEF S
<1>4. \A k \in Nat : k >= 0 => k \in S
  BY <1>1, <1>2, <1>3, Upwards
<1>5. n \in S
  BY <1>4
<1> QED BY <1>5 DEF S

LEMMA LeadsAll ==
    ASSUME NEW n \in Nat, NEW w, NEW parts, parts = [i \in 1..n |-> parts[i]],
           \A i \in 1..n : Leads(w[i - 1], w[i], parts[i])
    PROVE  Leads(w[0], w[n], Patch!FlattenSeq(parts))
<1>1. Len(parts) = n
  <2>1. parts \in [1..n -> {parts[i] : i \in 1..n}]
    OBVIOUS
  <2> QED BY <2>1
<1>2. CASE n = 0
  <2>1. parts = <<>>
    <3>1. 1..n = {}
      BY <1>2
    <3> QED BY <3>1
  <2> QED BY <1>1, <1>2, <2>1, LeadsNowhere DEF Patch!FlattenSeq
<1>3. CASE n # 0
  <2> DEFINE flatten == CHOOSE f : Flat(parts, n, f)
  <2>1. Patch!FlattenSeq(parts) = flatten[n]
    BY <1>1, <1>3 DEF Patch!FlattenSeq, Flat
  <2>2. flatten = [i \in 1..n |-> IF i = 1 THEN parts[i] ELSE flatten[i - 1] \o parts[i]]
    <3>1. Flat(parts, n, flatten)
      BY Flattening
    <3> QED BY <3>1 DEF Flat
  <2> HIDE DEF flatten
  <2> DEFINE S == {k \in Nat : k >= 1 /\ (k <= n => Leads(w[0], w[k], flatten[k]))}
  <2>3. 1 \in S
    <3>1. 1 \in 1..n /\ 1 - 1 = 0
      BY <1>3
    <3>2. flatten[1] = parts[1]
      BY <2>2, <3>1
    <3>3. Leads(w[0], w[1], parts[1])
      BY <3>1
    <3> QED BY <3>2, <3>3
  <2>4. ASSUME NEW k \in S PROVE k + 1 \in S
    <3>1. k \in Nat /\ k >= 1 /\ (k <= n => Leads(w[0], w[k], flatten[k]))
      OBVIOUS
    <3> HIDE DEF S
    <3>2. ASSUME k + 1 <= n PROVE Leads(w[0], w[k + 1], flatten[k + 1])
      <4>1. k + 1 \in 1..n /\ k + 1 # 1 /\ (k + 1) - 1 = k /\ k <= n
        BY <3>1, <3>2
      <4>2. flatten[k + 1] = flatten[k] \o parts[k + 1]
        BY <2>2, <4>1
      <4>3. Leads(w[k], w[k + 1], parts[k + 1])
        BY <4>1
      <4> QED BY <3>1, <4>1, <4>2, <4>3, LeadsOn
    <3> QED BY <3>1, <3>2 DEF S
  <2> HIDE DEF S
  <2>5. n \in S
    <3>1. S \in SUBSET Nat
      BY DEF S
    <3> QED BY <1>3, <2>3, <2>4, <3>1, Upwards
  <2>6. Leads(w[0], w[n], flatten[n])
    BY <2>5 DEF S
  <2> QED BY <2>1, <2>6
<1> QED BY <1>2, <1>3

(* What stands at the end of a path: a path of one more segment leads to a *)
(* member of what stands where it leads without.                           *)
Gets(d, path, n, f) ==
    f = [i \in 0..n |-> IF i = 0 THEN d ELSE Patch!Member(f[i - 1], path[i])]

LEMMA Getting ==
    ASSUME NEW d, NEW path, NEW n \in Nat
    PROVE  \E f : Gets(d, path, n, f)
<1> DEFINE S == {k \in Nat : \E f : Gets(d, path, k, f)}
<1>1. 0 \in S
  <2> DEFINE f == [i \in 0..0 |-> d]
  <2>1. Gets(d, path, 0, f)
    BY DEF Gets
  <2> HIDE DEF f
  <2> QED BY <2>1
<1>2. ASSUME NEW k \in S, k >= 0 PROVE k + 1 \in S
  <2>1. k \in Nat
    OBVIOUS
  <2>2. PICK f : Gets(d, path, k, f)
    OBVIOUS
  <2> DEFINE g == [i \in 0..(k + 1) |-> IF i <= k THEN f[i] ELSE Patch!Member(f[i - 1], path[i])]
  <2>3. ASSUME NEW i \in 0..(k + 1)
        PROVE  g[i] = IF i = 0 THEN d ELSE Patch!Member(g[i - 1], path[i])
    <3>1. CASE i = 0
      BY <2>1, <2>2, <3>1 DEF Gets
    <3>2. CASE i # 0
      <4>1. i - 1 \in 0..(k + 1) /\ i - 1 <= k /\ (i <= k => i \in 0..k)
        BY <2>1, <3>2
      <4>2. i <= k => f[i] = Patch!Member(f[i - 1], path[i])
        BY <2>2, <3>2, <4>1 DEF Gets
      <4> QED BY <3>2, <4>1, <4>2
    <3> QED BY <3>1, <3>2
  <2>4. Gets(d, path, k + 1, g)
    <3> HIDE DEF g
    <3>1. g = [i \in 0..(k + 1) |-> g[i]]
      BY DEF g
    <3> QED BY <2>3, <3>1 DEF Gets
  <2> HIDE DEF g
  <2> QED BY <2>1, <2>4
<1>3. S \in SUBSET Nat
  OBVIOUS
<1> HIDE DEF S
<1>4. \A k \in Nat : k >= 0 => k \in S
  BY <1>1, <1>2, <1>3, Upwards
<1>5. n \in S
  BY <1>4
<1> QED BY <1>5 DEF S

(* What a path comes by. *)
Trail(d, path, f) ==
    /\ f[0] = d /\ Patch!At(d, path) = f[Len(path)]
    /\ \A i \in 1..Len(path) : f[i] = Patch!Member(f[i - 1], path[i])

LEMMA GetTrail ==
    ASSUME NEW d, NEW path, Len(path) \in Nat
    PROVE  \E f : Trail(d, path, f)
<1> DEFINE n == Len(path)
           get == CHOOSE f : Gets(d, path, n, f)
<1>1. n \in Nat
  OBVIOUS
<1>2. Patch!At(d, path) = get[n]
  BY DEF Patch!At, Gets
<1>3. get = [i \in 0..n |-> IF i = 0 THEN d ELSE Patch!Member(get[i - 1], path[i])]
  <2>1. Gets(d, path, n, get)
    BY <1>1, Getting
  <2> HIDE DEF get
  <2> QED BY <2>1 DEF Gets
<1> HIDE DEF get, n
<1>4. get[0] = d /\ \A i \in 1..n : get[i] = Patch!Member(get[i - 1], path[i])
  BY <1>1, <1>3
<1>5. Trail(d, path, get)
  BY <1>2, <1>4 DEF n, Trail
<1> QED BY <1>5

LEMMA GetTrails ==
    ASSUME NEW d, NEW path, NEW path2, NEW f, NEW g, Trail(d, path, f), Trail(d, path2, g),
           NEW n \in Nat, \A i \in 1..n : i \in 1..Len(path) /\ i \in 1..Len(path2) /\ path[i] = path2[i]
    PROVE  f[n] = g[n]
<1>0. /\ f[0] = g[0]
      /\ \A i \in 1..n : f[i] = Patch!Member(f[i - 1], path[i]) /\ g[i] = Patch!Member(g[i - 1], path[i])
  BY DEF Trail
<1> DEFINE S == {k \in Nat : k <= n => f[k] = g[k]}
<1>1. 0 \in S
  BY <1>0
<1>2. ASSUME NEW k \in S PROVE k + 1 \in S
  <2>1. k \in Nat /\ (k <= n => f[k] = g[k])
    OBVIOUS
  <2>2. k + 1 <= n => k + 1 \in 1..n /\ (k + 1) - 1 = k /\ k <= n
    BY <2>1
  <2>3. k + 1 <= n => f[k + 1] = Patch!Member(f[k], path[k + 1]) /\ g[k + 1] = Patch!Member(g[k], path[k + 1])
    BY <1>0, <2>2
  <2>4. k + 1 <= n => f[k + 1] = g[k + 1]
    BY <2>1, <2>2, <2>3
  <2> QED BY <2>1, <2>4
<1>3. S \in SUBSET Nat
  OBVIOUS
<1> HIDE DEF S
<1>4. n \in S
  BY <1>1, <1>2, <1>3, Upwards
<1> QED BY <1>4 DEF S

LEMMA GetRoot == \A d : Patch!At(d, <<>>) = d
<1> SUFFICES ASSUME NEW d PROVE Patch!At(d, <<>>) = d
  OBVIOUS
<1>1. <<>> \in Seq({}) /\ Len(<<>>) = 0
  OBVIOUS
<1>2. PICK f : Trail(d, <<>>, f)
  <2>1. Len(<<>>) \in Nat
    BY <1>1
  <2> QED BY <2>1, GetTrail
<1> QED BY <1>1, <1>2 DEF Trail

LEMMA GetMember ==
    ASSUME NEW d, NEW T, NEW path \in Seq(T), NEW s \in T
    PROVE  Patch!At(d, Append(path, s)) = Patch!Member(Patch!At(d, path), s)
<1> DEFINE n == Len(path)
           longer == Append(path, s)
<1>1. n \in Nat /\ longer \in Seq(T) /\ Len(longer) = n + 1 /\ longer[n + 1] = s
      /\ \A i \in 1..n : longer[i] = path[i]
  BY AppendProperties, LenProperties
<1> HIDE DEF longer
<1>0. Len(path) \in Nat /\ Len(longer) \in Nat
  BY <1>1
<1>2. PICK f : Trail(d, path, f)
  BY <1>0, GetTrail
<1>3. PICK g : Trail(d, longer, g)
  BY <1>0, GetTrail
<1> HIDE DEF n
<1>4. \A i \in 1..n : i \in 1..Len(path) /\ i \in 1..Len(longer) /\ path[i] = longer[i]
  BY <1>1 DEF n
<1>5. f[n] = g[n]
  BY <1>1, <1>2, <1>3, <1>4, GetTrails
<1>6. n + 1 \in 1..Len(longer) /\ (n + 1) - 1 = n
  BY <1>1
<1>7. g[n + 1] = Patch!Member(g[n], s)
  BY <1>1, <1>3, <1>6 DEF Trail
<1> QED BY <1>1, <1>2, <1>3, <1>5, <1>7 DEF n, longer, Trail

(* To put a value at a path of one more segment is to put what has it for  *)
(* a member at the path without.                                           *)
Rises(d, path, v, n, f) ==
    /\ f[n + 1] = v
    /\ \A i \in 1..n : f[i] = Patch!WithMember(Patch!At(d, SubSeq(path, 1, i - 1)), path[i], f[i + 1])

Raised(d, path, v, n, m, f) ==
    /\ f = [i \in m..(n + 1) |-> f[i]] /\ f[n + 1] = v
    /\ \A i \in m..n : f[i] = Patch!WithMember(Patch!At(d, SubSeq(path, 1, i - 1)), path[i], f[i + 1])

LEMMA Rising ==
    ASSUME NEW d, NEW path, NEW v, NEW n \in Nat
    PROVE  \E f : Raised(d, path, v, n, 1, f)
<1> DEFINE Up(f, i) == Patch!WithMember(Patch!At(d, SubSeq(path, 1, i - 1)), path[i], f[i + 1])
           S == {k \in Nat : k <= n => \E f : Raised(d, path, v, n, n + 1 - k, f)}
<1>1. 0 \in S
  <2> DEFINE f == [i \in {n + 1} |-> v]
  <2>1. (n + 1 - 0)..(n + 1) = {n + 1} /\ (n + 1 - 0)..n = {}
    OBVIOUS
  <2>2. Raised(d, path, v, n, n + 1 - 0, f)
    BY <2>1 DEF Raised
  <2> QED BY <2>2
<1>2. ASSUME NEW k \in S, k >= 0 PROVE k + 1 \in S
  <2>1. k \in Nat
    OBVIOUS
  <2>0. n + 1 - (k + 1) = n - k
    BY <2>1
  <2>2. SUFFICES ASSUME k + 1 <= n PROVE \E g : Raised(d, path, v, n, n - k, g)
    BY <2>0, <2>1
  <2>3. PICK f : Raised(d, path, v, n, n + 1 - k, f)
    BY <2>1, <2>2
  <2> DEFINE m == n - k
             g == [i \in m..(n + 1) |-> IF i = m THEN Up(f, i) ELSE f[i]]
  <2>4. m \in 1..n /\ n + 1 - k = m + 1 /\ n + 1 - (k + 1) = m
    BY <2>1, <2>2
  <2> HIDE DEF m
  <2>5. \A i \in m..(n + 1) : g[i] = IF i = m THEN Up(f, i) ELSE f[i]
    OBVIOUS
  <2>6. g = [i \in m..(n + 1) |-> g[i]]
    OBVIOUS
  <2> HIDE DEF g
  <2>7. ASSUME NEW i \in m..n PROVE g[i] = Up(g, i)
    <3>1. i \in m..(n + 1) /\ i + 1 \in m..(n + 1) /\ i + 1 # m
      BY <2>4
    <3>2. g[i + 1] = f[i + 1]
      BY <2>5, <3>1
    <3>3. g[i] = Up(f, i)
      <4>1. CASE i = m
        BY <2>5, <3>1, <4>1
      <4>2. CASE i # m
        <5>1. i \in (n + 1 - k)..n
          BY <2>4, <4>2
        <5> QED BY <2>3, <2>5, <3>1, <4>2, <5>1 DEF Raised
      <4> QED BY <4>1, <4>2
    <3> QED BY <3>2, <3>3
  <2>8. g[n + 1] = v
    <3>1. n + 1 \in m..(n + 1) /\ n + 1 # m
      BY <2>4
    <3> QED BY <2>3, <2>5, <3>1 DEF Raised
  <2>9. Raised(d, path, v, n, m, g)
    BY <2>4, <2>6, <2>7, <2>8 DEF Raised
  <2> QED BY <2>9 DEF m
<1>3. S \in SUBSET Nat
  OBVIOUS
<1>4. n \in S
  <2> HIDE DEF S
  <2>1. \A k \in Nat : k >= 0 => k \in S
    BY <1>1, <1>2, <1>3, Upwards
  <2> QED BY <2>1
<1>5. n + 1 - n = 1 /\ n <= n
  OBVIOUS
<1> QED BY <1>4, <1>5

LEMMA PutRises ==
    ASSUME NEW d, NEW path, NEW v, Len(path) \in Nat
    PROVE  \E f : Rises(d, path, v, Len(path), f) /\ Patch!Put(d, path, v) = f[1]
<1> DEFINE n == Len(path)
           Puts(f) == f = [i \in 1..(n + 1) |->
                             IF i > n THEN v
                             ELSE Patch!WithMember(Patch!At(d, SubSeq(path, 1, i - 1)), path[i], f[i + 1])]
           put == CHOOSE f : Puts(f)
<1>1. n \in Nat
  OBVIOUS
<1>2. Patch!Put(d, path, v) = put[1]
  BY DEF Patch!Put
<1>3. Puts(put)
  <2>1. PICK f : Raised(d, path, v, n, 1, f)
    BY <1>1, Rising
  <2> HIDE DEF n
  <2>2. \A i \in 1..(n + 1) : (i > n => i = n + 1) /\ (~(i > n) => i \in 1..n)
    BY <1>1
  <2>3. \A i \in 1..(n + 1) :
          f[i] = IF i > n THEN v
                 ELSE Patch!WithMember(Patch!At(d, SubSeq(path, 1, i - 1)), path[i], f[i + 1])
    BY <2>1, <2>2 DEF Raised
  <2>4. Puts(f)
    BY <2>1, <2>3 DEF Raised
  <2> HIDE DEF Puts
  <2> QED BY <2>4
<1> HIDE DEF put
<1>4. Rises(d, path, v, n, put)
  <2> HIDE DEF n
  <2>1. n + 1 \in 1..(n + 1) /\ n + 1 > n /\ \A i \in 1..n : i \in 1..(n + 1) /\ ~(i > n)
    BY <1>1
  <2> QED BY <1>3, <2>1 DEF Rises
<1> QED BY <1>2, <1>4

LEMMA RisesAlike ==
    ASSUME NEW d, NEW path, NEW longer, NEW v, NEW u, NEW n \in Nat, NEW f, NEW g,
           Rises(d, path, v, n, f), Rises(d, longer, u, n + 1, g), g[n + 1] = v,
           \A i \in 1..n : path[i] = longer[i] /\ SubSeq(path, 1, i - 1) = SubSeq(longer, 1, i - 1)
    PROVE  f[1] = g[1]
<1> DEFINE S == {k \in Nat : k <= n => f[n + 1 - k] = g[n + 1 - k]}
<1>1. 0 \in S
  <2>1. n + 1 - 0 = n + 1
    OBVIOUS
  <2> QED BY <2>1 DEF Rises
<1>2. ASSUME NEW k \in S, k >= 0 PROVE k + 1 \in S
  <2>1. k \in Nat
    OBVIOUS
  <2>2. SUFFICES ASSUME k + 1 <= n PROVE f[n + 1 - (k + 1)] = g[n + 1 - (k + 1)]
    BY <2>1
  <2> DEFINE i == n - k
  <2>3. i \in 1..n /\ i \in 1..(n + 1) /\ n + 1 - (k + 1) = i /\ n + 1 - k = i + 1
    BY <2>1, <2>2
  <2>4. f[n + 1 - k] = g[n + 1 - k]
    BY <2>1, <2>2
  <2> HIDE DEF i, S
  <2>5. f[i] = Patch!WithMember(Patch!At(d, SubSeq(path, 1, i - 1)), path[i], f[i + 1])
    BY <2>3 DEF Rises
  <2>6. g[i] = Patch!WithMember(Patch!At(d, SubSeq(longer, 1, i - 1)), longer[i], g[i + 1])
    BY <2>3 DEF Rises
  <2>7. path[i] = longer[i] /\ SubSeq(path, 1, i - 1) = SubSeq(longer, 1, i - 1)
    BY <2>3
  <2> QED BY <2>3, <2>4, <2>5, <2>6, <2>7
<1>3. S \in SUBSET Nat
  OBVIOUS
<1>4. n \in S
  <2> HIDE DEF S
  <2>1. \A k \in Nat : k >= 0 => k \in S
    BY <1>1, <1>2, <1>3, Upwards
  <2> QED BY <2>1
<1>5. n + 1 - n = 1
  OBVIOUS
<1> QED BY <1>4, <1>5

LEMMA PutRoot == \A d, v : Patch!Put(d, <<>>, v) = v
<1> SUFFICES ASSUME NEW d, NEW v PROVE Patch!Put(d, <<>>, v) = v
  OBVIOUS
<1>1. Len(<<>>) = 0
  OBVIOUS
<1>2. PICK f : Rises(d, <<>>, v, Len(<<>>), f) /\ Patch!Put(d, <<>>, v) = f[1]
  <2>1. Len(<<>>) \in Nat
    BY <1>1
  <2> QED BY <2>1, PutRises
<1>3. Len(<<>>) + 1 = 1
  BY <1>1
<1> QED BY <1>2, <1>3 DEF Rises

LEMMA PutMember ==
    ASSUME NEW d, NEW T, NEW path \in Seq(T), NEW s \in T, NEW v
    PROVE  Patch!Put(d, Append(path, s), v)
             = Patch!Put(d, path, Patch!WithMember(Patch!At(d, path), s, v))
<1> DEFINE n == Len(path)
           longer == Append(path, s)
           u == Patch!WithMember(Patch!At(d, path), s, v)
<1>1. n \in Nat /\ longer \in Seq(T) /\ Len(longer) = n + 1 /\ longer[n + 1] = s
      /\ \A i \in 1..n : longer[i] = path[i]
  BY AppendProperties, LenProperties
<1>2. \A i \in 1..(n + 1) : SubSeq(longer, 1, i - 1) = SubSeq(path, 1, i - 1)
  <2> HIDE DEF longer
  <2>1. ASSUME NEW i \in 1..(n + 1)
        PROVE  SubSeq(longer, 1, i - 1) = SubSeq(path, 1, i - 1)
    <3>1. /\ SubSeq(longer, 1, i - 1) = [j \in 1..(i - 1) |-> longer[j]]
          /\ SubSeq(path, 1, i - 1) = [j \in 1..(i - 1) |-> path[j]]
      BY <1>1
    <3>2. \A j \in 1..(i - 1) : longer[j] = path[j]
      BY <1>1
    <3> QED BY <3>1, <3>2
  <2> QED BY <2>1
<1>3. SubSeq(longer, 1, n) = path
  <2>1. SubSeq(path, 1, n) = path
    OBVIOUS
  <2>2. n + 1 \in 1..(n + 1) /\ (n + 1) - 1 = n
    BY <1>1
  <2> QED BY <1>2, <2>1, <2>2
<1> HIDE DEF longer, u
<1>4. PICK f : Rises(d, path, u, n, f) /\ Patch!Put(d, path, u) = f[1]
  BY <1>1, PutRises
<1>5. PICK g : Rises(d, longer, v, n + 1, g) /\ Patch!Put(d, longer, v) = g[1]
  <2>1. Len(longer) \in Nat
    BY <1>1
  <2> QED BY <1>1, <2>1, PutRises
<1> HIDE DEF n
<1>6. g[n + 1] = u
  <2>1. n + 1 \in 1..(n + 1) /\ (n + 1) - 1 = n /\ (n + 1) + 1 = n + 2
    BY <1>1
  <2>2. g[n + 1] = Patch!WithMember(Patch!At(d, SubSeq(longer, 1, (n + 1) - 1)), longer[n + 1], g[(n + 1) + 1])
    BY <1>5, <2>1 DEF Rises
  <2>3. g[(n + 1) + 1] = v
    BY <1>5 DEF Rises
  <2> QED BY <1>1, <1>3, <2>1, <2>2, <2>3 DEF u
<1>7. \A i \in 1..n : path[i] = longer[i] /\ SubSeq(path, 1, i - 1) = SubSeq(longer, 1, i - 1)
  <2>1. \A i \in 1..n : i \in 1..(n + 1)
    BY <1>1
  <2> QED BY <1>1, <1>2, <2>1
<1>8. f[1] = g[1]
  BY <1>1, <1>4, <1>5, <1>6, <1>7, RisesAlike
<1> QED BY <1>4, <1>5, <1>8 DEF longer, u

(* A container with a member of its own called s. *)
Fcn(f) == f = [k \in DOMAIN f |-> f[k]]

Holds(c, s) ==
    \/ \E f : Fcn(f) /\ c = Patch!Object(f) /\ s \in DOMAIN f
    \/ \E I : \E items \in Seq(I) :
          c = Patch!Array(items) /\ s \in DOMAIN Patch!Digits /\ Patch!Digits[s] < Len(items)

LEMMA DigitsAre == DOMAIN Patch!Digits = {"0", "1", "2", "3"} /\ \A s \in DOMAIN Patch!Digits : Patch!Digits[s] \in 0..3
BY DEF Patch!Digits

LEMMA MemberSet ==
    ASSUME NEW c, NEW s, Holds(c, s)
    PROVE  /\ c.kind \in {"object", "array"}
           /\ Patch!WithMember(c, s, Patch!Member(c, s)) = c
           /\ \A v : /\ Patch!Member(Patch!WithMember(c, s, v), s) = v
                     /\ Patch!WithMember(c, s, v).kind = c.kind
           /\ \A v, u : Patch!WithMember(Patch!WithMember(c, s, v), s, u) = Patch!WithMember(c, s, u)
<1>1. CASE \E f : Fcn(f) /\ c = Patch!Object(f) /\ s \in DOMAIN f
  <2>1. PICK f : Fcn(f) /\ c = Patch!Object(f) /\ s \in DOMAIN f
    BY <1>1
  <2>2. c.kind = "object" /\ c.fields = f
    BY <2>1 DEF Patch!Object
  <2> DEFINE g(v) == [k \in DOMAIN f |-> IF k = s THEN v ELSE f[k]]
  <2>3. \A v : Patch!WithMember(c, s, v) = Patch!Object(g(v))
    <3>1. DOMAIN f \cup {s} = DOMAIN f
      BY <2>1
    <3> QED BY <2>2, <3>1 DEF Patch!WithMember
  <2>4. Patch!Member(c, s) = f[s]
    BY <2>1, <2>2 DEF Patch!Member
  <2>5. g(f[s]) = f
    <3>1. f = [k \in DOMAIN f |-> f[k]]
      BY <2>1 DEF Fcn
    <3>2. \A k \in DOMAIN f : (IF k = s THEN f[s] ELSE f[k]) = f[k]
      OBVIOUS
    <3> QED BY <3>1, <3>2
  <2>6. \A v : DOMAIN g(v) = DOMAIN f /\ g(v)[s] = v /\ Patch!Object(g(v)).kind = "object"
               /\ Patch!Object(g(v)).fields = g(v)
    BY <2>1 DEF Patch!Object
  <2>7. \A v : Patch!Member(Patch!Object(g(v)), s) = v
    <3> HIDE DEF g
    <3> QED BY <2>1, <2>6 DEF Patch!Member
  <2>8. \A v, u : Patch!WithMember(Patch!Object(g(v)), s, u) = Patch!Object(g(u))
    <3> SUFFICES ASSUME NEW v, NEW u PROVE Patch!WithMember(Patch!Object(g(v)), s, u) = Patch!Object(g(u))
      OBVIOUS
    <3>1. Patch!WithMember(Patch!Object(g(v)), s, u)
            = Patch!Object([k \in DOMAIN f |-> IF k = s THEN u ELSE g(v)[k]])
      <4>1. DOMAIN f \cup {s} = DOMAIN f
        BY <2>1
      <4> HIDE DEF g
      <4> QED BY <2>6, <4>1 DEF Patch!WithMember
    <3>2. \A k \in DOMAIN f : (IF k = s THEN u ELSE g(v)[k]) = IF k = s THEN u ELSE f[k]
      OBVIOUS
    <3>3. [k \in DOMAIN f |-> IF k = s THEN u ELSE g(v)[k]] = g(u)
      BY <3>2
    <3> QED BY <3>1, <3>3
  <2> HIDE DEF g
  <2> QED BY <2>1, <2>2, <2>3, <2>4, <2>5, <2>6, <2>7, <2>8
<1>2. CASE \E I : \E items \in Seq(I) :
              c = Patch!Array(items) /\ s \in DOMAIN Patch!Digits /\ Patch!Digits[s] < Len(items)
  <2>0. PICK I : \E items \in Seq(I) :
              c = Patch!Array(items) /\ s \in DOMAIN Patch!Digits /\ Patch!Digits[s] < Len(items)
    BY <1>2
  <2>1. PICK items \in Seq(I) :
              c = Patch!Array(items) /\ s \in DOMAIN Patch!Digits /\ Patch!Digits[s] < Len(items)
    BY <2>0
  <2> DEFINE i == Patch!Digits[s] + 1
  <2>2. i \in 1..Len(items) /\ Len(items) \in Nat /\ DOMAIN items = 1..Len(items) /\ i \in Nat
    BY <2>1, DigitsAre, LenProperties
  <2>3. c.kind = "array" /\ c.items = items /\ c.kind # "object"
    BY <2>1 DEF Patch!Array
  <2> DEFINE g(v) == [items EXCEPT ![i] = v]
  <2>4. \A v : Patch!WithMember(c, s, v) = Patch!Array(g(v))
    BY <2>3 DEF Patch!WithMember
  <2>5. Patch!Member(c, s) = items[i]
    BY <2>1, <2>3 DEF Patch!Member
  <2>6. g(items[i]) = items
    <3> HIDE DEF i
    <3> QED BY <2>2
  <2>7. \A v : /\ DOMAIN g(v) = DOMAIN items /\ g(v)[i] = v /\ Len(g(v)) = Len(items)
               /\ Patch!Array(g(v)).kind = "array" /\ Patch!Array(g(v)).items = g(v)
    <3> SUFFICES ASSUME NEW v
                 PROVE  /\ DOMAIN g(v) = DOMAIN items /\ g(v)[i] = v /\ Len(g(v)) = Len(items)
                        /\ Patch!Array(g(v)).kind = "array" /\ Patch!Array(g(v)).items = g(v)
      OBVIOUS
    <3> HIDE DEF i
    <3>1. g(v) \in Seq(I \cup {v}) /\ Len(g(v)) = Len(items)
      BY <2>2
    <3>2. DOMAIN g(v) = DOMAIN items /\ g(v)[i] = v
      BY <2>2
    <3> HIDE DEF g
    <3> QED BY <3>1, <3>2 DEF Patch!Array
  <2>8. \A v : Patch!Member(Patch!Array(g(v)), s) = v
    <3> HIDE DEF g
    <3>1. \A v : Patch!Array(g(v)).kind # "object" /\ i = Patch!Digits[s] + 1
      BY <2>7
    <3> QED BY <2>1, <2>7, <3>1 DEF Patch!Member
  <2>9. \A v, u : Patch!WithMember(Patch!Array(g(v)), s, u) = Patch!Array(g(u))
    <3> SUFFICES ASSUME NEW v, NEW u PROVE Patch!WithMember(Patch!Array(g(v)), s, u) = Patch!Array(g(u))
      OBVIOUS
    <3>1. Patch!WithMember(Patch!Array(g(v)), s, u) = Patch!Array([g(v) EXCEPT ![i] = u])
      <4> HIDE DEF g
      <4> QED BY <2>7 DEF Patch!WithMember
    <3>2. [g(v) EXCEPT ![i] = u] = g(u)
      <4> HIDE DEF i
      <4> QED BY <2>2
    <3> QED BY <3>1, <3>2
  <2> HIDE DEF g, i
  <2>10. Patch!WithMember(c, s, Patch!Member(c, s)) = c
    BY <2>1, <2>4, <2>5, <2>6
  <2>11. \A v : Patch!Member(Patch!WithMember(c, s, v), s) = v /\ Patch!WithMember(c, s, v).kind = c.kind
    BY <2>3, <2>4, <2>7, <2>8
  <2>12. \A v, u : Patch!WithMember(Patch!WithMember(c, s, v), s, u) = Patch!WithMember(c, s, u)
    BY <2>4, <2>9
  <2> QED BY <2>3, <2>10, <2>11, <2>12
<1> QED BY <1>1, <1>2 DEF Holds

(* Keys that objects do not inherit, and that parsePath leaves as they are. *)
PlainKeys == Keys \cap (Inherited \cup Patch!Forbidden \cup Inexact) = {}

(* A place in a document that can be given any value. *)
Spot(w, p) ==
    /\ PlainKeys /\ p \in Seq(Patch!Names) /\ w.kind = "object"
    /\ Patch!Put(w, p, Patch!At(w, p)) = w
    /\ \A v : /\ Patch!At(Patch!Put(w, p, v), p) = v
              /\ p # <<>> => Patch!Put(w, p, v).kind = "object"
    /\ \A v, u : Patch!Put(Patch!Put(w, p, v), p, u) = Patch!Put(w, p, u)

LEMMA RootPlace ==
    ASSUME NEW w, w.kind = "object", PlainKeys
    PROVE  Spot(w, <<>>)
<1>1. <<>> \in Seq(Patch!Names)
  OBVIOUS
<1> QED BY <1>1, GetRoot, PutRoot DEF Spot

LEMMA PlaceFilled ==
    ASSUME NEW w, NEW p, NEW v, Spot(w, p), p # <<>> \/ v.kind = "object"
    PROVE  Spot(Patch!Put(w, p, v), p)
<1>1. Patch!Put(w, p, v).kind = "object"
  <2>1. CASE p # <<>>
    BY <2>1 DEF Spot
  <2>2. CASE p = <<>>
    BY <2>2, PutRoot
  <2> QED BY <2>1, <2>2
<1> DEFINE x == Patch!Put(w, p, v)
<1>2. Patch!At(x, p) = v /\ \A u : Patch!Put(x, p, u) = Patch!Put(w, p, u)
  BY DEF Spot
<1>3. /\ PlainKeys /\ p \in Seq(Patch!Names)
      /\ \A u : /\ Patch!At(Patch!Put(w, p, u), p) = u
                /\ p # <<>> => Patch!Put(w, p, u).kind = "object"
      /\ \A u, t : Patch!Put(Patch!Put(w, p, u), p, t) = Patch!Put(w, p, t)
  BY DEF Spot
<1> HIDE DEF x
<1>4. Patch!Put(x, p, Patch!At(x, p)) = x
  BY <1>2 DEF x
<1>5. x.kind = "object"
  BY <1>1 DEF x
<1>6. Spot(x, p)
  BY <1>2, <1>3, <1>4, <1>5 DEF Spot
<1> QED BY <1>6 DEF x

LEMMA PlaceDeeper ==
    ASSUME NEW w, NEW p, NEW s \in Patch!Names, Spot(w, p), Holds(Patch!At(w, p), s)
    PROVE  /\ Spot(w, Append(p, s)) /\ Append(p, s) # <<>>
           /\ Patch!At(w, Append(p, s)) = Patch!Member(Patch!At(w, p), s)
           /\ \A v : Patch!Put(w, Append(p, s), v) = Patch!Put(w, p, Patch!WithMember(Patch!At(w, p), s, v))
<1> DEFINE q == Append(p, s)
           c == Patch!At(w, p)
<1>1. p \in Seq(Patch!Names) /\ q \in Seq(Patch!Names) /\ q # <<>>
  <2>1. p \in Seq(Patch!Names)
    BY DEF Spot
  <2> QED BY <2>1, AppendProperties
<1>2. \A d : Patch!At(d, q) = Patch!Member(Patch!At(d, p), s)
  BY <1>1, GetMember
<1>3. \A d, v : Patch!Put(d, q, v) = Patch!Put(d, p, Patch!WithMember(Patch!At(d, p), s, v))
  BY <1>1, PutMember
<1> HIDE DEF q
<1> DEFINE with(v) == Patch!WithMember(c, s, v)
<1>4. \A v : Patch!Put(w, q, v) = Patch!Put(w, p, with(v)) /\ Patch!At(Patch!Put(w, p, with(v)), p) = with(v)
  BY <1>3, Zenon DEF Spot
<1>5. /\ with(Patch!Member(c, s)) = c
      /\ \A v : Patch!Member(with(v), s) = v /\ with(v).kind = c.kind
      /\ \A v, u : Patch!WithMember(with(v), s, u) = with(u)
  BY MemberSet
<1> HIDE DEF with, c
<1>6. Patch!Put(w, q, Patch!At(w, q)) = w
  <2>1. Patch!At(w, q) = Patch!Member(c, s)
    BY <1>2 DEF c
  <2>2. Patch!Put(w, q, Patch!At(w, q)) = Patch!Put(w, p, c)
    BY <1>4, <1>5, <2>1
  <2> QED BY <2>2 DEF Spot, c
<1>7. \A v : Patch!At(Patch!Put(w, q, v), q) = v
  BY <1>2, <1>4, <1>5
<1>8. \A v, u : Patch!Put(Patch!Put(w, q, v), q, u) = Patch!Put(w, q, u)
  <2> SUFFICES ASSUME NEW v, NEW u PROVE Patch!Put(Patch!Put(w, q, v), q, u) = Patch!Put(w, q, u)
    OBVIOUS
  <2>1. Patch!Put(Patch!Put(w, q, v), q, u)
          = Patch!Put(Patch!Put(w, p, with(v)), p, Patch!WithMember(with(v), s, u))
    BY <1>3, <1>4
  <2>2. Patch!Put(Patch!Put(w, p, with(v)), p, with(u)) = Patch!Put(w, p, with(u))
    BY DEF Spot
  <2> QED BY <1>4, <1>5, <2>1, <2>2
<1>9. \A v : Patch!Put(w, q, v).kind = "object"
  <2>1. CASE p = <<>>
    <3>1. c = w /\ \A v : Patch!Put(w, p, with(v)) = with(v)
      BY <2>1, GetRoot, PutRoot DEF c
    <3> QED BY <1>4, <1>5, <3>1 DEF Spot
  <2>2. CASE p # <<>>
    BY <1>4, <2>2 DEF Spot
  <2> QED BY <2>1, <2>2
<1>10. Spot(w, q)
  <2>1. PlainKeys /\ w.kind = "object"
    BY DEF Spot
  <2> QED BY <1>1, <1>6, <1>7, <1>8, <1>9, <2>1 DEF Spot
<1> QED BY <1>1, <1>2, <1>4, <1>10 DEF q, c, with

LEMMA LastOff ==
    ASSUME NEW T, NEW p \in Seq(T), NEW s \in T
    PROVE  /\ Patch!Front(Append(p, s)) = p /\ Patch!Last(Append(p, s)) = s /\ Append(p, s) # <<>>
<1> DEFINE q == Append(p, s)
           n == Len(p)
<1>1. /\ n \in Nat /\ q \in Seq(T) /\ Len(q) = n + 1 /\ q[n + 1] = s /\ q # <<>>
      /\ \A i \in 1..n : q[i] = p[i]
  BY AppendProperties, LenProperties
<1> HIDE DEF q
<1>2. SubSeq(q, 1, n) = p
  <2>1. SubSeq(q, 1, n) = [i \in 1..n |-> q[i]]
    BY <1>1
  <2>2. p = [i \in 1..n |-> p[i]]
    OBVIOUS
  <2> QED BY <1>1, <2>1, <2>2
<1>3. Len(q) - 1 = n
  BY <1>1
<1> QED BY <1>1, <1>2, <1>3 DEF Patch!Front, Patch!Last, q

(* parsePath gives the path of a place back. *)
LEMMA PathParsed ==
    ASSUME PlainKeys, NEW path \in Seq(Patch!Names)
    PROVE  ~Patch!Refused(path) /\ Patch!Parsed(path) = path
<1>1. \A s \in Patch!Names : s \notin Patch!Forbidden /\ s \notin Inexact
  <2>1. \A s \in DOMAIN Patch!Digits : s \notin Patch!Forbidden /\ s \notin Inexact
    BY DigitsAre, PatchAssumption DEF Patch!Forbidden
  <2> QED BY <2>1 DEF PlainKeys, Patch!Names
<1>2. \A i \in DOMAIN path : path[i] \in Patch!Names
  BY ElementOfSeq
<1>3. path = [i \in DOMAIN path |-> path[i]]
  OBVIOUS
<1>4. ~Patch!Refused(path)
  BY <1>1, <1>2 DEF Patch!Refused
<1>5. Patch!Parsed(path) = path
  BY <1>1, <1>2, <1>3 DEF Patch!Parsed
<1> QED BY <1>4, <1>5

LEMMA SpotKept ==
    ASSUME NEW w, NEW p, NEW v, Spot(w, p), p # <<>> \/ v.kind = "object"
    PROVE  Patch!Put(w, p, v).kind = "object" /\ Patch!Put(w, p, v) # Patch!Failed
<1>1. Patch!Put(w, p, v).kind = "object"
  BY PlaceFilled DEF Spot
<1>2. Patch!Failed.kind = "failed"
  BY DEF Patch!Failed
<1> QED BY <1>1, <1>2

LEMMA SegmentParsed ==
    ASSUME NEW w, NEW p, Spot(w, p), NEW s \in Patch!Names
    PROVE  /\ ~Patch!Refused(Append(p, s)) /\ Patch!Parsed(Append(p, s)) = Append(p, s)
           /\ \A d : Patch!At(d, Append(p, s)) # Patch!Undefined
                     => Patch!Exists(d, Append(p, s))
<1> DEFINE q == Append(p, s)
<1>1. q \in Seq(Patch!Names) /\ PlainKeys
  BY AppendProperties DEF Spot
<1> HIDE DEF q
<1>2. ~Patch!Refused(q) /\ Patch!Parsed(q) = q
  BY <1>1, PathParsed
<1> QED BY <1>2 DEF Patch!Exists, Patch!GetPath, q

(* What an operation does with a member of what stands at a place.         *)
LEMMA AddAt ==
    ASSUME NEW w, NEW p, NEW s \in Patch!Names, NEW v, NEW c, NEW r, Spot(w, p),
           Patch!At(w, p) = c, c # Patch!Undefined,
           Patch!SetIn(c, s, v, FALSE, TRUE, TRUE) = r, r # Patch!Failed
    PROVE  Patch!SetPath(w, Append(p, s), v, FALSE, TRUE, TRUE) = Patch!Put(w, p, r)
<1>1. /\ Patch!Front(Append(p, s)) = p /\ Patch!Last(Append(p, s)) = s /\ Append(p, s) # <<>>
      /\ ~Patch!Refused(Append(p, s)) /\ Patch!Parsed(Append(p, s)) = Append(p, s)
  BY LastOff, SegmentParsed DEF Spot
<1> QED BY <1>1 DEF Patch!SetPath, Patch!PutBack

LEMMA SetAt ==
    ASSUME NEW w, NEW p, NEW s \in Patch!Names, NEW v, NEW c, NEW r, Spot(w, p),
           Patch!At(w, p) = c, c # Patch!Undefined,
           Patch!SetIn(c, s, v, TRUE, FALSE, FALSE) = r, r # Patch!Failed
    PROVE  Patch!SetPath(w, Append(p, s), v, TRUE, FALSE, FALSE) = Patch!Put(w, p, r)
<1>1. /\ Patch!Front(Append(p, s)) = p /\ Patch!Last(Append(p, s)) = s /\ Append(p, s) # <<>>
      /\ ~Patch!Refused(Append(p, s)) /\ Patch!Parsed(Append(p, s)) = Append(p, s)
  BY LastOff, SegmentParsed DEF Spot
<1> QED BY <1>1 DEF Patch!SetPath, Patch!PutBack

LEMMA DeleteAt ==
    ASSUME NEW w, NEW p, NEW s \in Patch!Names, NEW c, NEW r, Spot(w, p),
           Patch!At(w, p) = c, c # Patch!Undefined, Patch!DeleteIn(c, s, TRUE) = r, r # Patch!Failed
    PROVE  Patch!DeletePath(w, Append(p, s), TRUE) = Patch!Put(w, p, r)
<1>1. /\ Patch!Front(Append(p, s)) = p /\ Patch!Last(Append(p, s)) = s /\ Append(p, s) # <<>>
      /\ ~Patch!Refused(Append(p, s)) /\ Patch!Parsed(Append(p, s)) = Append(p, s)
  BY LastOff, SegmentParsed DEF Spot
<1> QED BY <1>1 DEF Patch!DeletePath, Patch!PutBack

LEMMA ApplyIs ==
    /\ \A d, path, v : Patch!Apply(d, Patch!Puts("add", path, v), TRUE) = Patch!SetPath(d, path, v, FALSE, TRUE, TRUE)
    /\ \A d, path, v : Patch!Exists(d, path) =>
          Patch!Apply(d, Patch!Puts("replace", path, v), TRUE) = Patch!SetPath(d, path, v, TRUE, FALSE, FALSE)
    /\ \A d, path : Patch!Exists(d, path) =>
          Patch!Apply(d, Patch!Removal(path), TRUE) = Patch!DeletePath(d, path, TRUE)
BY DEF Patch!Apply, Patch!Puts, Patch!Removal

LEMMA ContainerKinds ==
    /\ \A f : Patch!Object(f).kind = "object" /\ Patch!Object(f).fields = f
              /\ Patch!Object(f) # Patch!Undefined /\ Patch!Object(f) # Patch!Failed
    /\ \A i : Patch!Array(i).kind = "array" /\ Patch!Array(i).items = i
              /\ Patch!Array(i) # Patch!Undefined /\ Patch!Array(i) # Patch!Failed
<1>1. Patch!Undefined.kind = "undefined" /\ Patch!Failed.kind = "failed"
  BY DEF Patch!Undefined, Patch!Failed
<1>2. \A f : Patch!Object(f).kind = "object" /\ Patch!Object(f).fields = f
  BY DEF Patch!Object
<1>3. \A i : Patch!Array(i).kind = "array" /\ Patch!Array(i).items = i
  BY DEF Patch!Array
<1> QED BY <1>1, <1>2, <1>3

LEMMA ReplaceAt ==
    ASSUME NEW w, NEW p, NEW s \in Patch!Names, NEW v, Spot(w, p), Holds(Patch!At(w, p), s),
           Patch!Member(Patch!At(w, p), s) # Patch!Undefined
    PROVE  Does(w, Patch!Put(w, Append(p, s), v), Patch!Puts("replace", Append(p, s), v))
<1> DEFINE c == Patch!At(w, p)
<1>1. /\ Spot(w, Append(p, s)) /\ Append(p, s) # <<>>
      /\ Patch!At(w, Append(p, s)) = Patch!Member(c, s)
      /\ Patch!Put(w, Append(p, s), v) = Patch!Put(w, p, Patch!WithMember(c, s, v))
  BY PlaceDeeper
<1>2. c.kind \in {"object", "array"} /\ Patch!WithMember(c, s, v).kind = c.kind
  BY MemberSet
<1> HIDE DEF c
<1>3. c # Patch!Undefined /\ Patch!WithMember(c, s, v) # Patch!Failed
  BY <1>2 DEF Patch!Undefined, Patch!Failed
<1>4. Patch!SetIn(c, s, v, TRUE, FALSE, FALSE) = Patch!WithMember(c, s, v)
  <2>1. CASE \E f : Fcn(f) /\ c = Patch!Object(f) /\ s \in DOMAIN f
    <3>1. c.kind = "object" /\ c.kind # "array" /\ s \in DOMAIN c.fields
      BY <2>1, ContainerKinds
    <3> QED BY <3>1 DEF Patch!SetIn
  <2>2. CASE \E I : \E items \in Seq(I) :
                c = Patch!Array(items) /\ s \in DOMAIN Patch!Digits /\ Patch!Digits[s] < Len(items)
    <3>1. c.kind = "array" /\ s \in DOMAIN Patch!Digits /\ Patch!Digits[s] < Len(c.items) /\ Len(c.items) \in Nat
      BY <2>2, ContainerKinds, LenProperties
    <3>2. s # "-" /\ Patch!Digits[s] \in Nat /\ Patch!Digits[s] # Len(c.items) /\ Patch!Digits[s] < Len(c.items) + 0
      BY <3>1, DigitsAre
    <3> QED BY <3>1, <3>2 DEF Patch!SetIn
  <2> QED BY <2>1, <2>2 DEF Holds, c
<1>5. Patch!SetPath(w, Append(p, s), v, TRUE, FALSE, FALSE) = Patch!Put(w, Append(p, s), v)
  <2>1. Patch!At(w, p) = c
    BY DEF c
  <2>2. Patch!SetPath(w, Append(p, s), v, TRUE, FALSE, FALSE) = Patch!Put(w, p, Patch!WithMember(c, s, v))
    BY <1>3, <1>4, <2>1, SetAt
  <2> QED BY <1>1, <2>2 DEF c
<1>6. Patch!Exists(w, Append(p, s))
  BY <1>1, SegmentParsed DEF c
<1>7. Patch!Put(w, Append(p, s), v).kind = "object"
  BY <1>1 DEF Spot
<1> QED BY <1>5, <1>6, <1>7, ApplyIs DEF Does

LEMMA AddField ==
    ASSUME NEW w, NEW p, NEW s \in Patch!Names, NEW v, NEW f, Spot(w, p),
           Patch!At(w, p) = Patch!Object(f)
    PROVE  Does(w, Patch!Put(w, p, Patch!Object([k \in DOMAIN f \cup {s} |-> IF k = s THEN v ELSE f[k]])),
                 Patch!Puts("add", Append(p, s), v))
<1> DEFINE c == Patch!Object(f)
           g == [k \in DOMAIN f \cup {s} |-> IF k = s THEN v ELSE f[k]]
<1>1. Patch!SetIn(c, s, v, FALSE, TRUE, TRUE) = Patch!Object(g)
  <2>1. c.kind = "object" /\ c.kind # "array" /\ c.fields = f
    BY ContainerKinds
  <2> HIDE DEF c
  <2> QED BY <2>1 DEF Patch!SetIn, Patch!WithMember
<1> HIDE DEF g
<1>2. Patch!SetPath(w, Append(p, s), v, FALSE, TRUE, TRUE) = Patch!Put(w, p, Patch!Object(g))
  <2>1. c # Patch!Undefined /\ Patch!Object(g) # Patch!Failed /\ Patch!At(w, p) = c
    BY ContainerKinds
  <2> HIDE DEF c
  <2> QED BY <1>1, <2>1, AddAt
<1>3. Patch!Put(w, p, Patch!Object(g)).kind = "object"
  BY ContainerKinds, SpotKept
<1>4. Does(w, Patch!Put(w, p, Patch!Object(g)), Patch!Puts("add", Append(p, s), v))
  BY <1>2, <1>3, ApplyIs DEF Does
<1> QED BY <1>4 DEF g

LEMMA RemoveField ==
    ASSUME NEW w, NEW p, NEW s \in Patch!Names, NEW f, Spot(w, p), Fcn(f), s \in DOMAIN f,
           f[s] # Patch!Undefined, Patch!At(w, p) = Patch!Object(f)
    PROVE  Does(w, Patch!Put(w, p, Patch!Object([k \in DOMAIN f \ {s} |-> f[k]])),
                 Patch!Removal(Append(p, s)))
<1> DEFINE c == Patch!Object(f)
           g == [k \in DOMAIN f \ {s} |-> f[k]]
<1>0. c.kind = "object" /\ c.kind # "array" /\ c.fields = f /\ c # Patch!Null
  BY ContainerKinds DEF Patch!Null, Patch!Atom
<1>1. Patch!DeleteIn(c, s, TRUE) = Patch!Object(g)
  <2> HIDE DEF c
  <2> QED BY <1>0 DEF Patch!DeleteIn
<1>5. Patch!Exists(w, Append(p, s))
  <2>1. Patch!Member(c, s) = f[s]
    <3> HIDE DEF c
    <3> QED BY <1>0 DEF Patch!Member
  <2>2. Patch!At(w, Append(p, s)) = Patch!Member(c, s)
    BY GetMember DEF Spot
  <2> QED BY <2>1, <2>2, SegmentParsed
<1> HIDE DEF g
<1>2. Patch!DeletePath(w, Append(p, s), TRUE) = Patch!Put(w, p, Patch!Object(g))
  <2>1. c # Patch!Undefined /\ Patch!Object(g) # Patch!Failed /\ Patch!At(w, p) = c
    BY ContainerKinds
  <2> HIDE DEF c
  <2> QED BY <1>1, <2>1, DeleteAt
<1>3. Patch!Put(w, p, Patch!Object(g)).kind = "object"
  BY ContainerKinds, SpotKept
<1>4. Does(w, Patch!Put(w, p, Patch!Object(g)), Patch!Removal(Append(p, s)))
  BY <1>2, <1>3, <1>5, ApplyIs DEF Does
<1> QED BY <1>4 DEF g

LEMMA NotRoot ==
    ASSUME NEW w, NEW p, NEW items, Spot(w, p), Patch!At(w, p) = Patch!Array(items)
    PROVE  p # <<>>
BY GetRoot, ContainerKinds DEF Spot

LEMMA AddItem ==
    ASSUME NEW w, NEW p, NEW s \in DOMAIN Patch!Digits, NEW v, NEW I, NEW items \in Seq(I), Spot(w, p),
           Patch!At(w, p) = Patch!Array(items), Patch!Digits[s] = Len(items)
    PROVE  Does(w, Patch!Put(w, p, Patch!Array(Append(items, v))), Patch!Puts("add", Append(p, s), v))
<1> DEFINE c == Patch!Array(items)
           g == Append(items, v)
<1>0. s \in Patch!Names /\ s # "-" /\ Len(items) \in Nat
  BY DigitsAre DEF Patch!Names
<1>1. Patch!SetIn(c, s, v, FALSE, TRUE, TRUE) = Patch!Array(g)
  <2>1. c.kind = "array" /\ c.items = items
    BY ContainerKinds
  <2>2. Patch!InsertAt(items, Patch!Digits[s] + 1, v) = g
    <3>1. SubSeq(items, 1, Len(items)) = items /\ SubSeq(items, Len(items) + 1, Len(items)) = <<>>
          /\ (Len(items) + 1) - 1 = Len(items)
      BY <1>0
    <3>2. (items \o <<v>>) \o <<>> = Append(items, v)
      <4>1. items \in Seq(I \cup {v}) /\ <<v>> \in Seq(I \cup {v}) /\ Append(items, v) \in Seq(I \cup {v})
        OBVIOUS
      <4>2. items \o <<v>> = Append(items, v)
        BY <4>1
      <4>3. Append(items, v) \o <<>> = Append(items, v)
        BY <4>1, ConcatEmptySeq
      <4> QED BY <4>2, <4>3
    <3> QED BY <1>0, <3>1, <3>2 DEF Patch!InsertAt
  <2>3. Patch!Digits[s] < Len(items) + 1
    BY <1>0
  <2> HIDE DEF c, g
  <2> QED BY <1>0, <2>1, <2>2, <2>3 DEF Patch!SetIn
<1> HIDE DEF g
<1>2. Patch!SetPath(w, Append(p, s), v, FALSE, TRUE, TRUE) = Patch!Put(w, p, Patch!Array(g))
  <2>1. c # Patch!Undefined /\ Patch!Array(g) # Patch!Failed /\ Patch!At(w, p) = c
    BY ContainerKinds
  <2> HIDE DEF c
  <2> QED BY <1>0, <1>1, <2>1, AddAt
<1>3. Patch!Put(w, p, Patch!Array(g)).kind = "object"
  BY NotRoot, SpotKept
<1>4. Does(w, Patch!Put(w, p, Patch!Array(g)), Patch!Puts("add", Append(p, s), v))
  BY <1>2, <1>3, ApplyIs DEF Does
<1> QED BY <1>4 DEF g

LEMMA RemoveItem ==
    ASSUME NEW w, NEW p, NEW s \in DOMAIN Patch!Digits, NEW I, NEW items \in Seq(I), Spot(w, p),
           Patch!At(w, p) = Patch!Array(items), Patch!Digits[s] < Len(items),
           items[Patch!Digits[s] + 1] # Patch!Undefined
    PROVE  Does(w, Patch!Put(w, p, Patch!Array(Patch!RemoveAt(items, Patch!Digits[s] + 1))),
                 Patch!Removal(Append(p, s)))
<1> DEFINE c == Patch!Array(items)
           g == Patch!RemoveAt(items, Patch!Digits[s] + 1)
<1>0. s \in Patch!Names /\ Len(items) \in Nat /\ Patch!Digits[s] \in Nat
      /\ c.kind = "array" /\ c.kind # "object" /\ c.items = items
  BY DigitsAre, ContainerKinds DEF Patch!Names
<1>1. Patch!DeleteIn(c, s, TRUE) = Patch!Array(g)
  <2>1. ~(Patch!Digits[s] >= Len(items))
    BY <1>0
  <2> HIDE DEF c, g
  <2>2. Patch!DeleteIn(c, s, TRUE) = Patch!Array(Patch!RemoveAt(items, Patch!Digits[s] + 1))
    BY <1>0, <2>1 DEF Patch!DeleteIn
  <2> QED BY <2>2 DEF g
<1>5. Patch!Exists(w, Append(p, s))
  <2>1. Patch!Member(c, s) = items[Patch!Digits[s] + 1]
    <3> HIDE DEF c
    <3> QED BY <1>0 DEF Patch!Member
  <2>2. Patch!At(w, Append(p, s)) = Patch!Member(c, s)
    BY <1>0, GetMember DEF Spot
  <2> QED BY <1>0, <2>1, <2>2, SegmentParsed
<1> HIDE DEF g
<1>2. Patch!DeletePath(w, Append(p, s), TRUE) = Patch!Put(w, p, Patch!Array(g))
  <2>1. c # Patch!Undefined /\ Patch!Array(g) # Patch!Failed /\ Patch!At(w, p) = c
    BY ContainerKinds
  <2> HIDE DEF c
  <2> QED BY <1>0, <1>1, <2>1, DeleteAt
<1>3. Patch!Put(w, p, Patch!Array(g)).kind = "object"
  BY NotRoot, SpotKept
<1>4. Does(w, Patch!Put(w, p, Patch!Array(g)), Patch!Removal(Append(p, s)))
  BY <1>2, <1>3, <1>5, ApplyIs DEF Does
<1> QED BY <1>4 DEF g

(* Operations that put another value where one stands, in any document;    *)
(* and where it stands in a container.                                     *)
Makes(p, from, to, ps) ==
    \A w : Spot(w, p) /\ Patch!At(w, p) = from => Leads(w, Patch!Put(w, p, to), ps)

MakesMember(p, s, from, to, ps) ==
    \A w : Spot(w, p) /\ Holds(Patch!At(w, p), s) /\ Patch!Member(Patch!At(w, p), s) = from
             => Leads(w, Patch!Put(w, Append(p, s), to), ps)

LEMMA MadeAsMember ==
    ASSUME NEW p, NEW s \in Patch!Names, NEW from, NEW to, NEW ps, Makes(Append(p, s), from, to, ps)
    PROVE  MakesMember(p, s, from, to, ps)
BY PlaceDeeper, Zenon DEF Makes, MakesMember

LEMMA ReplaceMakes ==
    ASSUME NEW p, NEW s \in Patch!Names, NEW from, NEW to, from # Patch!Undefined
    PROVE  MakesMember(p, s, from, to, <<Patch!Puts("replace", Append(p, s), to)>>)
<1> SUFFICES ASSUME NEW w, Spot(w, p), Holds(Patch!At(w, p), s),
                    Patch!Member(Patch!At(w, p), s) = from
             PROVE  Leads(w, Patch!Put(w, Append(p, s), to), <<Patch!Puts("replace", Append(p, s), to)>>)
  BY DEF MakesMember
<1> QED BY ReplaceAt, LeadsOne

LEMMA NothingMakes ==
    ASSUME NEW p, NEW x
    PROVE  Makes(p, x, x, <<>>)
BY LeadsNowhere DEF Makes, Spot

-----------------------------------------------------------------------------
(* Arrays.  Paths count up to "3". *)
LEMMA DigitIs ==
    ASSUME NEW i \in 0..3
    PROVE  Patch!Digit(i) \in DOMAIN Patch!Digits /\ Patch!Digits[Patch!Digit(i)] = i
           /\ Patch!Digit(i) \in Patch!Names
<1>1. \E s \in DOMAIN Patch!Digits : Patch!Digits[s] = i
  <2>1. /\ Patch!Digits["0"] = 0 /\ Patch!Digits["1"] = 1 /\ Patch!Digits["2"] = 2 /\ Patch!Digits["3"] = 3
        /\ DOMAIN Patch!Digits = {"0", "1", "2", "3"}
    BY DEF Patch!Digits
  <2> QED BY <2>1
<1>2. Patch!Digit(i) \in DOMAIN Patch!Digits /\ Patch!Digits[Patch!Digit(i)] = i
  BY <1>1 DEF Patch!Digit
<1> QED BY <1>2 DEF Patch!Names

(* The first n items as they are wanted. *)
Mixed(from, to, n) == [j \in 1..Len(from) |-> IF j <= n THEN to[j] ELSE from[j]]

Inners(inner, n) == [i \in 1..n |-> inner[Patch!Digit(i - 1)]]

LEMMA ItemsMake ==
    ASSUME NEW p, NEW I, NEW from \in Seq(I), NEW to \in Seq(I), Len(from) <= 4,
           NEW inner, NEW both \in Nat, both <= Len(from), both <= Len(to), NEW w,
           \A i \in 1..both :
              MakesMember(p, Patch!Digit(i - 1), from[i], to[i], inner[Patch!Digit(i - 1)]),
           Spot(w, p), Patch!At(w, p) = Patch!Array(from)
    PROVE  Leads(w, Patch!Put(w, p, Patch!Array(Mixed(from, to, both))),
                 Patch!FlattenSeq(Inners(inner, both)))
<1> DEFINE stage(i) == [j \in 1..Len(from) |-> IF j <= i THEN to[j] ELSE from[j]]
           W == [i \in 0..both |-> Patch!Put(w, p, Patch!Array(stage(i)))]
           parts == [i \in 1..both |-> inner[Patch!Digit(i - 1)]]
<1>0. p # <<>>
  BY NotRoot
<1>1. Len(from) \in Nat /\ Len(to) \in Nat
  BY LenProperties
<1>2. \A i \in 0..both : stage(i) \in Seq(I) /\ Len(stage(i)) = Len(from)
  <2> SUFFICES ASSUME NEW i \in 0..both PROVE stage(i) \in Seq(I) /\ Len(stage(i)) = Len(from)
    OBVIOUS
  <2>1. \A j \in 1..Len(from) : from[j] \in I /\ (j <= i => j \in 1..Len(to) /\ to[j] \in I)
    BY <1>1
  <2>2. stage(i) \in [1..Len(from) -> I]
    BY <2>1
  <2> HIDE DEF stage
  <2> QED BY <1>1, <2>2
<1>3. W[0] = w
  <2>1. stage(0) = from
    <3>1. \A j \in 1..Len(from) : ~(j <= 0)
      BY <1>1
    <3>2. from = [j \in 1..Len(from) |-> from[j]]
      OBVIOUS
    <3> QED BY <3>1, <3>2
  <2>2. W[0] = Patch!Put(w, p, Patch!Array(stage(0)))
    OBVIOUS
  <2> QED BY <2>1, <2>2 DEF Spot
<1>4. \A i \in 0..both : /\ Spot(W[i], p) /\ Patch!At(W[i], p) = Patch!Array(stage(i))
                         /\ \A v : Patch!Put(W[i], p, v) = Patch!Put(w, p, v)
  <2> SUFFICES ASSUME NEW i \in 0..both
               PROVE  /\ Spot(W[i], p) /\ Patch!At(W[i], p) = Patch!Array(stage(i))
                      /\ \A v : Patch!Put(W[i], p, v) = Patch!Put(w, p, v)
    OBVIOUS
  <2>1. W[i] = Patch!Put(w, p, Patch!Array(stage(i)))
    OBVIOUS
  <2> HIDE DEF W, stage
  <2> QED BY <1>0, <2>1, PlaceFilled DEF Spot
<1>5. ASSUME NEW i \in 1..both PROVE Leads(W[i - 1], W[i], parts[i])
  <2> DEFINE s == Patch!Digit(i - 1)
             k == i - 1
             c == Patch!Array(stage(k))
  <2>1. /\ k \in 0..3 /\ k \in 0..both /\ k + 1 = i /\ i \in 1..Len(from) /\ k < Len(from) /\ ~(i <= k)
        /\ i \in 0..both
    BY <1>1
  <2>2. s \in DOMAIN Patch!Digits /\ Patch!Digits[s] = k /\ s \in Patch!Names
    BY <2>1, DigitIs
  <2>3. stage(k)[i] = from[i]
    BY <2>1
  <2>4. [stage(k) EXCEPT ![i] = to[i]] = stage(i)
    <3>1. \A j \in 1..Len(from) : (IF j = i THEN to[i] ELSE stage(k)[j]) = stage(i)[j]
      BY <1>1, <2>1
    <3>2. DOMAIN stage(k) = 1..Len(from) /\ stage(i) = [j \in 1..Len(from) |-> stage(i)[j]]
      OBVIOUS
    <3> HIDE DEF stage
    <3> QED BY <3>1, <3>2
  <2> HIDE DEF stage, W, s, k
  <2>5. Holds(c, s)
    BY <1>2, <2>1, <2>2 DEF Holds
  <2>6. c.kind = "array" /\ c.kind # "object" /\ c.items = stage(k)
    BY ContainerKinds
  <2>7. Patch!Member(c, s) = from[i]
    <3> HIDE DEF c
    <3> QED BY <1>2, <2>1, <2>2, <2>3, <2>6 DEF Patch!Member
  <2>8. Patch!WithMember(c, s, to[i]) = Patch!Array(stage(i))
    <3> HIDE DEF c
    <3> QED BY <2>1, <2>2, <2>4, <2>6 DEF Patch!WithMember
  <2>9. Spot(W[k], p) /\ Patch!At(W[k], p) = c
    BY <1>4, <2>1
  <2> HIDE DEF c
  <2>10. Patch!Put(W[k], Append(p, s), to[i]) = W[i]
    <3>1. Patch!Put(W[k], Append(p, s), to[i]) = Patch!Put(W[k], p, Patch!Array(stage(i)))
      BY <2>2, <2>5, <2>8, <2>9, PlaceDeeper
    <3>2. Patch!Put(W[k], p, Patch!Array(stage(i))) = Patch!Put(w, p, Patch!Array(stage(i)))
      BY <1>4, <2>1
    <3>3. W[i] = Patch!Put(w, p, Patch!Array(stage(i)))
      BY <2>1 DEF W
    <3> QED BY <3>1, <3>2, <3>3
  <2>11. MakesMember(p, s, from[i], to[i], inner[s])
    BY DEF s
  <2>12. Leads(W[k], Patch!Put(W[k], Append(p, s), to[i]), inner[s])
    BY <2>5, <2>7, <2>9, <2>11 DEF MakesMember
  <2>13. parts[i] = inner[s]
    BY DEF s
  <2> QED BY <2>10, <2>12, <2>13 DEF k
<1>6. parts = [i \in 1..both |-> parts[i]]
  OBVIOUS
<1>7. W[both] = Patch!Put(w, p, Patch!Array(stage(both)))
  OBVIOUS
<1> HIDE DEF W, parts, stage
<1>8. Leads(W[0], W[both], Patch!FlattenSeq(parts))
  BY <1>5, <1>6, LeadsAll
<1> QED BY <1>3, <1>7, <1>8 DEF parts, stage, Mixed, Inners

LEMMA AdditionsMake ==
    ASSUME NEW p, NEW I, NEW from \in Seq(I), NEW to \in Seq(I), Len(to) <= 4, Len(from) <= Len(to), NEW w,
           NEW cur, cur = SubSeq(to, 1, Len(from)), Spot(w, p), Patch!At(w, p) = Patch!Array(cur)
    PROVE  Leads(w, Patch!Put(w, p, Patch!Array(to)), Patch!Additions(to, from, p))
<1> DEFINE n == Len(from)
           m == Len(to) - n
           ps == Patch!Additions(to, from, p)
           W == [i \in 0..m |-> Patch!Put(w, p, Patch!Array(SubSeq(to, 1, n + i)))]
<1>0. p # <<>>
  BY NotRoot
<1>1. n \in Nat /\ m \in Nat /\ Len(to) \in Nat /\ n + m = Len(to) /\ n + 0 = n
  BY LenProperties
<1>2. ps = [i \in 1..m |-> Patch!Puts("add", Append(p, Patch!Digit(n + i - 1)), to[n + i])]
  BY DEF Patch!Additions
<1> HIDE DEF ps, m, n
<1>3. ps \in Seq({ps[i] : i \in 1..m}) /\ Len(ps) = m
  <2> DEFINE S == {ps[i] : i \in 1..m}
  <2>1. ps \in [1..m -> S]
    BY <1>2
  <2>2. m \in Nat
    BY <1>1
  <2> HIDE DEF S
  <2>3. ps \in Seq(S) /\ Len(ps) = m
    BY <2>1, <2>2
  <2> QED BY <2>3 DEF S
<1>4. W[0] = w
  <2>1. W[0] = Patch!Put(w, p, Patch!Array(cur))
    BY <1>1 DEF n
  <2> QED BY <2>1 DEF Spot
<1>5. W[m] = Patch!Put(w, p, Patch!Array(to))
  <2>1. SubSeq(to, 1, Len(to)) = to
    OBVIOUS
  <2>2. W[m] = Patch!Put(w, p, Patch!Array(SubSeq(to, 1, n + m)))
    BY <1>1
  <2> QED BY <1>1, <2>1, <2>2
<1>6. ASSUME NEW i \in 1..m PROVE Does(W[i - 1], W[i], ps[i])
  <2> DEFINE k == i - 1
             s == Patch!Digit(n + k)
             items == SubSeq(to, 1, n + k)
  <2>1. /\ k \in 0..m /\ i \in 0..m /\ n + k \in 0..3 /\ n + i - 1 = n + k /\ n + i = (n + k) + 1
        /\ n + i \in 1..Len(to)
    BY <1>1
  <2>2. W[k] = Patch!Put(w, p, Patch!Array(items)) /\ W[i] = Patch!Put(w, p, Patch!Array(SubSeq(to, 1, n + i)))
    BY <2>1
  <2>3. s \in DOMAIN Patch!Digits /\ Patch!Digits[s] = n + k
    BY <2>1, DigitIs
  <2>4. /\ items \in Seq(I) /\ Len(items) = n + k
        /\ Append(items, to[n + i]) = SubSeq(to, 1, n + i)
    <3> HIDE DEF k
    <3>1. /\ items = [j \in 1..(n + k) |-> to[j]]
          /\ SubSeq(to, 1, n + i) = [j \in 1..(n + i) |-> to[j]]
      BY <1>1, <2>1
    <3>2. items \in Seq(I) /\ Len(items) = n + k /\ to[n + i] \in I
      BY <1>1, <2>1
    <3> HIDE DEF items
    <3>3. Append(items, to[n + i]) = [j \in 1..((n + k) + 1) |-> IF j <= n + k THEN items[j] ELSE to[n + i]]
      BY <2>1, <3>2
    <3>4. \A j \in 1..((n + k) + 1) : (IF j <= n + k THEN items[j] ELSE to[n + i]) = to[j]
      BY <2>1, <3>1
    <3> QED BY <2>1, <3>1, <3>2, <3>3, <3>4
  <2>5. ps[i] = Patch!Puts("add", Append(p, s), to[n + i])
    <3>1. ps[i] = Patch!Puts("add", Append(p, Patch!Digit(n + i - 1)), to[n + i])
      BY <1>2
    <3> QED BY <2>1, <3>1
  <2> HIDE DEF W, s, items, k
  <2>6. /\ Spot(W[k], p) /\ Patch!At(W[k], p) = Patch!Array(items)
        /\ \A v : Patch!Put(W[k], p, v) = Patch!Put(w, p, v)
    BY <1>0, <2>2, PlaceFilled DEF Spot
  <2>7. Does(W[k], Patch!Put(W[k], p, Patch!Array(Append(items, to[n + i]))), ps[i])
    BY <2>3, <2>4, <2>5, <2>6, AddItem
  <2> QED BY <2>2, <2>4, <2>6, <2>7 DEF k
<1> HIDE DEF W
<1>7. Leads(W[0], W[m], ps)
  BY <1>1, <1>3, <1>6, LeadsAlong
<1> QED BY <1>4, <1>5, <1>7 DEF ps

LEMMA RemoveAtIs ==
    ASSUME NEW I, NEW s \in Seq(I), NEW i \in 1..Len(s)
    PROVE  Patch!RemoveAt(s, i) = [j \in 1..(Len(s) - 1) |-> IF j < i THEN s[j] ELSE s[j + 1]]
<1> DEFINE l == SubSeq(s, 1, i - 1)
           r == SubSeq(s, i + 1, Len(s))
<1>1. Len(s) \in Nat
  BY LenProperties
<1>2. /\ l \in Seq(I) /\ Len(l) = i - 1 /\ \A j \in 1..(i - 1) : l[j] = s[j]
  BY <1>1
<1>3. /\ r \in Seq(I) /\ Len(r) = Len(s) - i /\ \A j \in 1..(Len(s) - i) : r[j] = s[i + j]
  BY <1>1
<1> HIDE DEF l, r
<1>4. l \o r = [j \in 1..(Len(s) - 1) |-> IF j <= i - 1 THEN l[j] ELSE r[j - (i - 1)]]
  <2> DEFINE t == l \o r
  <2>1. /\ t \in Seq(I) /\ Len(t) = Len(l) + Len(r)
        /\ \A j \in 1..(Len(l) + Len(r)) : t[j] = IF j <= Len(l) THEN l[j] ELSE r[j - Len(l)]
    BY <1>2, <1>3, ConcatProperties
  <2>2. Len(l) + Len(r) = Len(s) - 1
    BY <1>1, <1>2, <1>3
  <2> HIDE DEF t
  <2>3. t = [j \in 1..(Len(s) - 1) |-> t[j]]
    BY <2>1, <2>2
  <2>4. \A j \in 1..(Len(s) - 1) : t[j] = IF j <= i - 1 THEN l[j] ELSE r[j - (i - 1)]
    BY <1>2, <2>1, <2>2
  <2> QED BY <2>3, <2>4 DEF t
<1>5. \A j \in 1..(Len(s) - 1) :
         (IF j <= i - 1 THEN l[j] ELSE r[j - (i - 1)]) = IF j < i THEN s[j] ELSE s[j + 1]
  <2> SUFFICES ASSUME NEW j \in 1..(Len(s) - 1)
               PROVE  (IF j <= i - 1 THEN l[j] ELSE r[j - (i - 1)]) = IF j < i THEN s[j] ELSE s[j + 1]
    OBVIOUS
  <2>1. CASE j < i
    <3>1. j \in 1..(i - 1) /\ j <= i - 1
      BY <1>1, <2>1
    <3> QED BY <1>2, <2>1, <3>1
  <2>2. CASE ~(j < i)
    <3>1. /\ j - (i - 1) \in 1..(Len(s) - i) /\ ~(j <= i - 1) /\ i + (j - (i - 1)) = j + 1
      BY <1>1, <2>2
    <3> QED BY <1>3, <2>2, <3>1
  <2> QED BY <2>1, <2>2
<1> QED BY <1>4, <1>5 DEF Patch!RemoveAt, l, r

LEMMA RemovalsMake ==
    ASSUME NEW p, NEW I, NEW from \in Seq(I), NEW to \in Seq(I), Len(from) <= 4, Len(to) <= Len(from), NEW w,
           Patch!Undefined \notin I, NEW cur \in Seq(I), Len(cur) = Len(from),
           \A j \in 1..Len(to) : cur[j] = to[j],
           Spot(w, p), Patch!At(w, p) = Patch!Array(cur)
    PROVE  Leads(w, Patch!Put(w, p, Patch!Array(to)), Patch!Removals(to, from, p))
<1> DEFINE n == Len(to)
           m == Len(from) - n
           ps == Patch!Removals(to, from, p)
           stage(i) == [j \in 1..(n + m - i) |-> IF j <= n THEN to[j] ELSE cur[j + i]]
           W == [i \in 0..m |-> Patch!Put(w, p, Patch!Array(stage(i)))]
           s == Patch!Digit(n)
<1>0. p # <<>>
  BY NotRoot
<1>1. n \in Nat /\ m \in Nat /\ Len(from) \in Nat /\ n + m = Len(from) /\ n + m <= 4 /\ Len(cur) = n + m
  BY LenProperties
<1>2. ps = [i \in 1..m |-> Patch!Removal(Append(p, s))]
  BY DEF Patch!Removals
<1> HIDE DEF ps, m
<1>3. ps \in Seq({Patch!Removal(Append(p, s))}) /\ Len(ps) = m
  <2> DEFINE S == {Patch!Removal(Append(p, s))}
  <2>1. ps \in [1..m -> S]
    BY <1>2
  <2>2. m \in Nat
    BY <1>1
  <2> HIDE DEF S
  <2>3. ps \in Seq(S) /\ Len(ps) = m
    BY <2>1, <2>2
  <2> QED BY <2>3 DEF S
<1>4. W[0] = w
  <2>1. stage(0) = cur
    <3>1. cur = [j \in 1..(n + m) |-> cur[j]] /\ n + m - 0 = n + m
      BY <1>1
    <3>2. \A j \in 1..(n + m) : (IF j <= n THEN to[j] ELSE cur[j + 0]) = cur[j]
      BY <1>1
    <3> HIDE DEF n
    <3> QED BY <3>1, <3>2
  <2>2. W[0] = Patch!Put(w, p, Patch!Array(stage(0)))
    BY <1>1
  <2> QED BY <2>1, <2>2 DEF Spot
<1>5. W[m] = Patch!Put(w, p, Patch!Array(to))
  <2>1. stage(m) = to
    <3>1. to = [j \in 1..n |-> to[j]] /\ n + m - m = n
      BY <1>1
    <3>2. \A j \in 1..n : (IF j <= n THEN to[j] ELSE cur[j + m]) = to[j]
      BY <1>1
    <3> HIDE DEF n
    <3> QED BY <3>1, <3>2
  <2>2. W[m] = Patch!Put(w, p, Patch!Array(stage(m)))
    BY <1>1
  <2> QED BY <2>1, <2>2
<1>6. \A i \in 0..m : stage(i) \in Seq(I) /\ Len(stage(i)) = n + m - i
  <2> SUFFICES ASSUME NEW i \in 0..m PROVE stage(i) \in Seq(I) /\ Len(stage(i)) = n + m - i
    OBVIOUS
  <2>1. \A j \in 1..(n + m - i) : IF j <= n THEN to[j] \in I ELSE cur[j + i] \in I
    <3>1. \A j \in 1..(n + m - i) : (j <= n => j \in 1..n) /\ j + i \in 1..(n + m)
      BY <1>1
    <3> QED BY <1>1, <3>1
  <2>2. stage(i) \in [1..(n + m - i) -> I] /\ n + m - i \in Nat
    BY <1>1, <2>1
  <2> HIDE DEF stage, n
  <2> QED BY <2>2
<1>7. ASSUME NEW i \in 1..m PROVE Does(W[i - 1], W[i], ps[i])
  <2> DEFINE k == i - 1
             items == stage(k)
             less == stage(i)
  <2>1. /\ k \in 0..m /\ i \in 0..m /\ n \in 0..3 /\ n + m - k = (n + m - i) + 1 /\ n + 1 \in 1..(n + m - k)
        /\ n < n + m - k /\ n + m - i \in Nat /\ n + m - k - 1 = n + m - i
    <3> HIDE DEF n
    <3> QED BY <1>1
  <2>2. W[k] = Patch!Put(w, p, Patch!Array(items)) /\ W[i] = Patch!Put(w, p, Patch!Array(less))
    BY <2>1
  <2>3. s \in DOMAIN Patch!Digits /\ Patch!Digits[s] = n
    BY <2>1, DigitIs
  <2>4. items \in Seq(I) /\ Len(items) = n + m - k
    BY <1>6, <2>1
  <2>5. Patch!RemoveAt(items, n + 1) = less
    <3>1. \A j \in 1..(n + m - i) : (IF j < n + 1 THEN items[j] ELSE items[j + 1]) = less[j]
      <4> SUFFICES ASSUME NEW j \in 1..(n + m - i)
                   PROVE  (IF j < n + 1 THEN items[j] ELSE items[j + 1]) = less[j]
        OBVIOUS
      <4>1. /\ j \in 1..(n + m - k) /\ j + 1 \in 1..(n + m - k) /\ (j < n + 1 <=> j <= n)
            /\ (~(j <= n) => ~(j + 1 <= n)) /\ (j + 1) + k = j + i
        BY <1>1, <2>1
      <4> QED BY <4>1
    <3>2. less = [j \in 1..(n + m - i) |-> less[j]]
      OBVIOUS
    <3>3. n + 1 \in 1..Len(items) /\ Len(items) - 1 = n + m - i
      <4> HIDE DEF items, n, k
      <4> QED BY <2>1, <2>4
    <3> HIDE DEF items, less, n, k
    <3>4. Patch!RemoveAt(items, n + 1) = [j \in 1..(n + m - i) |-> IF j < n + 1 THEN items[j] ELSE items[j + 1]]
      BY <2>4, <3>3, RemoveAtIs
    <3> QED BY <3>1, <3>2, <3>4
  <2>6. ps[i] = Patch!Removal(Append(p, s))
    BY <1>2
  <2>7. items[n + 1] # Patch!Undefined
    <3> HIDE DEF items
    <3> QED BY <2>1, <2>4
  <2> HIDE DEF W, s, items, k, less, n
  <2>8. /\ Spot(W[k], p) /\ Patch!At(W[k], p) = Patch!Array(items)
        /\ \A v : Patch!Put(W[k], p, v) = Patch!Put(w, p, v)
    BY <1>0, <2>2, PlaceFilled DEF Spot
  <2>9. Does(W[k], Patch!Put(W[k], p, Patch!Array(Patch!RemoveAt(items, Patch!Digits[s] + 1))),
             Patch!Removal(Append(p, s)))
    BY <2>1, <2>3, <2>4, <2>7, <2>8, RemoveItem
  <2>10. Does(W[k], Patch!Put(W[k], p, Patch!Array(less)), Patch!Removal(Append(p, s)))
    BY <2>3, <2>5, <2>9
  <2> QED BY <2>2, <2>6, <2>8, <2>10 DEF k
<1> HIDE DEF W, s
<1>8. Leads(W[0], W[m], ps)
  BY <1>1, <1>3, <1>7, LeadsAlong
<1> QED BY <1>4, <1>5, <1>8 DEF ps

LEMMA ArraysMake ==
    ASSUME NEW p, NEW I, NEW from \in Seq(I), NEW to \in Seq(I), Len(from) <= 4, Len(to) <= 4,
           Patch!Undefined \notin I, NEW inner,
           \A i \in 1..Len(from) : i <= Len(to) =>
              MakesMember(p, Patch!Digit(i - 1), from[i], to[i], inner[Patch!Digit(i - 1)])
    PROVE  Makes(p, Patch!Array(from), Patch!Array(to), Patch!CompareArrays(to, from, p, inner))
<1> SUFFICES ASSUME NEW w, Spot(w, p), Patch!At(w, p) = Patch!Array(from)
             PROVE  Leads(w, Patch!Put(w, p, Patch!Array(to)), Patch!CompareArrays(to, from, p, inner))
  BY DEF Makes
<1> DEFINE both == IF Len(to) < Len(from) THEN Len(to) ELSE Len(from)
           cur == Mixed(from, to, both)
           v == Patch!Put(w, p, Patch!Array(cur))
           x == Patch!Put(w, p, Patch!Array(to))
           items == Patch!FlattenSeq(Inners(inner, both))
           more == Patch!Additions(to, from, p)
           less == Patch!Removals(to, from, p)
<1>0. p # <<>>
  BY NotRoot
<1>1. Len(from) \in Nat /\ Len(to) \in Nat /\ both \in Nat /\ both <= Len(from) /\ both <= Len(to)
  BY LenProperties
<1>2. Leads(w, v, items)
  <2>1. \A i \in 1..both :
           MakesMember(p, Patch!Digit(i - 1), from[i], to[i], inner[Patch!Digit(i - 1)])
    BY <1>1
  <2> HIDE DEF both
  <2> QED BY <1>1, <2>1, ItemsMake
<1>3. Patch!CompareArrays(to, from, p, inner) = (items \o more) \o less
  BY DEF Patch!CompareArrays, Inners
<1>4. cur \in Seq(I) /\ Len(cur) = Len(from) /\ \A j \in 1..Len(from) : j <= both => cur[j] = to[j]
  <2>1. \A j \in 1..Len(from) : IF j <= both THEN to[j] \in I ELSE from[j] \in I
    BY <1>1
  <2> HIDE DEF both
  <2>2. cur \in [1..Len(from) -> I]
    BY <2>1 DEF Mixed
  <2>3. \A j \in 1..Len(from) : j <= both => cur[j] = to[j]
    BY DEF Mixed
  <2> HIDE DEF cur
  <2> QED BY <1>1, <2>2, <2>3
<1> HIDE DEF cur, items, v, x
<1>5. Spot(v, p) /\ Patch!At(v, p) = Patch!Array(cur) /\ Patch!Put(v, p, Patch!Array(to)) = x
  BY <1>0, PlaceFilled DEF Spot, v, x
<1>6. CASE Len(from) <= Len(to)
  <2>1. cur = SubSeq(to, 1, Len(from))
    <3>1. cur = [j \in 1..Len(from) |-> cur[j]]
      BY <1>1, <1>4
    <3>2. SubSeq(to, 1, Len(from)) = [j \in 1..Len(from) |-> to[j]]
      BY <1>1, <1>6
    <3>3. \A j \in 1..Len(from) : cur[j] = to[j]
      BY <1>1, <1>4, <1>6
    <3> QED BY <3>1, <3>2, <3>3
  <2>2. Leads(v, x, more)
    <3> HIDE DEF more, both
    <3>1. Leads(v, Patch!Put(v, p, Patch!Array(to)), more)
      BY <1>5, <1>6, <2>1, AdditionsMake DEF more
    <3> QED BY <1>5, <3>1
  <2>3. less = <<>>
    <3>1. 1..(Len(from) - Len(to)) = {}
      BY <1>1, <1>6
    <3>2. less = [i \in {} |-> Patch!Removal(Append(p, Patch!Digit(Len(to))))]
      BY <3>1 DEF Patch!Removals
    <3> HIDE DEF less
    <3> QED BY <3>2
  <2> HIDE DEF more, less, both
  <2>4. Leads(w, x, items \o more) /\ Leads(x, x, less)
    BY <1>2, <2>2, <2>3, LeadsOn, LeadsNowhere
  <2>5. Leads(w, x, (items \o more) \o less)
    BY <2>4, LeadsOn
  <2> QED BY <1>3, <2>5 DEF x
<1>7. CASE ~(Len(from) <= Len(to))
  <2>1. \A j \in 1..Len(to) : cur[j] = to[j]
    <3>1. \A j \in 1..Len(to) : j \in 1..Len(from) /\ j <= both
      BY <1>1, <1>7
    <3> QED BY <1>4, <3>1
  <2>2. Leads(v, x, less)
    <3>1. Len(to) <= Len(from)
      BY <1>1, <1>7
    <3> HIDE DEF less, both
    <3>2. Leads(v, Patch!Put(v, p, Patch!Array(to)), less)
      BY <1>4, <1>5, <2>1, <3>1, RemovalsMake DEF less
    <3> QED BY <1>5, <3>2
  <2>3. more = <<>>
    <3>1. 1..(Len(to) - Len(from)) = {}
      BY <1>1, <1>7
    <3>2. more = [i \in {} |-> Patch!Puts("add", Append(p, Patch!Digit(Len(from) + i - 1)), to[Len(from) + i])]
      BY <3>1 DEF Patch!Additions
    <3> HIDE DEF more
    <3> QED BY <3>2
  <2> HIDE DEF more, less, both
  <2>4. Leads(w, v, items \o more)
    BY <1>2, <2>3, LeadsOn, LeadsNowhere
  <2>5. Leads(w, x, (items \o more) \o less)
    BY <2>2, <2>4, LeadsOn
  <2> QED BY <1>3, <2>5 DEF x
<1> QED BY <1>6, <1>7

-----------------------------------------------------------------------------
(* Objects. *)
(* seq has every member of S once. *)
Lists(seq, S) ==
    /\ seq \in Seq(S) /\ Len(seq) \in Nat
    /\ \A i, j \in 1..Len(seq) : seq[i] = seq[j] => i = j
    /\ \A x \in S : \E i \in 1..Len(seq) : seq[i] = x

LEMMA SetToSeqIs ==
    ASSUME NEW S, IsFiniteSet(S), NEW s, s = Patch!SetToSeq(S)
    PROVE  Lists(s, S)
<1> DEFINE n == Cardinality(S)
<1>1. n \in Nat /\ ExistsBijection(1..n, S)
  BY FS_CardinalityType
<1>2. Patch!Cardinality(S) = n
  BY DEF Patch!Cardinality, Cardinality
<1> HIDE DEF n
<1>3. \E f \in [1..n -> S] : Patch!IsInjective(f)
  BY <1>1 DEF ExistsBijection, Bijection, Injection, IsInjective, Patch!IsInjective
<1>4. s \in [1..n -> S] /\ Patch!IsInjective(s)
  BY <1>2, <1>3, Zenon DEF Patch!SetToSeq
<1>5. \A x \in S : \E i \in 1..n : s[i] = x
  <2>1. s \in Injection(1..n, S)
    BY <1>4 DEF Injection, IsInjective, Patch!IsInjective
  <2>2. IsFiniteSet(1..n) /\ Cardinality(1..n) = n
    <3>1. Cardinality(1..n) = n
      BY <1>1, FS_Interval
    <3>2. IsFiniteSet(1..n)
      BY <1>1, FS_Interval
    <3> QED BY <3>1, <3>2
  <2>3. s \in Surjection(1..n, S)
    BY <2>1, <2>2, FS_Injection DEF n
  <2> QED BY <2>3 DEF Surjection
<1>6. s \in Seq(S) /\ Len(s) = n
  BY <1>1, <1>4
<1> QED BY <1>1, <1>4, <1>5, <1>6 DEF Patch!IsInjective, Lists

(* The fields of f, those seen as they are in g. *)
Kept(f, g, seen) == [k \in DOMAIN f \ (seen \ DOMAIN g) |-> IF k \in seen THEN g[k] ELSE f[k]]

(* Fields with one set, and without one. *)
With(h, key, v) == [x \in DOMAIN h \cup {key} |-> IF x = key THEN v ELSE h[x]]

Without(h, key) == [x \in DOMAIN h \ {key} |-> h[x]]

(* One field more of f is seen: h becomes more. *)
SeenOn(f, g, h, key, more) ==
    /\ Fcn(h) /\ key \in DOMAIN h /\ h[key] = f[key]
    /\ key \in DOMAIN g => With(h, key, g[key]) = more
    /\ key \notin DOMAIN g => Without(h, key) = more

LEMMA KeptOn ==
    ASSUME NEW f, NEW g, NEW seen, NEW key \in DOMAIN f, key \notin seen, NEW h, h = Kept(f, g, seen),
           NEW more, more = Kept(f, g, seen \cup {key})
    PROVE  SeenOn(f, g, h, key, more)
<1>1. /\ DOMAIN h = DOMAIN f \ (seen \ DOMAIN g)
      /\ \A x \in DOMAIN h : h[x] = IF x \in seen THEN g[x] ELSE f[x]
      /\ h = [x \in DOMAIN h |-> h[x]]
  BY DEF Kept
<1>2. /\ DOMAIN more = DOMAIN f \ ((seen \cup {key}) \ DOMAIN g)
      /\ \A x \in DOMAIN more : more[x] = IF x \in seen \cup {key} THEN g[x] ELSE f[x]
      /\ more = [x \in DOMAIN more |-> more[x]]
  BY DEF Kept
<1>3. Fcn(h) /\ key \in DOMAIN h /\ h[key] = f[key]
  BY <1>1 DEF Fcn
<1>4. ASSUME key \in DOMAIN g
      PROVE  [x \in DOMAIN h \cup {key} |-> IF x = key THEN g[key] ELSE h[x]] = more
  <2>1. DOMAIN more = DOMAIN h \cup {key}
    BY <1>1, <1>2, <1>4
  <2>2. \A x \in DOMAIN more : more[x] = IF x = key THEN g[key] ELSE h[x]
    BY <1>1, <1>2, <2>1
  <2> QED BY <1>2, <2>1, <2>2
<1>5. ASSUME key \notin DOMAIN g
      PROVE  [x \in DOMAIN h \ {key} |-> h[x]] = more
  <2>1. DOMAIN more = DOMAIN h \ {key}
    BY <1>1, <1>2, <1>5
  <2>2. \A x \in DOMAIN more : more[x] = h[x]
    BY <1>1, <1>2, <2>1
  <2> QED BY <1>2, <2>1, <2>2
<1> QED BY <1>3, <1>4, <1>5 DEF With, Without, SeenOn

(* What compareObjects gives for the old keys; NewParts for the new ones. *)
OldParts(old, g, p, inner) ==
    [i \in 1..Len(old) |-> IF Patch!Member(Patch!Object(g), old[i]) = Patch!Undefined
                           THEN <<Patch!Removal(Append(p, old[i]))>> ELSE inner[old[i]]]

(* Two objects, and operations for what they have in both.  No key of     *)
(* theirs is inherited.                                                    *)
FieldsFit(p, f, g, inner) ==
    /\ Fcn(f) /\ Fcn(g) /\ DOMAIN f \cup DOMAIN g \subseteq Keys \ Inherited
    /\ \A k \in DOMAIN f : f[k] # Patch!Undefined
    /\ \A k \in DOMAIN g : g[k] # Patch!Undefined
    /\ \A k \in DOMAIN f \cap DOMAIN g : MakesMember(p, k, f[k], g[k], inner[k])

LEMMA OldFieldsMake ==
    ASSUME NEW p, NEW f, NEW g, NEW inner, FieldsFit(p, f, g, inner), NEW old, Lists(old, DOMAIN f), NEW w, Spot(w, p), Patch!At(w, p) = Patch!Object(f)
    PROVE  Leads(w, Patch!Put(w, p, Patch!Object([k \in DOMAIN f \cap DOMAIN g |-> g[k]])),
                 Patch!FlattenSeq(OldParts(old, g, p, inner)))
<1> DEFINE n == Len(old)
           Seen(i) == {old[j] : j \in 1..i}
           stage(i) == Kept(f, g, Seen(i))
           W == [i \in 0..n |-> Patch!Put(w, p, Patch!Object(stage(i)))]
           parts == OldParts(old, g, p, inner)
<1>0. /\ n \in Nat /\ \A j \in 1..n : old[j] \in DOMAIN f
      /\ \A i, j \in 1..n : old[i] = old[j] => i = j
      /\ \A x \in DOMAIN f : \E i \in 1..n : old[i] = x
  BY DEF Lists
<1>1. W[0] = w
  <2>1. stage(0) = f
    <3>1. Seen(0) = {}
      OBVIOUS
    <3> HIDE DEF Seen
    <3>2. stage(0) = [k \in DOMAIN f |-> f[k]]
      BY <3>1 DEF Kept
    <3> QED BY <3>2 DEF Fcn, FieldsFit
  <2>2. W[0] = Patch!Put(w, p, Patch!Object(stage(0)))
    BY <1>0
  <2> QED BY <2>1, <2>2 DEF Spot
<1>2. W[n] = Patch!Put(w, p, Patch!Object([k \in DOMAIN f \cap DOMAIN g |-> g[k]]))
  <2>1. stage(n) = [k \in DOMAIN f \cap DOMAIN g |-> g[k]]
    <3>1. Seen(n) = DOMAIN f
      <4> HIDE DEF n
      <4>1. \A x \in DOMAIN f : x \in Seen(n)
        BY <1>0
      <4>2. \A x \in Seen(n) : x \in DOMAIN f
        BY <1>0
      <4> HIDE DEF Seen
      <4> QED BY <4>1, <4>2
    <3> HIDE DEF Seen
    <3>2. DOMAIN f \ (DOMAIN f \ DOMAIN g) = DOMAIN f \cap DOMAIN g
      OBVIOUS
    <3>3. stage(n) = [k \in DOMAIN f \cap DOMAIN g |-> IF k \in DOMAIN f THEN g[k] ELSE f[k]]
      BY <3>1, <3>2 DEF Kept
    <3> QED BY <3>3
  <2>2. W[n] = Patch!Put(w, p, Patch!Object(stage(n)))
    BY <1>0
  <2> QED BY <2>1, <2>2
<1>3. \A v : Patch!Object(v).kind = "object"
  BY ContainerKinds
<1>4. \A i \in 0..n : /\ Spot(W[i], p) /\ Patch!At(W[i], p) = Patch!Object(stage(i))
                      /\ \A v : Patch!Put(W[i], p, v) = Patch!Put(w, p, v)
  <2> SUFFICES ASSUME NEW i \in 0..n
               PROVE  /\ Spot(W[i], p) /\ Patch!At(W[i], p) = Patch!Object(stage(i))
                      /\ \A v : Patch!Put(W[i], p, v) = Patch!Put(w, p, v)
    OBVIOUS
  <2>1. W[i] = Patch!Put(w, p, Patch!Object(stage(i)))
    OBVIOUS
  <2> HIDE DEF W, stage
  <2>2. Spot(W[i], p)
    BY <1>3, <2>1, PlaceFilled
  <2>3. /\ \A v : Patch!At(Patch!Put(w, p, v), p) = v
        /\ \A v, u : Patch!Put(Patch!Put(w, p, v), p, u) = Patch!Put(w, p, u)
    BY DEF Spot
  <2> QED BY <2>1, <2>2, <2>3
<1>5. ASSUME NEW i \in 1..n PROVE Leads(W[i - 1], W[i], parts[i])
  <2> DEFINE k == i - 1
             key == old[i]
             h == stage(k)
             c == Patch!Object(h)
  <2>1. k \in 0..n /\ i \in 0..n /\ key \in DOMAIN f /\ key \in Keys /\ key \in Patch!Names
        /\ key \notin Inherited
    BY <1>0 DEF FieldsFit, Patch!Names
  <2>2. key \notin Seen(k) /\ Seen(i) = Seen(k) \cup {key}
    <3>1. \A j \in 1..k : j \in 1..n /\ j # i /\ j \in 1..i
      BY <1>0
    <3>2. \A j \in 1..i : j \in 1..k \/ j = i
      BY <1>0
    <3>3. i \in 1..i
      BY <1>0
    <3> HIDE DEF k, n
    <3>4. \A j \in 1..k : old[j] # old[i]
      BY <1>0, <3>1
    <3>5. old[i] \notin Seen(k)
      BY <3>4
    <3>6. Seen(i) = Seen(k) \cup {old[i]}
      BY <3>1, <3>2, <3>3
    <3> QED BY <3>5, <3>6
  <2>3. W[i] = Patch!Put(w, p, Patch!Object(stage(i)))
    BY <2>1
  <2>4. parts[i] = IF Patch!Member(Patch!Object(g), key) = Patch!Undefined
                   THEN <<Patch!Removal(Append(p, key))>> ELSE inner[key]
    BY DEF OldParts
  <2>5. Patch!Member(Patch!Object(g), key) = Patch!Undefined <=> key \notin DOMAIN g
    <3>1. /\ Patch!Object(g).kind = "object" /\ Patch!Object(g).kind # "array" /\ Patch!Object(g).fields = g
      BY ContainerKinds
    <3>2. key \notin Inherited /\ (key \in DOMAIN g => g[key] # Patch!Undefined)
      BY <2>1 DEF FieldsFit
    <3> HIDE DEF key
    <3> QED BY <3>1, <3>2 DEF Patch!Member
  <2>6. /\ Fcn(h) /\ key \in DOMAIN h /\ h[key] = f[key]
        /\ key \in DOMAIN g => With(h, key, g[key]) = stage(i)
        /\ key \notin DOMAIN g => Without(h, key) = stage(i)
    <3> DEFINE more == Kept(f, g, Seen(k) \cup {key})
    <3>1. more = stage(i)
      BY <2>2, Zenon
    <3> HIDE DEF key, k, Seen, more
    <3>2. h = Kept(f, g, Seen(k))
      OBVIOUS
    <3> DEFINE seen == Seen(k)
    <3>3. key \in DOMAIN f /\ key \notin seen /\ h = Kept(f, g, seen) /\ more = Kept(f, g, seen \cup {key})
      BY <2>1, <2>2, <3>2 DEF more
    <3> HIDE DEF h, stage, seen
    <3>4. /\ Fcn(h) /\ key \in DOMAIN h /\ h[key] = f[key]
          /\ key \in DOMAIN g => With(h, key, g[key]) = more
          /\ key \notin DOMAIN g => Without(h, key) = more
      <4>1. SeenOn(f, g, h, key, more)
        BY <3>3, KeptOn
      <4> QED BY <4>1 DEF SeenOn
    <3> QED BY <3>1, <3>4
  <2>7. Spot(W[k], p) /\ Patch!At(W[k], p) = c /\ \A v : Patch!Put(W[k], p, v) = Patch!Put(w, p, v)
    BY <1>4, <2>1
  <2> HIDE DEF W, parts, stage, key, h, k
  <2>8. CASE key \in DOMAIN g
    <3>1. Holds(c, key)
      BY <2>6 DEF Holds
    <3>2. Patch!Member(c, key) = f[key] /\ Patch!WithMember(c, key, g[key]) = Patch!Object(stage(i))
      <4>1. c.kind = "object" /\ c.kind # "array" /\ c.fields = h
        BY ContainerKinds
      <4> HIDE DEF c
      <4>2. Patch!WithMember(c, key, g[key]) = Patch!Object(With(h, key, g[key]))
        BY <4>1 DEF Patch!WithMember, With
      <4> QED BY <2>6, <2>8, <4>1, <4>2 DEF Patch!Member
    <3>3. MakesMember(p, key, f[key], g[key], inner[key])
      BY <2>1, <2>8 DEF FieldsFit
    <3> HIDE DEF c
    <3>4. Leads(W[k], Patch!Put(W[k], Append(p, key), g[key]), inner[key])
      BY <2>7, <3>1, <3>2, <3>3 DEF MakesMember
    <3>5. Patch!Put(W[k], Append(p, key), g[key]) = Patch!Put(W[k], p, Patch!Object(stage(i)))
      BY <2>1, <2>7, <3>1, <3>2, PlaceDeeper
    <3>6. W[i] = Patch!Put(W[k], Append(p, key), g[key])
      BY <2>3, <2>7, <3>5
    <3> QED BY <2>4, <2>5, <2>8, <3>4, <3>6 DEF k
  <2>9. CASE key \notin DOMAIN g
    <3>1. h[key] # Patch!Undefined
      BY <2>1, <2>6 DEF FieldsFit
    <3>2. Does(W[k], Patch!Put(W[k], p, Patch!Object(Without(h, key))), Patch!Removal(Append(p, key)))
      BY <2>1, <2>6, <2>7, <3>1, RemoveField DEF Without
    <3>3. Does(W[k], Patch!Put(W[k], p, Patch!Object(stage(i))), Patch!Removal(Append(p, key)))
      BY <2>6, <2>9, <3>2
    <3>4. Does(W[k], W[i], Patch!Removal(Append(p, key)))
      BY <2>3, <2>7, <3>3
    <3>5. Leads(W[k], W[i], <<Patch!Removal(Append(p, key))>>)
      BY <3>4, LeadsOne
    <3> QED BY <2>4, <2>5, <2>9, <3>5 DEF k
  <2> QED BY <2>8, <2>9
<1>6. parts = [i \in 1..n |-> parts[i]]
  BY DEF OldParts
<1> HIDE DEF W, parts, stage
<1>7. Leads(W[0], W[n], Patch!FlattenSeq(parts))
  BY <1>0, <1>5, <1>6, LeadsAll
<1> QED BY <1>1, <1>2, <1>7 DEF parts

NewParts(new, g, p) ==
    [i \in 1..Len(new) |-> Patch!Puts("add", Append(p, new[i]), g[new[i]])]

LEMMA NewFieldsMake ==
    ASSUME NEW p, NEW f, NEW g, NEW inner, FieldsFit(p, f, g, inner),
           NEW new, Lists(new, DOMAIN g \ DOMAIN f),
           NEW w, Spot(w, p), Patch!At(w, p) = Patch!Object([k \in DOMAIN f \cap DOMAIN g |-> g[k]])
    PROVE  Leads(w, Patch!Put(w, p, Patch!Object(g)), NewParts(new, g, p))
<1> DEFINE n == Len(new)
           Seen(i) == {new[j] : j \in 1..i}
           stage(i) == [k \in (DOMAIN f \cap DOMAIN g) \cup Seen(i) |-> g[k]]
           W == [i \in 0..n |-> Patch!Put(w, p, Patch!Object(stage(i)))]
           parts == NewParts(new, g, p)
<1>0. /\ n \in Nat /\ \A j \in 1..n : new[j] \in DOMAIN g /\ new[j] \notin DOMAIN f
      /\ \A x \in DOMAIN g \ DOMAIN f : \E i \in 1..n : new[i] = x
  BY DEF Lists
<1>1. W[0] = w
  <2>1. stage(0) = [k \in DOMAIN f \cap DOMAIN g |-> g[k]]
    <3>1. (DOMAIN f \cap DOMAIN g) \cup Seen(0) = DOMAIN f \cap DOMAIN g
      OBVIOUS
    <3> HIDE DEF Seen
    <3> QED BY <3>1
  <2>2. W[0] = Patch!Put(w, p, Patch!Object(stage(0)))
    BY <1>0
  <2> HIDE DEF stage, W
  <2>3. Patch!At(w, p) = Patch!Object(stage(0))
    BY <2>1
  <2> QED BY <2>2, <2>3 DEF Spot
<1>2. W[n] = Patch!Put(w, p, Patch!Object(g))
  <2>1. stage(n) = g
    <3> HIDE DEF n
    <3>1. \A x \in DOMAIN g \ DOMAIN f : x \in Seen(n)
      BY <1>0
    <3>2. \A x \in Seen(n) : x \in DOMAIN g
      BY <1>0
    <3> HIDE DEF Seen
    <3>3. (DOMAIN f \cap DOMAIN g) \cup Seen(n) = DOMAIN g
      BY <3>1, <3>2
    <3>4. stage(n) = [k \in DOMAIN g |-> g[k]]
      BY <3>3
    <3> QED BY <3>4 DEF FieldsFit, Fcn
  <2>2. W[n] = Patch!Put(w, p, Patch!Object(stage(n)))
    BY <1>0
  <2> QED BY <2>1, <2>2
<1>3. \A v : Patch!Object(v).kind = "object"
  BY ContainerKinds
<1>4. \A i \in 0..n : /\ Spot(W[i], p) /\ Patch!At(W[i], p) = Patch!Object(stage(i))
                      /\ \A v : Patch!Put(W[i], p, v) = Patch!Put(w, p, v)
  <2> SUFFICES ASSUME NEW i \in 0..n
               PROVE  /\ Spot(W[i], p) /\ Patch!At(W[i], p) = Patch!Object(stage(i))
                      /\ \A v : Patch!Put(W[i], p, v) = Patch!Put(w, p, v)
    OBVIOUS
  <2>1. W[i] = Patch!Put(w, p, Patch!Object(stage(i)))
    OBVIOUS
  <2> HIDE DEF W, stage
  <2>2. Spot(W[i], p)
    BY <1>3, <2>1, PlaceFilled
  <2>3. /\ \A v : Patch!At(Patch!Put(w, p, v), p) = v
        /\ \A v, u : Patch!Put(Patch!Put(w, p, v), p, u) = Patch!Put(w, p, u)
    BY DEF Spot
  <2> QED BY <2>1, <2>2, <2>3
<1>5. ASSUME NEW i \in 1..n PROVE Does(W[i - 1], W[i], parts[i])
  <2> DEFINE k == i - 1
             key == new[i]
             h == stage(k)
  <2>1. k \in 0..n /\ i \in 0..n /\ key \in DOMAIN g /\ key \in Patch!Names
    BY <1>0 DEF FieldsFit, Patch!Names
  <2>2. Seen(i) = Seen(k) \cup {key}
    <3>1. (\A j \in 1..k : j \in 1..i) /\ (\A j \in 1..i : j \in 1..k \/ j = i) /\ i \in 1..i
      BY <1>0
    <3> HIDE DEF k, n
    <3> QED BY <3>1
  <2>3. W[i] = Patch!Put(w, p, Patch!Object(stage(i)))
    BY <2>1
  <2>4. parts[i] = Patch!Puts("add", Append(p, key), g[key])
    BY DEF NewParts
  <2>5. With(h, key, g[key]) = stage(i)
    <3> HIDE DEF Seen, key, k
    <3>1. DOMAIN h \cup {key} = (DOMAIN f \cap DOMAIN g) \cup Seen(i)
      BY <2>2
    <3>2. \A x \in DOMAIN h \cup {key} : (IF x = key THEN g[key] ELSE h[x]) = g[x]
      OBVIOUS
    <3> HIDE DEF h
    <3> QED BY <3>1, <3>2 DEF With
  <2>6. Spot(W[k], p) /\ Patch!At(W[k], p) = Patch!Object(h)
        /\ \A v : Patch!Put(W[k], p, v) = Patch!Put(w, p, v)
    BY <1>4, <2>1
  <2> HIDE DEF W, parts, stage, key, h, k
  <2>7. Does(W[k], Patch!Put(W[k], p, Patch!Object(With(h, key, g[key]))),
             Patch!Puts("add", Append(p, key), g[key]))
    BY <2>1, <2>6, AddField DEF With
  <2>8. Does(W[k], W[i], parts[i])
    BY <2>3, <2>4, <2>5, <2>6, <2>7
  <2> QED BY <2>8 DEF k
<1>6. parts \in Seq({parts[i] : i \in 1..n}) /\ Len(parts) = n
  <2> DEFINE S == {parts[i] : i \in 1..n}
  <2>1. parts \in [1..n -> S]
    BY DEF NewParts
  <2>2. n \in Nat
    BY <1>0
  <2> HIDE DEF S, parts, n
  <2>3. parts \in Seq(S) /\ Len(parts) = n
    BY <2>1, <2>2
  <2> QED BY <2>3 DEF S
<1> HIDE DEF W, parts, stage
<1>7. Leads(W[0], W[n], parts)
  BY <1>0, <1>5, <1>6, LeadsAlong
<1> QED BY <1>1, <1>2, <1>7 DEF parts

LEMMA ObjectsMake ==
    ASSUME NEW p, NEW f, NEW g, NEW inner, FieldsFit(p, f, g, inner)
    PROVE  Makes(p, Patch!Object(f), Patch!Object(g),
                 Patch!CompareObjects(Patch!Object(g), Patch!Object(f), p, inner))
<1> SUFFICES ASSUME NEW w, Spot(w, p), Patch!At(w, p) = Patch!Object(f)
             PROVE  Leads(w, Patch!Put(w, p, Patch!Object(g)),
                          Patch!CompareObjects(Patch!Object(g), Patch!Object(f), p, inner))
  BY DEF Makes
<1> DEFINE old == Patch!SetToSeq(DOMAIN f)
           new == Patch!SetToSeq(DOMAIN g \ DOMAIN f)
           base == Patch!Object([k \in DOMAIN f \cap DOMAIN g |-> g[k]])
           v == Patch!Put(w, p, base)
           x == Patch!Put(w, p, Patch!Object(g))
           parts == OldParts(old, g, p, inner)
           more == NewParts(new, g, p)
<1>1. Lists(old, DOMAIN f) /\ Lists(new, DOMAIN g \ DOMAIN f)
  <2>1. DOMAIN f \in SUBSET Keys /\ DOMAIN g \ DOMAIN f \in SUBSET Keys
    BY DEF FieldsFit
  <2>2. IsFiniteSet(DOMAIN f) /\ IsFiniteSet(DOMAIN g \ DOMAIN f)
    BY <2>1, FS_Subset, PatchAssumption
  <2> QED BY <2>2, SetToSeqIs
<1>2. Patch!CompareObjects(Patch!Object(g), Patch!Object(f), p, inner) = Patch!FlattenSeq(parts) \o more
  <2>1. Patch!Object(f).fields = f /\ Patch!Object(g).fields = g
    BY ContainerKinds
  <2> QED BY <2>1 DEF Patch!CompareObjects, OldParts, NewParts
<1> HIDE DEF old, new
<1>3. Leads(w, v, Patch!FlattenSeq(parts))
  BY <1>1, OldFieldsMake
<1>4. base.kind = "object"
  BY ContainerKinds
<1> HIDE DEF base, parts, more
<1>5. Spot(v, p) /\ Patch!At(v, p) = base /\ Patch!Put(v, p, Patch!Object(g)) = x
  <2>1. Spot(v, p)
    BY <1>4, PlaceFilled
  <2>2. /\ \A u : Patch!At(Patch!Put(w, p, u), p) = u
        /\ \A u, t : Patch!Put(Patch!Put(w, p, u), p, t) = Patch!Put(w, p, t)
    BY DEF Spot
  <2> QED BY <2>1, <2>2
<1> HIDE DEF v, x
<1>6. Leads(v, Patch!Put(v, p, Patch!Object(g)), more)
  BY <1>1, <1>5, NewFieldsMake DEF base, more
<1>7. Leads(w, x, Patch!FlattenSeq(parts) \o more)
  BY <1>3, <1>5, <1>6, LeadsOn
<1> QED BY <1>2, <1>7 DEF x

-----------------------------------------------------------------------------
(* What documents hold, by the depth it stands at. *)
Deep == Patch!Items \cup {Patch!Undefined, Patch!Method}

LEMMA LeafKind == \A v \in Patch!Leaves : v.kind = "atom" /\ v # Patch!Undefined /\ v # Patch!Method
<1>1. Patch!Undefined.kind = "undefined" /\ Patch!Method.kind = "function"
  BY DEF Patch!Undefined, Patch!Method
<1>2. \A v \in Patch!Leaves : v.kind = "atom"
  BY DEF Patch!Leaves, Patch!Atom
<1> QED BY <1>1, <1>2

LEMMA FieldsAre ==
    ASSUME NEW V, NEW f \in Patch!Fields(V)
    PROVE  Fcn(f) /\ DOMAIN f \subseteq Keys /\ \A k \in DOMAIN f : f[k] \in V
<1>1. PICK D \in SUBSET Keys : f \in [D -> V]
  BY DEF Patch!Fields
<1> QED BY <1>1 DEF Fcn

LEMMA ArraysAre ==
    ASSUME NEW V, NEW s \in Patch!BoundedSeq(V, MaxLen)
    PROVE  s \in Seq(V) /\ Len(s) \in 0..4
<1>1. PICK m \in 0..MaxLen : s \in [1..m -> V]
  BY DEF Patch!BoundedSeq, Patch!SeqOf
<1>2. m \in 0..4
  BY PatchAssumption
<1>3. s \in Seq(V) /\ Len(s) = m
  BY <1>1, <1>2
<1> QED BY <1>2, <1>3

LEMMA ValueIs ==
    ASSUME NEW v \in Patch!Values
    PROVE  \/ v \in Patch!Leaves
           \/ \E s \in Seq(Patch!Items) : v = Patch!Array(s) /\ Len(s) \in 0..4
           \/ \E f : /\ v = Patch!Object(f) /\ Fcn(f) /\ DOMAIN f \subseteq Keys
                     /\ \A k \in DOMAIN f : f[k] \in Patch!Leaves
<1>1. CASE v \in Patch!Leaves
  BY <1>1
<1>2. CASE v \in {Patch!Array(s) : s \in Patch!BoundedSeq(Patch!Items, MaxLen)}
  <2>1. PICK s \in Patch!BoundedSeq(Patch!Items, MaxLen) : v = Patch!Array(s)
    BY <1>2
  <2> QED BY <2>1, ArraysAre
<1>3. CASE v \in {Patch!Object(f) : f \in Patch!Fields(Patch!Leaves)}
  <2>1. PICK f \in Patch!Fields(Patch!Leaves) : v = Patch!Object(f)
    BY <1>3
  <2> QED BY <2>1, FieldsAre
<1> QED BY <1>1, <1>2, <1>3 DEF Patch!Values

LEMMA DocumentIs ==
    ASSUME NEW d \in Patch!Documents
    PROVE  \E f : /\ d = Patch!Object(f) /\ Fcn(f) /\ DOMAIN f \subseteq Keys
                  /\ \A k \in DOMAIN f : f[k] \in Patch!Values
<1>1. PICK f \in Patch!Fields(Patch!Leaves) \cup UNION {[{k} -> Patch!Values] : k \in Keys} : d = Patch!Object(f)
  BY DEF Patch!Documents
<1>2. CASE f \in Patch!Fields(Patch!Leaves)
  <2>1. Fcn(f) /\ DOMAIN f \subseteq Keys /\ \A k \in DOMAIN f : f[k] \in Patch!Values
    BY <1>2, FieldsAre DEF Patch!Values
  <2> QED BY <1>1, <2>1
<1>3. CASE f \in UNION {[{k} -> Patch!Values] : k \in Keys}
  <2>1. PICK k \in Keys : f \in [{k} -> Patch!Values]
    BY <1>3
  <2>2. Fcn(f) /\ DOMAIN f \subseteq Keys /\ \A x \in DOMAIN f : f[x] \in Patch!Values
    BY <2>1 DEF Fcn
  <2> QED BY <1>1, <2>2
<1> QED BY <1>2, <1>3

(* obj[key], by what obj is. *)
LEMMA MemberIs ==
    /\ \A f, s : s \in DOMAIN f => Patch!Member(Patch!Object(f), s) = f[s]
    /\ \A f, s : s \notin DOMAIN f =>
          Patch!Member(Patch!Object(f), s) \in {Patch!Undefined, Patch!Method}
    /\ \A a, s : s \in DOMAIN Patch!Digits /\ Patch!Digits[s] < Len(a) =>
          Patch!Member(Patch!Array(a), s) = a[Patch!Digits[s] + 1]
    /\ \A a, s : ~(s \in DOMAIN Patch!Digits /\ Patch!Digits[s] < Len(a)) =>
          Patch!Member(Patch!Array(a), s) = Patch!Undefined
    /\ \A v, s : v.kind \notin {"object", "array"} => Patch!Member(v, s) = Patch!Undefined
<1>1. ASSUME NEW f, NEW s
      PROVE  Patch!Member(Patch!Object(f), s)
               = IF s \in DOMAIN f THEN f[s] ELSE IF s \in Inherited THEN Patch!Method ELSE Patch!Undefined
  <2> DEFINE c == Patch!Object(f)
  <2>1. c.kind = "object" /\ c.kind # "array" /\ c.fields = f
    BY ContainerKinds
  <2> HIDE DEF c
  <2>2. Patch!Member(c, s)
          = IF s \in DOMAIN f THEN f[s] ELSE IF s \in Inherited THEN Patch!Method ELSE Patch!Undefined
    BY <2>1 DEF Patch!Member
  <2> QED BY <2>2 DEF c
<1>2. ASSUME NEW a, NEW s
      PROVE  Patch!Member(Patch!Array(a), s)
               = IF s \in DOMAIN Patch!Digits /\ Patch!Digits[s] < Len(a)
                 THEN a[Patch!Digits[s] + 1] ELSE Patch!Undefined
  <2> DEFINE c == Patch!Array(a)
  <2>1. c.kind = "array" /\ c.kind # "object" /\ c.items = a
    BY ContainerKinds
  <2> HIDE DEF c
  <2>2. Patch!Member(c, s) = IF s \in DOMAIN Patch!Digits /\ Patch!Digits[s] < Len(a)
                             THEN a[Patch!Digits[s] + 1] ELSE Patch!Undefined
    BY <2>1 DEF Patch!Member
  <2> QED BY <2>2 DEF c
<1>3. \A v, s : v.kind \notin {"object", "array"} => Patch!Member(v, s) = Patch!Undefined
  BY DEF Patch!Member
<1> QED BY <1>1, <1>2, <1>3

LEMMA DeepIs ==
    ASSUME NEW v \in Deep
    PROVE  v.kind \notin {"object", "array"} \/ v = Patch!Array(<<>>) \/ v = Patch!Object(<<>>)
<1>1. Patch!Undefined.kind = "undefined" /\ Patch!Method.kind = "function"
  BY DEF Patch!Undefined, Patch!Method
<1> QED BY <1>1, LeafKind DEF Deep, Patch!Items

LEMMA DeepMember ==
    ASSUME NEW v \in Deep, NEW s
    PROVE  Patch!Member(v, s) \in Deep
<1>1. DOMAIN <<>> = {} /\ Len(<<>>) = 0
  OBVIOUS
<1>2. CASE v = Patch!Object(<<>>)
  BY <1>1, <1>2, MemberIs DEF Deep
<1>3. CASE v = Patch!Array(<<>>)
  <2>1. ~(s \in DOMAIN Patch!Digits /\ Patch!Digits[s] < Len(<<>>))
    BY <1>1, DigitsAre
  <2> QED BY <1>3, <2>1, MemberIs DEF Deep
<1>4. CASE v.kind \notin {"object", "array"}
  BY <1>4, MemberIs DEF Deep
<1> QED BY <1>2, <1>3, <1>4, DeepIs

LEMMA ValueMember ==
    ASSUME NEW v \in Patch!Values \cup {Patch!Undefined, Patch!Method}, NEW s
    PROVE  Patch!Member(v, s) \in Deep
<1>1. CASE v.kind \notin {"object", "array"}
  BY <1>1, MemberIs DEF Deep
<1>2. ASSUME NEW a \in Seq(Patch!Items), v = Patch!Array(a), Len(a) \in 0..4
      PROVE  Patch!Member(v, s) \in Deep
  <2>1. CASE s \in DOMAIN Patch!Digits /\ Patch!Digits[s] < Len(a)
    <3>1. Patch!Digits[s] + 1 \in 1..Len(a)
      BY <1>2, <2>1, DigitsAre
    <3>2. a[Patch!Digits[s] + 1] \in Patch!Items
      BY <3>1, ElementOfSeq
    <3> QED BY <1>2, <2>1, <3>2, MemberIs DEF Deep
  <2>2. CASE ~(s \in DOMAIN Patch!Digits /\ Patch!Digits[s] < Len(a))
    BY <1>2, <2>2, MemberIs DEF Deep
  <2> QED BY <2>1, <2>2
<1>3. ASSUME NEW f, v = Patch!Object(f), \A k \in DOMAIN f : f[k] \in Patch!Leaves
      PROVE  Patch!Member(v, s) \in Deep
  <2>1. CASE s \in DOMAIN f
    BY <1>3, <2>1, MemberIs DEF Deep, Patch!Items
  <2>2. CASE s \notin DOMAIN f
    BY <1>3, <2>2, MemberIs DEF Deep
  <2> QED BY <2>1, <2>2
<1>4. CASE v \in Patch!Values
  BY <1>1, <1>2, <1>3, <1>4, ValueIs, LeafKind
<1>5. CASE v \in {Patch!Undefined, Patch!Method}
  BY <1>1, <1>5 DEF Patch!Undefined, Patch!Method
<1> QED BY <1>4, <1>5

LEMMA DocumentMember ==
    ASSUME NEW d \in Patch!Documents, NEW s
    PROVE  Patch!Member(d, s) \in Patch!Values \cup {Patch!Undefined, Patch!Method}
<1>1. PICK f : d = Patch!Object(f) /\ \A k \in DOMAIN f : f[k] \in Patch!Values
  BY DocumentIs
<1> QED BY <1>1, MemberIs

LEMMA PathEnds ==
    ASSUME NEW T, NEW path \in Seq(T), NEW n \in Nat, Len(path) = n + 1
    PROVE  \E q \in Seq(T) : \E s \in T : path = Append(q, s) /\ Len(q) = n
<1> DEFINE q == [i \in 1..n |-> path[i]]
           s == path[n + 1]
<1>1. \A i \in 1..(n + 1) : path[i] \in T
  BY ElementOfSeq
<1>2. q \in [1..n -> T] /\ s \in T
  BY <1>1
<1>3. q \in Seq(T) /\ Len(q) = n
  <2> HIDE DEF q
  <2> QED BY <1>2
<1>4. \A i \in 1..n : q[i] = path[i]
  OBVIOUS
<1> HIDE DEF q
<1>5. path = Append(q, s)
  <2>1. path = [i \in 1..(n + 1) |-> path[i]]
    OBVIOUS
  <2>2. Append(q, s) = [i \in 1..(n + 1) |-> IF i <= n THEN q[i] ELSE s]
    BY <1>2, <1>3
  <2>3. \A i \in 1..(n + 1) : path[i] = IF i <= n THEN q[i] ELSE s
    BY <1>4
  <2> QED BY <2>1, <2>2, <2>3
<1> QED BY <1>2, <1>3, <1>5

LEMMA DeepDown ==
    ASSUME NEW d \in Patch!Documents, NEW path \in Seq(Patch!Names), Len(path) >= 2
    PROVE  Patch!At(d, path) \in Deep
<1> DEFINE N == Patch!Names
           S == {n \in Nat : n >= 2 /\ \A p \in Seq(N) : Len(p) = n => Patch!At(d, p) \in Deep}
<1>1. 2 \in S
  <2> SUFFICES ASSUME NEW p \in Seq(N), Len(p) = 2 PROVE Patch!At(d, p) \in Deep
    OBVIOUS
  <2>1. PICK q \in Seq(N), s \in N : p = Append(q, s) /\ Len(q) = 1
    <3> DEFINE n == 1
    <3>1. n \in Nat /\ Len(p) = n + 1
      OBVIOUS
    <3> HIDE DEF n
    <3>2. \E q \in Seq(N) : \E s \in N : p = Append(q, s) /\ Len(q) = n
      BY <3>1, PathEnds
    <3> QED BY <3>2 DEF n
  <2>2. PICK r \in Seq(N), t \in N : q = Append(r, t) /\ Len(r) = 0
    <3> DEFINE n == 0
    <3>1. n \in Nat /\ Len(q) = n + 1
      BY <2>1
    <3> HIDE DEF n
    <3>2. \E r \in Seq(N) : \E t \in N : q = Append(r, t) /\ Len(r) = n
      BY <3>1, PathEnds
    <3> QED BY <3>2 DEF n
  <2>3. Patch!At(d, r) = d
    <3>1. r = <<>>
      BY <2>2, EmptySeq
    <3> QED BY <3>1, GetRoot
  <2>4. Patch!At(d, q) = Patch!Member(d, t)
    <3>1. Patch!At(d, Append(r, t)) = Patch!Member(Patch!At(d, r), t)
      BY GetMember
    <3> QED BY <2>2, <2>3, <3>1
  <2>5. Patch!At(d, p) = Patch!Member(Patch!At(d, q), s)
    BY <2>1, GetMember
  <2> QED BY <2>4, <2>5, DocumentMember, ValueMember
<1>2. ASSUME NEW n \in S PROVE n + 1 \in S
  <2>1. n \in Nat /\ n >= 2 /\ \A p \in Seq(N) : Len(p) = n => Patch!At(d, p) \in Deep
    OBVIOUS
  <2>2. ASSUME NEW p \in Seq(N), Len(p) = n + 1 PROVE Patch!At(d, p) \in Deep
    <3>1. PICK q \in Seq(N), s \in N : p = Append(q, s) /\ Len(q) = n
      BY <2>1, <2>2, PathEnds
    <3>2. Patch!At(d, p) = Patch!Member(Patch!At(d, q), s)
      BY <3>1, GetMember
    <3> QED BY <2>1, <3>1, <3>2, DeepMember
  <2> QED BY <2>1, <2>2
<1>3. S \in SUBSET Nat /\ Len(path) \in Nat
  BY LenProperties
<1> HIDE DEF S
<1>4. Len(path) \in S
  BY <1>1, <1>2, <1>3, Upwards
<1> QED BY <1>4 DEF S

-----------------------------------------------------------------------------
(* What compare gives: its equation has a solution, because what stands    *)
(* deep enough is compared without going further.                          *)
Inner(c, path) == [s \in Patch!Names |-> c[Append(path, s)]]

Layer(to, from, c) ==
    [path \in Seq(Patch!Names) |->
        Patch!Differences(Patch!At(to, path), Patch!At(from, path), path, Inner(c, path))]

(* The same operations for every path of n segments and more. *)
Alike(c, c2, n) == \A path \in Seq(Patch!Names) : Len(path) >= n => c[path] = c2[path]

LEMMA DeepDifferences ==
    ASSUME NEW x \in Deep, NEW y \in Deep, NEW path, NEW i1, NEW i2
    PROVE  Patch!Differences(y, x, path, i1) = Patch!Differences(y, x, path, i2)
<1>1. (y.kind = "array" /\ x.kind = "array") \/ (y.kind = "object" /\ x.kind = "object") => y = x
  BY DeepIs, ContainerKinds
<1> QED BY <1>1 DEF Patch!Differences

LEMMA LayersAlike ==
    ASSUME NEW to \in Patch!Documents, NEW from \in Patch!Documents, NEW c, NEW c2
    PROVE  Alike(Layer(to, from, c), Layer(to, from, c2), 2)
<1> SUFFICES ASSUME NEW path \in Seq(Patch!Names), Len(path) >= 2
             PROVE  Layer(to, from, c)[path] = Layer(to, from, c2)[path]
  BY DEF Alike
<1>1. Patch!At(to, path) \in Deep /\ Patch!At(from, path) \in Deep
  BY DeepDown
<1>2. /\ Layer(to, from, c)[path]
           = Patch!Differences(Patch!At(to, path), Patch!At(from, path), path, Inner(c, path))
      /\ Layer(to, from, c2)[path]
           = Patch!Differences(Patch!At(to, path), Patch!At(from, path), path, Inner(c2, path))
  BY DEF Layer
<1> QED BY <1>1, <1>2, DeepDifferences

LEMMA LayerOn ==
    ASSUME NEW to, NEW from, NEW c, NEW c2, NEW n \in Nat, NEW m, m = n + 1, Alike(c, c2, m)
    PROVE  Alike(Layer(to, from, c), Layer(to, from, c2), n)
<1> SUFFICES ASSUME NEW path \in Seq(Patch!Names), Len(path) >= n
             PROVE  Layer(to, from, c)[path] = Layer(to, from, c2)[path]
  BY DEF Alike
<1>1. \A s \in Patch!Names : c[Append(path, s)] = c2[Append(path, s)]
  <2> SUFFICES ASSUME NEW s \in Patch!Names PROVE c[Append(path, s)] = c2[Append(path, s)]
    OBVIOUS
  <2> DEFINE q == Append(path, s)
  <2>1. q \in Seq(Patch!Names) /\ Len(q) = Len(path) + 1 /\ Len(path) \in Nat
    BY AppendProperties, LenProperties
  <2> HIDE DEF q
  <2>2. c[q] = c2[q]
    BY <2>1 DEF Alike
  <2> QED BY <2>2 DEF q
<1>2. Inner(c, path) = Inner(c2, path)
  BY <1>1 DEF Inner
<1> QED BY <1>2 DEF Layer

LEMMA CompareIs ==
    ASSUME NEW to \in Patch!Documents, NEW from \in Patch!Documents, NEW c, c = Patch!Compare(to, from)
    PROVE  \A path \in Seq(Patch!Names) :
              c[path] = Patch!Differences(Patch!At(to, path), Patch!At(from, path), path,
                                          Inner(c, path))
<1> DEFINE a == Layer(to, from, <<>>)
           a1 == Layer(to, from, a)
           a2 == Layer(to, from, a1)
           a3 == Layer(to, from, a2)
<1>1. Alike(a, a1, 2)
  BY LayersAlike
<1>2. Alike(a1, a2, 1)
  <2>1. 1 \in Nat /\ 2 = 1 + 1
    OBVIOUS
  <2> HIDE DEF a
  <2> QED BY <1>1, <2>1, LayerOn
<1>3. Alike(a2, a3, 0)
  <2>1. 0 \in Nat /\ 1 = 0 + 1
    OBVIOUS
  <2> HIDE DEF a, a1
  <2> QED BY <1>2, <2>1, LayerOn
<1>4. a2 = a3
  <2>1. \A path \in Seq(Patch!Names) : a2[path] = a3[path]
    <3>1. \A path \in Seq(Patch!Names) : Len(path) >= 0
      BY LenProperties
    <3> HIDE DEF a2, a3
    <3> QED BY <1>3, <3>1 DEF Alike
  <2>2. a2 = [path \in Seq(Patch!Names) |-> a2[path]] /\ a3 = [path \in Seq(Patch!Names) |-> a3[path]]
    BY DEF Layer
  <2> HIDE DEF a2, a3
  <2> QED BY <2>1, <2>2
<1>5. \E b : b = Layer(to, from, b)
  <2> HIDE DEF a2
  <2> QED BY <1>4
<1>6. c = CHOOSE b : b = Layer(to, from, b)
  BY DEF Patch!Compare, Layer, Inner
<1>7. c = Layer(to, from, c)
  BY <1>5, <1>6
<1>8. \A path \in Seq(Patch!Names) : Layer(to, from, c)[path] =
         Patch!Differences(Patch!At(to, path), Patch!At(from, path), path, Inner(c, path))
  BY DEF Layer
<1> QED BY <1>7, <1>8

LEMMA DifferencesAre ==
    ASSUME NEW x, NEW y, NEW path, NEW inner, NEW ps, ps = Patch!Differences(y, x, path, inner)
    PROVE  \/ x = y /\ ps = <<>>
           \/ /\ x.kind = "array" /\ y.kind = "array"
              /\ ps = Patch!CompareArrays(y.items, x.items, path, inner)
           \/ /\ x.kind = "object" /\ y.kind = "object"
              /\ ps = Patch!CompareObjects(y, x, path, inner)
           \/ /\ ~(x.kind = "array" /\ y.kind = "array") /\ ~(x.kind = "object" /\ y.kind = "object")
              /\ ps = <<Patch!Puts("replace", path, y)>>
BY DEF Patch!Differences

LEMMA ItemKind ==
    /\ Patch!Undefined \notin Patch!Items
    /\ Patch!Items \subseteq Deep
    /\ \A x \in Patch!Values : x # Patch!Undefined
<1>1. \A x \in Patch!Values : x # Patch!Undefined
  BY ValueIs, LeafKind, ContainerKinds
<1> QED BY <1>1, LeafKind, ContainerKinds DEF Deep, Patch!Items

LEMMA DeepMakes ==
    ASSUME NEW to \in Patch!Documents, NEW from \in Patch!Documents, NEW c, c = Patch!Compare(to, from),
           NEW p \in Seq(Patch!Names), Len(p) >= 1, NEW s \in Patch!Names,
           NEW x \in Patch!Items, NEW y,
           x = Patch!Member(Patch!At(from, p), s), y = Patch!Member(Patch!At(to, p), s)
    PROVE  MakesMember(p, s, x, y, c[Append(p, s)])
<1> DEFINE q == Append(p, s)
<1>1. q \in Seq(Patch!Names) /\ Len(q) >= 2
  BY AppendProperties, LenProperties
<1>2. Patch!At(from, q) = x /\ Patch!At(to, q) = y
  BY GetMember
<1> HIDE DEF q
<1>3. y \in Deep /\ x \in Deep
  BY <1>1, <1>2, DeepDown
<1>4. c[q] = Patch!Differences(y, x, q, Inner(c, q))
  BY <1>1, <1>2, CompareIs
<1>5. (y.kind = "array" /\ x.kind = "array") \/ (y.kind = "object" /\ x.kind = "object") => y = x
  BY <1>3, DeepIs, ContainerKinds
<1>6. CASE x = y
  <2>1. c[q] = <<>>
    BY <1>4, <1>6 DEF Patch!Differences
  <2>2. Makes(q, x, x, <<>>)
    BY NothingMakes
  <2> QED BY <1>6, <2>1, <2>2, MadeAsMember DEF q
<1>7. CASE x # y
  <2>1. c[q] = <<Patch!Puts("replace", q, y)>>
    BY <1>4, <1>5, <1>7 DEF Patch!Differences
  <2>2. x # Patch!Undefined
    BY ItemKind
  <2> QED BY <2>1, <2>2, ReplaceMakes DEF q
<1> QED BY <1>6, <1>7 DEF q

LEMMA ValuesMake ==
    ASSUME NEW to \in Patch!Documents, NEW from \in Patch!Documents, NEW c, c = Patch!Compare(to, from),
           PlainKeys, NEW s \in Patch!Names,
           NEW x \in Patch!Values, NEW y \in Patch!Values,
           x = Patch!Member(from, s), y = Patch!Member(to, s)
    PROVE  MakesMember(<<>>, s, x, y, c[Append(<<>>, s)])
<1> DEFINE q == Append(<<>>, s)
           inner == Inner(c, q)
<1>1. q \in Seq(Patch!Names) /\ Len(q) >= 1 /\ <<>> \in Seq(Patch!Names)
  OBVIOUS
<1>2. Patch!At(from, q) = x /\ Patch!At(to, q) = y
  <2>1. \A d : Patch!At(d, <<>>) = d
    BY GetRoot
  <2>2. \A d : Patch!At(d, Append(<<>>, s)) = Patch!Member(Patch!At(d, <<>>), s)
    BY <1>1, GetMember
  <2> QED BY <2>1, <2>2
<1> HIDE DEF q
<1>3. c[q] = Patch!Differences(y, x, q, inner)
  BY <1>1, <1>2, CompareIs
<1>4. \A t \in Patch!Names : inner[t] = c[Append(q, t)]
  BY DEF Inner
<1> HIDE DEF inner
<1>5. x # Patch!Undefined
  BY ItemKind
<1>6. CASE x = y /\ c[q] = <<>>
  <2>1. Makes(q, x, x, <<>>)
    BY NothingMakes
  <2> QED BY <1>6, <2>1, MadeAsMember DEF q
<1>7. CASE /\ x.kind = "array" /\ y.kind = "array"
           /\ c[q] = Patch!CompareArrays(y.items, x.items, q, inner)
  <2>1. PICK a \in Seq(Patch!Items) : x = Patch!Array(a) /\ Len(a) \in 0..4
    BY <1>7, ValueIs, LeafKind, ContainerKinds
  <2>2. PICK b \in Seq(Patch!Items) : y = Patch!Array(b) /\ Len(b) \in 0..4
    BY <1>7, ValueIs, LeafKind, ContainerKinds
  <2>0. Len(a) \in Nat /\ Len(a) <= 4 /\ Len(b) \in Nat /\ Len(b) <= 4
    <3>1. Len(a) \in 0..4 /\ Len(b) \in 0..4
      BY <2>1, <2>2, Zenon
    <3>2. \A n \in 0..4 : n \in Nat /\ n <= 4
      OBVIOUS
    <3> QED BY <3>1, <3>2, Zenon
  <2>3. x.items = a /\ y.items = b
    BY <2>1, <2>2, ContainerKinds
  <2>4. ASSUME NEW i \in 1..Len(a), i <= Len(b)
        PROVE  MakesMember(q, Patch!Digit(i - 1), a[i], b[i], inner[Patch!Digit(i - 1)])
    <3> DEFINE j == i - 1
               t == Patch!Digit(j)
    <3>1. j \in 0..3 /\ j + 1 = i /\ j < Len(a) /\ j < Len(b)
      BY <2>0, <2>4
    <3>2. t \in DOMAIN Patch!Digits /\ Patch!Digits[t] = j /\ t \in Patch!Names
      BY <3>1, DigitIs
    <3>3. a[i] \in Patch!Items
      BY <2>1, ElementOfSeq
    <3> HIDE DEF t, j
    <3>4. Patch!Member(x, t) = a[i] /\ Patch!Member(y, t) = b[i]
      BY <2>1, <2>2, <3>1, <3>2, MemberIs
    <3>5. MakesMember(q, t, a[i], b[i], c[Append(q, t)])
      BY <1>1, <1>2, <3>2, <3>3, <3>4, DeepMakes
    <3> QED BY <1>4, <3>2, <3>5 DEF t, j
  <2>5. Makes(q, Patch!Array(a), Patch!Array(b), Patch!CompareArrays(b, a, q, inner))
    <3>1. Len(a) <= 4 /\ Len(b) <= 4
      BY <2>0
    <3> QED BY <2>4, <3>1, ItemKind, ArraysMake
  <2>6. Makes(q, x, y, c[q])
    BY <1>7, <2>1, <2>2, <2>3, <2>5
  <2> QED BY <2>6, MadeAsMember DEF q
<1>8. CASE /\ x.kind = "object" /\ y.kind = "object"
           /\ c[q] = Patch!CompareObjects(y, x, q, inner)
  <2>1. PICK f : /\ x = Patch!Object(f) /\ Fcn(f) /\ DOMAIN f \subseteq Keys
                 /\ \A k \in DOMAIN f : f[k] \in Patch!Leaves
    BY <1>8, ValueIs, LeafKind, ContainerKinds
  <2>2. PICK g : /\ y = Patch!Object(g) /\ Fcn(g) /\ DOMAIN g \subseteq Keys
                 /\ \A k \in DOMAIN g : g[k] \in Patch!Leaves
    BY <1>8, ValueIs, LeafKind, ContainerKinds
  <2>3. ASSUME NEW k \in DOMAIN f \cap DOMAIN g
        PROVE  MakesMember(q, k, f[k], g[k], inner[k])
    <3>1. k \in Patch!Names /\ f[k] \in Patch!Items
      BY <2>1 DEF Patch!Names, Patch!Items
    <3>2. Patch!Member(x, k) = f[k] /\ Patch!Member(y, k) = g[k]
      BY <2>1, <2>2, MemberIs
    <3>3. MakesMember(q, k, f[k], g[k], c[Append(q, k)])
      BY <1>1, <1>2, <3>1, <3>2, DeepMakes
    <3> QED BY <1>4, <3>1, <3>3
  <2>4. FieldsFit(q, f, g, inner)
    BY <2>1, <2>2, <2>3, LeafKind DEF FieldsFit, PlainKeys
  <2>5. Makes(q, x, y, c[q])
    BY <1>8, <2>1, <2>2, <2>4, ObjectsMake
  <2> QED BY <2>5, MadeAsMember DEF q
<1>9. CASE c[q] = <<Patch!Puts("replace", q, y)>>
  BY <1>1, <1>5, <1>9, ReplaceMakes DEF q
<1> QED BY <1>3, <1>6, <1>7, <1>8, <1>9, DifferencesAre

(* createPatches gives operations that make the one document into the      *)
(* other.                                                                  *)
LEMMA PatchesLead ==
    ASSUME NEW to \in Patch!Documents, NEW from \in Patch!Documents, PlainKeys
    PROVE  Leads(from, to, Patch!CreatePatches(to, from))
<1> DEFINE c == Patch!Compare(to, from)
           root == <<>>
           inner == Inner(c, root)
<1>1. root \in Seq(Patch!Names) /\ \A d : Patch!At(d, root) = d
  BY GetRoot
<1>2. Patch!CreatePatches(to, from) = c[root]
  BY DEF Patch!CreatePatches
<1>3. \A t \in Patch!Names : inner[t] = c[Append(root, t)]
  BY DEF Inner
<1> HIDE DEF c
<1>4. c[root] = Patch!Differences(to, from, root, inner)
  <2> HIDE DEF root, inner
  <2>1. c[root] = Patch!Differences(Patch!At(to, root), Patch!At(from, root), root, Inner(c, root))
    BY <1>1, CompareIs DEF c
  <2> QED BY <1>1, <2>1 DEF inner
<1>5. PICK f : /\ from = Patch!Object(f) /\ Fcn(f) /\ DOMAIN f \subseteq Keys
               /\ \A k \in DOMAIN f : f[k] \in Patch!Values
  BY DocumentIs
<1>6. PICK g : /\ to = Patch!Object(g) /\ Fcn(g) /\ DOMAIN g \subseteq Keys
               /\ \A k \in DOMAIN g : g[k] \in Patch!Values
  BY DocumentIs
<1>7. from.kind = "object" /\ to.kind = "object" /\ "object" # "array"
  BY <1>5, <1>6, ContainerKinds
<1>8. ASSUME NEW k \in DOMAIN f \cap DOMAIN g
      PROVE  MakesMember(root, k, f[k], g[k], inner[k])
  <2>1. k \in Patch!Names /\ f[k] \in Patch!Values /\ g[k] \in Patch!Values
    BY <1>5, <1>6 DEF Patch!Names
  <2>2. Patch!Member(from, k) = f[k] /\ Patch!Member(to, k) = g[k]
    BY <1>5, <1>6, MemberIs
  <2>3. MakesMember(root, k, f[k], g[k], c[Append(root, k)])
    BY <2>1, <2>2, ValuesMake DEF c
  <2> QED BY <1>3, <2>1, <2>3
<1>9. FieldsFit(root, f, g, inner)
  BY <1>5, <1>6, <1>8, ItemKind DEF FieldsFit, PlainKeys
<1>10. Makes(root, from, to, Patch!CompareObjects(to, from, root, inner))
  BY <1>5, <1>6, <1>9, ObjectsMake
<1>11. Leads(from, to, Patch!CompareObjects(to, from, root, inner))
  <2>1. Spot(from, root)
    BY <1>7, RootPlace
  <2>2. Patch!Put(from, root, to) = to
    BY PutRoot
  <2> HIDE DEF root
  <2>3. Leads(from, Patch!Put(from, root, to), Patch!CompareObjects(to, from, root, inner))
    BY <1>1, <1>10, <2>1 DEF Makes
  <2> QED BY <2>2, <2>3
<1>12. Leads(from, to, c[root])
  BY <1>4, <1>7, <1>11, LeadsNowhere, DifferencesAre
<1> QED BY <1>2, <1>12

-----------------------------------------------------------------------------
(* What is left to do makes the document into the one wanted. *)
PatchInv ==
    /\ Patch!TypeOK /\ mode # "failed"
    /\ mode = "idle" => data \in Patch!Documents
    /\ mode = "applying" => working.kind = "object" /\ Leads(working, goal, patches)
    /\ mode = "applied" => data = goal

LEMMA PatchStarts ==
    ASSUME IF serves = "document" THEN Patch!Init ELSE DocumentOver
    PROVE  PatchInv
<1>1. CASE Patch!Init
  <2>1. PICK f : data = Patch!Object(f)
    BY <1>1, DocumentIs DEF Patch!Init
  <2> QED BY <1>1, <2>1, ContainerKinds DEF Patch!Init, PatchInv, Patch!TypeOK, Patch!Undefined
<1>2. CASE DocumentOver
  BY <1>2, ContainerKinds DEF DocumentOver, PatchInv, Patch!TypeOK
<1> QED BY <1>1, <1>2

LEMMA PatchSteps ==
    ASSUME PlainKeys, PatchInv, Patch!Next \/ UNCHANGED document
    PROVE  PatchInv'
<1>1. ASSUME NEW to \in Patch!Documents, Patch!Change(to)
      PROVE  PatchInv'
  <2>1. /\ mode = "idle" /\ goal' = to /\ patches' = Patch!CreatePatches(to, data)
        /\ working' = data /\ mode' = "applying" /\ data' = data
    BY <1>1 DEF Patch!Change
  <2>2. data \in Patch!Documents
    BY <2>1 DEF PatchInv
  <2>3. Leads(data, to, Patch!CreatePatches(to, data))
    BY <2>2, PatchesLead
  <2>4. data.kind = "object" /\ to.kind = "object"
    BY <2>2, DocumentIs, ContainerKinds
  <2>5. Leads(working', goal', patches')
    BY <2>1, <2>3
  <2> QED BY <2>1, <2>4, <2>5 DEF PatchInv, Patch!TypeOK
<1>2. CASE Patch!Step
  <2> DEFINE next == Patch!Apply(working, Head(patches), TRUE)
  <2>1. mode = "applying" /\ patches # <<>> /\ data' = data /\ goal' = goal
    BY <1>2 DEF Patch!Step
  <2>2. next.kind = "object" /\ Leads(next, goal, Tail(patches))
    BY <2>1, LeadsFirst DEF PatchInv
  <2>3. next # Patch!Failed
    <3>1. Patch!Failed.kind = "failed"
      BY DEF Patch!Failed
    <3> HIDE DEF next
    <3> QED BY <2>2, <3>1
  <2>4. working' = next /\ patches' = Tail(patches) /\ mode' = mode
    BY <1>2, <2>3 DEF Patch!Step
  <2> HIDE DEF next
  <2>5. Leads(working', goal', patches')
    BY <2>1, <2>2, <2>4
  <2> QED BY <2>1, <2>2, <2>4, <2>5 DEF PatchInv, Patch!TypeOK
<1>3. CASE Patch!Commit
  <2>1. /\ mode = "applying" /\ patches = <<>> /\ data' = working /\ mode' = "applied"
        /\ goal' = goal /\ patches' = patches /\ working' = working
    BY <1>3 DEF Patch!Commit
  <2>2. working = goal
    BY <2>1, LeadsNone DEF PatchInv
  <2>3. goal.kind \in {"object", "undefined"} /\ working.kind \in {"object", "undefined"}
    BY DEF PatchInv, Patch!TypeOK
  <2>4. working.kind = "object"
    BY <2>1 DEF PatchInv
  <2> QED BY <2>1, <2>2, <2>4 DEF PatchInv, Patch!TypeOK
<1>4. CASE UNCHANGED document
  BY <1>4 DEF document, PatchInv, Patch!TypeOK
<1> QED BY <1>1, <1>2, <1>3, <1>4 DEF Patch!Next

-----------------------------------------------------------------------------

(* All components together. *)
ServicesInv == ClocksInv /\ ClientInv /\ ServerInv /\ CacheInv

(* What no step may do. *)
StepRight == NewStampStep /\ Client!NoLateFetch /\ Server!NothingBegins

LEMMA ServicesStart == ServicesInit => ServicesInv
BY ClocksStart, ClientStarts, ServerStarts, ServerRests, CacheStarts
   DEF ServicesInit, ServicesInv

LEMMA ClocksStay ==
    ASSUME ClocksInv, UNCHANGED clocks
    PROVE  ClocksInv' /\ NewStampStep
BY DEF ClocksInv, TypeOK, CausalOrder, ClockLatest, Proper, Counter, Stamps, NewStampStep, clocks

LEMMA NothingBegan == ServerInv /\ UNCHANGED lifecycle => Server!NothingBegins
BY DEF Server!NothingBegins, lifecycle, ServerInv, Server!TypeOK

LEMMA ServicesStep ==
    ASSUME ServicesInv, [ServicesNext]_services
    PROVE  ServicesInv' /\ StepRight
<1>1. /\ UNCHANGED clocks => ClocksInv' /\ NewStampStep
      /\ UNCHANGED client => ClientInv' /\ Client!NoLateFetch
      /\ UNCHANGED lifecycle => ServerInv' /\ Server!NothingBegins
      /\ UNCHANGED cache => CacheInv'
  BY ClocksStay, ClientStays, ServerStays, NothingBegan, CacheStays DEF ServicesInv
<1>2. CASE Next /\ UNCHANGED <<client, lifecycle, document, cache>>
  BY <1>1, <1>2, ClocksStep DEF ServicesInv, StepRight
<1>3. CASE Client!Next /\ UNCHANGED <<clocks, lifecycle, document, cache>>
  BY <1>1, <1>3, ClientSteps DEF ServicesInv, StepRight
<1>4. CASE Server!Next /\ UNCHANGED <<clocks, client, document, cache>>
  BY <1>1, <1>4, ServerSteps DEF ServicesInv, StepRight
<1>5. CASE Patch!Next /\ UNCHANGED <<clocks, client, lifecycle, cache>>
  BY <1>1, <1>5 DEF ServicesInv, StepRight
<1>6. CASE Cache!Next /\ UNCHANGED <<clocks, client, lifecycle, document>>
  BY <1>1, <1>6, CacheSteps DEF ServicesInv, StepRight
<1>7. CASE UNCHANGED services
  BY <1>1, <1>7 DEF ServicesInv, StepRight, services
<1> QED BY <1>2, <1>3, <1>4, <1>5, <1>6, <1>7 DEF ServicesNext

THEOREM Inductive == ServicesSpec => []ServicesInv
<1>1. ServicesInv /\ [ServicesNext]_services => ServicesInv'
  BY ServicesStep
<1> QED BY ServicesStart, <1>1, PTL DEF ServicesSpec

(* A stamp is later than all that happened before it, and the texts of     *)
(* stamps sort as the stamps do.                                           *)
THEOREM Causality == ServicesSpec => []StampsOrdered
<1>1. ServicesInv => StampsOrdered
  BY TextSorts DEF ServicesInv, ClocksInv, StampsOrdered
<1> QED BY Inductive, <1>1, PTL

(* A stamp names one event. *)
THEOREM OneEvent == ServicesSpec => NeverReused
<1>1. ServicesInv /\ [ServicesNext]_services => [NewStampStep]_vars
  BY ServicesStep DEF StepRight
<1> QED BY Inductive, <1>1, PTL DEF ServicesSpec, NeverReused

(* Requests, shutdowns and cached validators keep what they promise. *)
THEOREM Promises == ServicesSpec => []ServicesRight
<1>1. ServicesInv => ServicesRight
  BY ClientInvRight, ServerInvRight, CacheInvRight DEF ServicesInv, ServicesRight
<1> QED BY Inductive, <1>1, PTL

(* No fetch, setup or listen begins once it is called off. *)
THEOREM NothingTooLate == ServicesSpec => NothingLate
<1>1. ServicesInv /\ [ServicesNext]_services
         => [Client!NoLateFetch /\ Server!NothingBegins]_services
  BY ServicesStep DEF StepRight
<1> QED BY Inductive, <1>1, PTL DEF ServicesSpec, NothingLate

(* What strict mode lets through is the same without it, for any document. *)
THEOREM Lenient == ServicesSpec => []Patch!LenientAgrees
BY AlwaysLenient, PTL

(* What createPatches gives can be applied, one operation after the other, *)
(* and makes the one document into the other, when no key is one that      *)
(* objects inherit, that parsePath refuses, or that Number changes; and    *)
(* strict mode lets nothing through that goes another way without it.      *)
THEOREM RoundTrips ==
    ASSUME Keys \cap (Inherited \cup Patch!Forbidden \cup Inexact) = {}
    PROVE  ServicesSpec => []PatchesRight
<1>1. ServicesInit => PatchInv
  BY PatchStarts DEF ServicesInit
<1>2. PatchInv /\ [ServicesNext]_services => PatchInv'
  BY PatchSteps DEF ServicesNext, services, PlainKeys
<1>3. PatchInv => Patch!TypeOK /\ Patch!RoundTrip
  BY DEF PatchInv, Patch!RoundTrip
<1>4. Patch!TypeOK /\ Patch!RoundTrip /\ Patch!LenientAgrees => PatchesRight
  BY DEF PatchesRight, Patch!PatchRight
<1> QED BY <1>1, <1>2, <1>3, <1>4, AlwaysLenient, PTL DEF ServicesSpec
=============================================================================
