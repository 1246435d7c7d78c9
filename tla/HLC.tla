-------------------------------- MODULE HLC --------------------------------
(***************************************************************************)
(* The hybrid logical clock of @sozai/hlc: one HLC object per node, wall   *)
(* clocks that may differ and go back, and stamps that reach other nodes   *)
(* late, repeatedly, out of order or never.                                *)
(***************************************************************************)
EXTENDS Integers, Sequences

CONSTANTS Node,     \* node ids, with their order as strings
          Base,     \* the base the counter is written in, 10 in the code
          Width,    \* COUNTER_PAD
          Ceiling,  \* counterCeiling
          MaxWall   \* bound: the last instant a wall clock shows

(* i without its last digit, without its last two digits, ... *)
Dropped(i) == LET rest[k \in Nat] == IF k = 0 THEN i ELSE rest[k - 1] \div Base IN rest

(* COUNTER_CEILING: what is below it has no digit more than the padding. *)
ASSUME ClockAssumption ==
    /\ Node \subseteq Nat /\ Base \in Nat \ {0, 1} /\ Width \in Nat \ {0}
    /\ Ceiling \in Nat \ {0} /\ Dropped(Ceiling - 1)[Width] = 0
    /\ MaxWall \in Nat

VARIABLES
    clock,      \* lastWallTime and lastCounter of each node
    cause       \* history: for each stamp, those that happened before it

vars == <<clock, cause>>

Stamp == [wall : Nat, counter : Nat, node : Node]

Stamps == DOMAIN cause

StampOf(n, c) == [wall |-> c.wall, counter |-> c.counter, node |-> n]

TypeOK ==
    /\ clock \in [Node -> [wall : 0..(MaxWall + 1), counter : 0..(Ceiling - 1)]]
    /\ Stamps \subseteq Stamp
    /\ \A s \in Stamps : cause[s] \subseteq Stamps

Init ==
    /\ clock = [n \in Node |-> [wall |-> 0, counter |-> 0]]
    /\ cause = [s \in {} |-> {}]

-----------------------------------------------------------------------------
(* Mutant: the counter starts again at the same wall time. *)
ApplyCounterWraps(wall, candidate) ==
    [wall |-> wall, counter |-> IF candidate >= Ceiling THEN 0 ELSE candidate]

(* A counter that would reach the ceiling moves the wall time on instead. *)
ApplyCounter(wall, candidate) ==
    IF candidate >= Ceiling THEN [wall |-> wall + 1, counter |-> 0]
    ELSE [wall |-> wall, counter |-> candidate]

(* The clock after a local event at physical time t. *)
Minted(c, t) ==
    IF t > c.wall THEN [wall |-> t, counter |-> 0]
    ELSE ApplyCounter(c.wall, c.counter + 1)

Larger(i, j) == IF i >= j THEN i ELSE j

(* Mutant: at equal wall times the own counter goes on. *)
MergedOwn(c, remote, t) ==
    IF t > c.wall /\ t > remote.wall THEN [wall |-> t, counter |-> 0]
    ELSE IF remote.wall > c.wall THEN ApplyCounter(remote.wall, remote.counter + 1)
    ELSE ApplyCounter(c.wall, c.counter + 1)

(* The clock after a remote stamp at physical time t. *)
Merged(c, remote, t) ==
    IF t > c.wall /\ t > remote.wall THEN [wall |-> t, counter |-> 0]
    ELSE IF remote.wall > c.wall THEN ApplyCounter(remote.wall, remote.counter + 1)
    ELSE IF c.wall > remote.wall THEN ApplyCounter(c.wall, c.counter + 1)
    ELSE ApplyCounter(c.wall, Larger(c.counter, remote.counter) + 1)

-----------------------------------------------------------------------------
(* The stamps before the next event of a node that has just seen some. *)
Past(n, new) ==
    LET known == new \cup (Stamps \cap {StampOf(n, clock[n])})
    IN  known \cup UNION {cause[s] : s \in known}

Stamped(n, c, new) ==
    LET s == StampOf(n, c) IN
    /\ clock' = [clock EXCEPT ![n] = c]
    /\ cause' = [e \in Stamps \cup {s} |-> IF e = s THEN Past(n, new) ELSE cause[e]]

(* now() *)
Mint(n, t) ==
    /\ clock[n].wall <= MaxWall
    /\ Stamped(n, Minted(clock[n], t), {})

Receive(n, remote, t) ==
    /\ clock[n].wall <= MaxWall /\ remote.wall <= MaxWall
    /\ Stamped(n, Merged(clock[n], remote, t), {remote})

Next ==
    \E n \in Node, t \in 0..MaxWall :
        \/ Mint(n, t)
        \/ \E remote \in Stamps : Receive(n, remote, t)

Spec == Init /\ [][Next]_vars

-----------------------------------------------------------------------------
Sooner(a, b) == a.wall < b.wall \/ (a.wall = b.wall /\ a.counter < b.counter)

(* compare(a, b) < 0 *)
Before(a, b) ==
    \/ Sooner(a, b)
    \/ a.wall = b.wall /\ a.counter = b.counter /\ a.node < b.node

(* A stamp is later than every stamp that happened before it, its node's   *)
(* own and those it learned of, directly or through others, however the    *)
(* wall clocks run.  Ties are left to concurrent events.                   *)
CausalOrder == \A s \in Stamps : \A e \in cause[s] : Sooner(e, s)

(* No stamp is given to two events, across all nodes: a new event adds a   *)
(* stamp, and what happened before an old one stays as it was.             *)
NewStampStep == \A s \in Stamps : s \in Stamps' /\ cause'[s] = cause[s]

NeverReused == [][NewStampStep]_vars

(* serialize: the wall time, whose text has one width, the counter padded  *)
(* to Width digits, a colon, which sorts after the digits, and the node.   *)
Padded(i) ==
    LET rest == Dropped(i)
        long == CHOOSE n \in Width..(Width + i) :
                   rest[n] = 0 /\ \A m \in Width..(n - 1) : rest[m] # 0
    IN  [j \in 1..long |-> rest[long - j] % Base]

Text(s) == <<s.wall>> \o Padded(s.counter) \o <<Base, s.node>>

TextBefore(x, y) ==
    \E i \in 1..Len(y) :
        /\ \A j \in 1..(i - 1) : j <= Len(x) /\ x[j] = y[j]
        /\ i > Len(x) \/ x[i] < y[i]

(* Serialized stamps sort as the stamps do: no reachable counter needs a   *)
(* digit more than the padding has.                                        *)
SortsAsText ==
    LET text == [s \in Stamps |-> Text(s)]
    IN  \A s, e \in Stamps : TextBefore(text[s], text[e]) <=> Before(s, e)

(* What happened before an event sorts before it, as a stamp and as text.  *)
StampsOrdered == CausalOrder /\ SortsAsText
=============================================================================
