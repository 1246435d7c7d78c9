----------------------------- MODULE KeyedQueue -----------------------------
(***************************************************************************)
(* createKeyedQueue of @sozai/async: a FIFO per key, kept as a chain of    *)
(* promises.                                                               *)
(*                                                                         *)
(* A slot's turn is the promise of the slot it chained onto; its own       *)
(* promise settles once its turn has come and it has released, some        *)
(* microtasks later.  Callers, settlements and the callbacks that clean    *)
(* the map up interleave freely between synchronous calls.                 *)
(***************************************************************************)
EXTENDS Naturals, FiniteSets

CONSTANTS Slot,     \* slots, each handed out by one call of enter
          Key,
          None

ASSUME KeyAssumption == None \notin Key /\ None \notin Slot

VARIABLES
    queue,      \* the map: per key its tail and the slots yet to release
    key,        \* the key of a slot, None before it enters
    turn,       \* the slot whose promise a slot awaits, None when resolved
    released,   \* slots whose ticket is resolved
    settled,    \* slots whose promise has settled
    watching,   \* slots whose clean-up callback has not run
    free,       \* slots that entered a free key
    inside,     \* callers that run on their turn
    before      \* history: the slots that entered the same key earlier

vars == <<queue, key, turn, released, settled, watching, free, inside, before>>

On(k) == {s \in Slot : key[s] = k}
Holders(k) == On(k) \ released

Entry == [tail : Slot, holding : Nat]

(* A key without an entry differs from every entry. *)
ASSUME EntryAssumption == None \notin Entry

TypeOK ==
    /\ queue \in [Key -> Entry \cup {None}]
    /\ key \in [Slot -> Key \cup {None}]
    /\ turn \in [Slot -> Slot \cup {None}]
    /\ released \subseteq Slot /\ settled \subseteq Slot /\ watching \subseteq Slot
    /\ free \subseteq Slot /\ inside \subseteq Slot
    /\ before \in [Slot -> SUBSET Slot]

Init ==
    /\ queue = [k \in Key |-> None]
    /\ key = [s \in Slot |-> None]
    /\ turn = [s \in Slot |-> None]
    /\ released = {} /\ settled = {} /\ watching = {} /\ free = {} /\ inside = {}
    /\ before = [s \in Slot |-> {}]

-----------------------------------------------------------------------------
(* Mutant: the entry is taken for a busy key even when all have released. *)
EnterBusy(s, k) ==
    LET entry == queue[k] IN
    /\ key[s] = None
    /\ key' = [key EXCEPT ![s] = k]
    /\ turn' = [turn EXCEPT ![s] = IF entry = None THEN None ELSE entry.tail]
    /\ free' = IF entry = None THEN free \cup {s} ELSE free
    /\ queue' = [queue EXCEPT ![k] =
                    [tail |-> s, holding |-> (IF entry = None THEN 0 ELSE entry.holding) + 1]]
    /\ before' = [before EXCEPT ![s] = On(k)]
    /\ UNCHANGED <<released, settled, watching, inside>>

Enter(s, k) ==
    LET entry == queue[k]
        holding == IF entry = None THEN 0 ELSE entry.holding
    IN  /\ key[s] = None
        /\ key' = [key EXCEPT ![s] = k]
        /\ turn' = [turn EXCEPT ![s] = IF entry = None THEN None ELSE entry.tail]
        /\ free' = IF holding = 0 THEN free \cup {s} ELSE free
        /\ queue' = [queue EXCEPT ![k] = [tail |-> s, holding |-> holding + 1]]
        /\ before' = [before EXCEPT ![s] = On(k)]
        /\ UNCHANGED <<released, settled, watching, inside>>

(* Mutant: only a slot that found the key free hears of its turn. *)
TurnCameFree(s) == turn[s] = None \/ (turn[s] \in settled /\ s \in free)

TurnCame(s) == turn[s] = None \/ turn[s] \in settled

(* run: the caller goes in on its turn. *)
TakeTurn(s) ==
    /\ key[s] # None /\ s \notin released /\ s \notin inside
    /\ TurnCame(s)
    /\ inside' = inside \cup {s}
    /\ UNCHANGED <<queue, key, turn, released, settled, watching, free, before>>

(* The first release of a slot, before or after its turn; a later one does *)
(* nothing.                                                                *)
Release(s) ==
    LET k == key[s] IN
    /\ k # None /\ s \notin released
    /\ released' = released \cup {s} /\ inside' = inside \ {s}
    /\ queue' = IF queue[k] = None THEN queue
                ELSE [queue EXCEPT ![k].holding = @ - 1]
    /\ watching' = watching \cup {s}
    /\ UNCHANGED <<key, turn, settled, free, before>>

(* Mutant: the promise settles with the slot's own ticket. *)
SettleEarly(s) ==
    /\ s \in released \ settled
    /\ settled' = settled \cup {s}
    /\ UNCHANGED <<queue, key, turn, released, watching, free, inside, before>>

(* previous.then(() => ticket.promise) *)
Settle(s) ==
    /\ s \in released \ settled /\ TurnCame(s)
    /\ settled' = settled \cup {s}
    /\ UNCHANGED <<queue, key, turn, released, watching, free, inside, before>>

(* Mutant: any settled slot drops the entry, not only the tail. *)
DropAny(s) ==
    LET k == key[s] IN
    /\ s \in watching \cap settled
    /\ watching' = watching \ {s}
    /\ queue' = [queue EXCEPT ![k] = None]
    /\ UNCHANGED <<key, turn, released, settled, free, inside, before>>

Drop(s) ==
    LET k == key[s] IN
    /\ s \in watching \cap settled
    /\ watching' = watching \ {s}
    /\ queue' = IF queue[k] # None /\ queue[k].tail = s
                THEN [queue EXCEPT ![k] = None] ELSE queue
    /\ UNCHANGED <<key, turn, released, settled, free, inside, before>>

Next ==
    \E s \in Slot :
        \/ \E k \in Key : Enter(s, k)
        \/ TakeTurn(s) \/ Release(s) \/ Settle(s) \/ Drop(s)

Spec == Init /\ [][Next]_vars

(* Promise reactions run; a caller that is inside releases (run's finally);*)
(* one that waits may give up, or take its turn.                           *)
Fairness ==
    \A s \in Slot :
        /\ WF_vars(Settle(s)) /\ WF_vars(Drop(s)) /\ WF_vars(TakeTurn(s))
        /\ WF_vars(s \in inside /\ Release(s))

FairSpec == Spec /\ Fairness

-----------------------------------------------------------------------------
(* Callers on one key never overlap. *)
MutualExclusion ==
    \A s, o \in inside : key[s] = key[o] => s = o

(* The map knows exactly who has yet to release: the count of a key that   *)
(* is there, nobody for a key that is not.  The callback that drops an     *)
(* entry therefore never drops the turn of a caller that came late.        *)
HoldingExact ==
    \A k \in Key : IF queue[k] = None THEN Holders(k) = {}
                   ELSE queue[k].holding = Cardinality(Holders(k))

(* QueueSlot.free, decided synchronously from the count: true exactly when *)
(* every earlier caller on the key has released, whether or not the chain  *)
(* has settled.                                                            *)
FreeStep ==
    \A s \in Slot : key[s] = None /\ key'[s] # None =>
        (s \in free' <=> Holders(key'[s]) = {})

FreeExact == [][FreeStep]_vars

(* Callers that entered earlier come first: the queue implements the FIFO  *)
(* its users are promised.                                                 *)
Fifo == INSTANCE KeyedFifo WITH
            on <- key, left <- released,
            ahead <- [s \in Slot |-> before[s] \ released]

ImplementsFifo == Fifo!Spec

(* Whoever enters gets in or gives up: no earlier caller, one that gave up *)
(* before its turn included, leaves the chain behind it waiting.  And a    *)
(* key's chain drains: when everybody has released, its entry goes.        *)
TurnsCame == \A s \in Slot : key[s] = None \/ s \in inside \cup released

Drained == \A k \in Key : Holders(k) = {} => queue[k] = None

TurnComes == []<>(TurnsCame /\ Drained)
=============================================================================
