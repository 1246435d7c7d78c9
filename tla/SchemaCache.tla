---------------------------- MODULE SchemaCache ----------------------------
(***************************************************************************)
(* schema/cache.ts: validators of schemas that arrive at runtime, kept in  *)
(* a least recently used map and compiled by a factory that is replaced    *)
(* after so many compiles.  A schema is its canonical text; factories are  *)
(* numbered in the order they were made.                                   *)
(***************************************************************************)
EXTENDS Integers, FiniteSets, SequencesExt

CONSTANTS Schemas, MaxEntries, MaxCompiles,
          MaxFactories    \* bound of the factories made

VARIABLES entries,     \* the map, in order of insertion
          factory,     \* the present factory, or 0
          disposedFactories,
          generation, compiles, disposed,
          given,       \* what the last get returned or threw, or NoEntry
          used,        \* history: schemas since the map was last emptied, last used last
          made         \* history: factories made

vars == <<entries, factory, disposedFactories, generation, compiles, disposed, given, used, made>>

Entry == [schema : Schemas, factory : 1 .. MaxFactories, compiled : BOOLEAN]

NoEntry == [schema |-> 0, factory |-> 0, compiled |-> FALSE]

Init ==
    /\ entries = <<>> /\ factory = 0 /\ disposedFactories = {}
    /\ generation = 0 /\ compiles = 0 /\ disposed = FALSE
    /\ given = NoEntry /\ used = <<>> /\ made = 0

-----------------------------------------------------------------------------
Without(seq, schema) ==
    LET at == {i \in DOMAIN seq : seq[i] = schema}
    IN  IF at = {} THEN seq ELSE RemoveAt(seq, CHOOSE i \in at : TRUE)

Cached == [i \in DOMAIN entries |-> entries[i].schema]

(* get: a hit, which is inserted anew; an entry may be an error, which is  *)
(* thrown.                                                                 *)
Hit(schema) ==
    /\ ~disposed
    /\ \E i \in DOMAIN entries :
          /\ entries[i].schema = schema /\ given' = entries[i]
          /\ entries' = Append(RemoveAt(entries, i), entries[i])
    /\ used' = Append(Without(used, schema), schema)
    /\ UNCHANGED <<factory, disposedFactories, generation, compiles, disposed, made>>

(* Keeps the map within its bound: the first key goes.                     *)
Evicted(seq) == IF Len(seq) > MaxEntries THEN Tail(seq) ELSE seq

(* Compiles the schema on factory f, after kept.                           *)
Compile(schema, f, kept) ==
    \E compiled \in BOOLEAN :
       LET entry == [schema |-> schema, factory |-> f, compiled |-> compiled]
       IN  entries' = Evicted(Append(kept, entry)) /\ given' = entry

Missing(schema) == ~disposed /\ \A i \in DOMAIN entries : entries[i].schema # schema

Full == factory # 0 /\ compiles >= MaxCompiles

(* get: a miss on a factory that may compile once more, or on none yet.    *)
Miss(schema) ==
    /\ Missing(schema) /\ ~Full
    /\ IF factory = 0
       THEN made < MaxFactories /\ made' = made + 1 /\ factory' = made'
       ELSE UNCHANGED <<factory, made>>
    /\ compiles' = compiles + 1
    /\ Compile(schema, factory', entries)
    /\ used' = Append(Without(used, schema), schema)
    /\ UNCHANGED <<disposedFactories, generation, disposed>>

(* get: a miss on a factory that is used up: reset, and a new one.         *)
MissReplacing(schema) ==
    /\ Missing(schema) /\ Full
    /\ made < MaxFactories /\ made' = made + 1 /\ factory' = made'
    /\ disposedFactories' = disposedFactories \cup {factory}
    /\ generation' = generation + 1 /\ compiles' = 1
    /\ Compile(schema, factory', <<>>)
    /\ used' = <<schema>>
    /\ UNCHANGED disposed

Reset ==
    /\ disposedFactories' = IF factory = 0 THEN disposedFactories ELSE disposedFactories \cup {factory}
    /\ factory' = 0 /\ entries' = <<>> /\ compiles' = 0 /\ generation' = 0
    /\ used' = <<>> /\ given' = NoEntry
    /\ UNCHANGED made

Clear == Reset /\ UNCHANGED disposed

Dispose == Reset /\ disposed' = TRUE

Next ==
    \/ \E schema \in Schemas : Hit(schema) \/ Miss(schema) \/ MissReplacing(schema)
    \/ Clear \/ Dispose

Spec == Init /\ [][Next]_vars

-----------------------------------------------------------------------------
TypeOK ==
    /\ entries \in Seq(Entry) /\ factory \in 0 .. MaxFactories
    /\ disposedFactories \subseteq 1 .. MaxFactories
    /\ generation \in Nat /\ compiles \in Nat /\ disposed \in BOOLEAN
    /\ made \in 0 .. MaxFactories

(* The map stays within its bound, a factory within its compiles, and what *)
(* is in the map, or was just given, was compiled by the factory that is   *)
(* there: no validator of a disposed one is handed out (cache 80-138).     *)
Live ==
    /\ Len(entries) <= MaxEntries /\ compiles <= MaxCompiles
    /\ \A i \in DOMAIN entries : entries[i].factory = factory
    /\ given # NoEntry => given.factory = factory
    /\ factory \notin disposedFactories
    /\ disposed => entries = <<>> /\ factory = 0

(* At most one factory has not been disposed of.                           *)
NoneLeaks == (1 .. made) \ disposedFactories = (IF factory = 0 THEN {} ELSE {factory})

(* The map holds the schemas used last since it was emptied, in that       *)
(* order (cache 84-85, 108-136).                                           *)
LeastRecentGoes ==
    LET kept == IF Len(used) > MaxEntries THEN MaxEntries ELSE Len(used)
    IN  Cached = SubSeq(used, Len(used) - kept + 1, Len(used))

CacheRight == TypeOK /\ Live /\ NoneLeaks /\ LeastRecentGoes
=============================================================================
