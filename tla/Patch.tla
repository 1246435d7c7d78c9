------------------------------- MODULE Patch -------------------------------
(***************************************************************************)
(* JSON Patch in @sozai/patch: createPatches and applyPatches, on small    *)
(* documents.  A segment of a path is the text between two slashes: an     *)
(* index is a digit, which may also be the key of an object.               *)
(***************************************************************************)
EXTENDS Naturals, SequencesExt

CONSTANTS Atoms,      \* the numbers, booleans and null
          Keys,       \* the keys of objects
          Inherited,  \* keys every object has from its prototype
          Inexact,    \* index-like keys that no double holds,
          Nearest,    \*   and the key that Number makes of them
          MaxLen      \* bound: the longest array

VARIABLES data, goal, patches, working, mode

vars == <<data, goal, patches, working, mode>>

Atom(a) == [kind |-> "atom", value |-> a]
Array(items) == [kind |-> "array", items |-> items]
Object(fields) == [kind |-> "object", fields |-> fields]
Undefined == [kind |-> "undefined"]
Method == [kind |-> "function"]
Failed == [kind |-> "failed"]

Null == Atom("null")

Leaves == {Atom(a) : a \in Atoms \cup {"null"}}

Fields(values) == UNION {[D -> values] : D \in SUBSET Keys}

Items == Leaves \cup {Array(<<>>), Object(<<>>)}

Values ==
    Leaves \cup {Array(s) : s \in BoundedSeq(Items, MaxLen)}
           \cup {Object(f) : f \in Fields(Leaves)}

(* Either flat, or one member that is anything. *)
Documents ==
    {Object(f) : f \in Fields(Leaves) \cup UNION {[{k} -> Values] : k \in Keys}}

Digits == [s \in {"0", "1", "2", "3"} |->
              CASE s = "0" -> 0 [] s = "1" -> 1 [] s = "2" -> 2 [] s = "3" -> 3]

Digit(i) == CHOOSE s \in DOMAIN Digits : Digits[s] = i

Forbidden == {"__proto__", "constructor", "prototype"}

-----------------------------------------------------------------------------
(* obj[key], with what an object inherits. *)
Member(d, s) ==
    IF d.kind = "object" /\ s \in DOMAIN d.fields THEN d.fields[s]
    ELSE IF d.kind = "object" /\ s \in Inherited THEN Method
    ELSE IF d.kind = "array" /\ s \in DOMAIN Digits /\ Digits[s] < Len(d.items)
         THEN d.items[Digits[s] + 1]
    ELSE Undefined

At(d, path) ==
    LET at[i \in 0..Len(path)] == IF i = 0 THEN d ELSE Member(at[i - 1], path[i])
    IN  at[Len(path)]

(* parsePath throws at some segments, and an index becomes a number.       *)
Refused(path) == \E i \in DOMAIN path : path[i] \in Forbidden

Parsed(path) == [i \in DOMAIN path |-> IF path[i] \in Inexact THEN Nearest ELSE path[i]]

GetPath(d, path) == IF Refused(path) THEN Failed ELSE At(d, Parsed(path))

Exists(d, path) == ~Refused(path) /\ GetPath(d, path) # Undefined

WithMember(d, s, v) ==
    IF d.kind = "array" THEN Array([d.items EXCEPT ![Digits[s] + 1] = v])
                        ELSE Object([k \in DOMAIN d.fields \cup {s} |->
                                        IF k = s THEN v ELSE d.fields[k]])

(* The tail of setPath, on the parent of what is set. *)
SetIn(target, s, v, shouldExist, insert, append) ==
    LET size == Len(target.items)
        inRange == s \in DOMAIN Digits /\ Digits[s] < size + (IF append THEN 1 ELSE 0) IN
    IF target.kind = "array"
    THEN IF s = "-" THEN IF append THEN Array(Append(target.items, v)) ELSE Failed
         ELSE IF ~inRange THEN Failed
         ELSE IF insert THEN Array(InsertAt(target.items, Digits[s] + 1, v))
         ELSE IF Digits[s] = size THEN Array(Append(target.items, v))
         ELSE WithMember(target, s, v)
    ELSE IF target.kind # "object" \/ (shouldExist /\ s \notin DOMAIN target.fields) THEN Failed
    ELSE WithMember(target, s, v)

(* The tail of deletePath. *)
DeleteIn(target, s, strict) ==
    IF target.kind = "array"
    THEN IF s \notin DOMAIN Digits \/ Digits[s] >= Len(target.items) THEN Failed
         ELSE Array(RemoveAt(target.items, Digits[s] + 1))
    ELSE IF target = Null THEN Failed
    ELSE IF target.kind # "object" \/ s \notin DOMAIN target.fields
    THEN (IF strict THEN Failed ELSE target)
    ELSE Object([k \in DOMAIN target.fields \ {s} |-> target.fields[k]])

(* d with another value at a path that exists, put together from the end   *)
(* of the path.                                                            *)
Put(d, path, v) ==
    LET put[i \in 1..(Len(path) + 1)] ==
            IF i > Len(path) THEN v
            ELSE WithMember(At(d, SubSeq(path, 1, i - 1)), path[i], put[i + 1])
    IN  put[1]

PutBack(d, path, v) == IF v = Failed THEN Failed ELSE Put(d, path, v)

SetPath(d, path, v, shouldExist, insert, append) ==
    LET keys == Parsed(path)
        target == At(d, Front(keys)) IN
    IF path = <<>> \/ Refused(path) \/ target = Undefined THEN Failed
    ELSE PutBack(d, Front(keys), SetIn(target, Last(keys), v, shouldExist, insert, append))

(* Without strict, a parent that does not exist is no error; to look into  *)
(* null is one all the same.                                               *)
DeletePath(d, path, strict) ==
    LET keys == Parsed(path)
        target == At(d, Front(keys)) IN
    IF path = <<>> \/ Refused(path) THEN Failed
    ELSE IF target # Undefined
    THEN PutBack(d, Front(keys), DeleteIn(target, Last(keys), strict))
    ELSE IF strict \/ \E i \in 1..(Len(keys) - 2) : At(d, SubSeq(keys, 1, i)) = Null
    THEN Failed ELSE d

-----------------------------------------------------------------------------
(* One operation of applyPatches; "set" always creates. *)
Apply(d, p, strict) ==
    CASE p.op = "add" -> SetPath(d, p.path, p.value, FALSE, TRUE, TRUE)
      [] p.op = "replace" ->
            IF strict /\ ~Exists(d, p.path) THEN Failed
            ELSE SetPath(d, p.path, p.value, strict, FALSE, FALSE)
      [] p.op = "set" -> SetPath(d, p.path, p.value, FALSE, FALSE, TRUE)
      [] p.op = "remove" ->
            IF strict /\ ~Exists(d, p.path) THEN Failed ELSE DeletePath(d, p.path, strict)
      [] p.op = "copy" ->
            LET value == GetPath(d, p.from) IN
            IF value = Undefined THEN IF strict THEN Failed ELSE d
            ELSE IF value \in {Method, Failed} THEN Failed
            ELSE SetPath(d, p.path, value, FALSE, TRUE, TRUE)
      [] p.op = "move" ->
            LET value == GetPath(d, p.from)
                without == DeletePath(d, p.from, strict) IN
            IF IsStrictPrefix(p.from, p.path) THEN Failed
            ELSE IF value = Undefined THEN IF strict THEN Failed ELSE d
            ELSE IF without = Failed THEN Failed
            ELSE SetPath(without, p.path, value, FALSE, TRUE, TRUE)
      [] p.op = "test" ->
            IF Exists(d, p.path) /\ GetPath(d, p.path) = p.value THEN d ELSE Failed

-----------------------------------------------------------------------------
Puts(name, path, value) == [op |-> name, path |-> path, value |-> value]

Removal(path) == [op |-> "remove", path |-> path]

(* Mutant: the removals go up, as if nothing moved down behind them. *)
RemovalsRising(to, from, path) ==
    [i \in 1..(Len(from) - Len(to)) |-> Removal(Append(path, Digit(Len(to) + i - 1)))]

(* Each removal is at the index where the target ends. *)
Removals(to, from, path) ==
    [i \in 1..(Len(from) - Len(to)) |-> Removal(Append(path, Digit(Len(to))))]

Additions(to, from, path) ==
    [i \in 1..(Len(to) - Len(from)) |->
        Puts("add", Append(path, Digit(Len(from) + i - 1)), to[Len(from) + i])]

(* inner[s] are the operations for what stands at s in both. *)
CompareArrays(to, from, path, inner) ==
    LET both == IF Len(to) < Len(from) THEN Len(to) ELSE Len(from) IN
    FlattenSeq([i \in 1..both |-> inner[Digit(i - 1)]])
        \o Additions(to, from, path) \o Removals(to, from, path)

CompareObjects(to, from, path, inner) ==
    LET old == SetToSeq(DOMAIN from.fields)
        new == SetToSeq(DOMAIN to.fields \ DOMAIN from.fields) IN
    FlattenSeq([i \in 1..Len(old) |->
                   IF Member(to, old[i]) = Undefined THEN <<Removal(Append(path, old[i]))>>
                   ELSE inner[old[i]]])
        \o [i \in 1..Len(new) |-> Puts("add", Append(path, new[i]), to.fields[new[i]])]

(* What stands at a path, in both documents. *)
Differences(to, from, path, inner) ==
    IF to = from THEN <<>>
    ELSE IF to.kind = "array" /\ from.kind = "array"
    THEN CompareArrays(to.items, from.items, path, inner)
    ELSE IF to.kind = "object" /\ from.kind = "object"
    THEN CompareObjects(to, from, path, inner)
    ELSE <<Puts("replace", path, to)>>

Names == Keys \cup DOMAIN Digits

Compare(target, source) ==
    LET compare[path \in Seq(Names)] ==
            Differences(At(target, path), At(source, path), path,
                        [s \in Names |-> compare[Append(path, s)]])
    IN  compare

CreatePatches(to, from) == Compare(to, from)[<<>>]

-----------------------------------------------------------------------------
Segments == Keys \cup Inexact \cup {"0", "1", "-", "prototype"}

Paths == BoundedSeq(Segments, 2)

TypeOK ==
    /\ data.kind = "object" /\ goal.kind \in {"object", "undefined"}
    /\ working.kind \in {"object", "undefined"}
    /\ mode \in {"idle", "applying", "applied", "failed"}

Init ==
    /\ data \in Documents
    /\ goal = Undefined /\ patches = <<>> /\ working = Undefined /\ mode = "idle"

(* A document is made into another one. *)
Change(to) ==
    /\ mode = "idle" /\ goal' = to /\ patches' = CreatePatches(to, data)
    /\ working' = data /\ mode' = "applying" /\ UNCHANGED data

(* The operations go to a clone, and to the document when all went well. *)
Step ==
    /\ mode = "applying" /\ patches # <<>>
    /\ LET next == Apply(working, Head(patches), TRUE) IN
       IF next = Failed THEN mode' = "failed" /\ UNCHANGED <<patches, working>>
       ELSE working' = next /\ patches' = Tail(patches) /\ mode' = mode
    /\ UNCHANGED <<data, goal>>

Commit ==
    /\ mode = "applying" /\ patches = <<>>
    /\ data' = working /\ mode' = "applied" /\ UNCHANGED <<goal, patches, working>>

Next == Step \/ Commit \/ \E to \in Documents : Change(to)

Spec == Init /\ [][Next]_vars

-----------------------------------------------------------------------------
(* What createPatches gives can be applied, and makes the one document     *)
(* into the other: of documents whose keys are neither inherited, nor      *)
(* refused, nor changed by Number.                                         *)
RoundTrip ==
    /\ mode # "failed"
    /\ mode = "applied" => data = goal

Operations ==
    [op : {"add", "replace", "set", "test"}, path : Paths, value : {Null}]
        \cup [op : {"remove"}, path : Paths]
        \cup [op : {"copy", "move"}, path : Paths, from : Paths]

(* An operation that strict mode lets through does the same without it.    *)
LenientAgrees ==
    mode = "idle" =>
        \A p \in Operations :
            Apply(data, p, TRUE) # Failed => Apply(data, p, FALSE) = Apply(data, p, TRUE)

PatchRight == RoundTrip /\ LenientAgrees
=============================================================================
