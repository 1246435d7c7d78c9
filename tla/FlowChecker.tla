---------------------------- MODULE FlowChecker ----------------------------
(***************************************************************************)
(* checker.ts of @sozai/flow-graph: the analysis of one flow's graph, and  *)
(* the walks a run makes through a definition that passed it.              *)
(*                                                                         *)
(* Node ids are numbers, in the order in which the checker visits them.  A *)
(* "step" stands for every kind that names its targets and moves to one of *)
(* them: branch, set, action, input, call, with onError, decline and       *)
(* timeout among them.  Which one is taken depends on data.  Whether a     *)
(* node's own schema and retry policy are right is not looked at here.     *)
(***************************************************************************)
EXTENDS Reaching

CONSTANTS
    NodeCount,
    MaxIterations,   \* of every loop
    Definitions      \* the definitions handed to the checker

Ids == 1..NodeCount
None == 0                         \* an absent field
Missing == NodeCount + 1          \* a target that names no node
Targets == Ids \cup {Missing}

(* A loop without a local body has a flow as its body, which runs in a     *)
(* frame of its own and comes back to the loop.                            *)
Shape == [kind : {"step", "loop", "end"}, to : SUBSET Targets, body : Targets \cup {None},
          exit : Targets, exhausted : Targets \cup {None}]

ASSUME CheckerAssumption ==
    /\ NodeCount \in Nat \ {0} /\ MaxIterations \in Nat \ {0}
    /\ Definitions \subseteq [Ids -> Shape]

Start == 1

VARIABLES
    def,          \* the definition
    dominators,   \* for each node, what runs before it on every way from the start
    cursor,       \* the node whose dominators are computed next
    changed,      \* the pass has changed something
    phase,        \* "dominators", "checked", "rejected", "walk", "over"
    node,         \* where the run stands
    loops,        \* how often each loop has entered its body: scope.loops
    ran           \* history: nodes whose execution has been committed

vars == <<def, dominators, cursor, changed, phase, node, loops, ran>>

-----------------------------------------------------------------------------
(* Outgoing edges by label; a label tells edges with one target apart.     *)
Optional(target) == IF target = None THEN {} ELSE {target}

BodyTargets(d, n) == IF d[n].kind = "loop" THEN Optional(d[n].body) ELSE {}

OtherTargets(d, n) ==
    CASE d[n].kind = "step" -> d[n].to
      [] d[n].kind = "loop" -> {d[n].exit} \cup Optional(d[n].exhausted)
      [] OTHER -> {}

Edges(d, n) == BodyTargets(d, n) \cup OtherTargets(d, n)

Predecessors(d, n) == {p \in Ids : n \in Edges(d, p)}

(* Nodes on a way from the set `from`. *)
Reached(from, next) == ReachedFrom(Ids, from, next)

Reachable(d, from) == Reached({from}, [n \in Ids |-> Edges(d, n)])

ContainsEnd(d, n) == \E m \in Reachable(d, n) : d[m].kind = "end"

\* Mutant: the exit edges of a loop are dropped with its body edge.
StrippedOfLoops(d, n) == IF d[n].kind = "loop" THEN {} ELSE Edges(d, n)

(* Edges that may not form a cycle.  The filter goes by the target, so it  *)
(* drops every edge of a loop that leads to its body.                      *)
Stripped(d, n) == Edges(d, n) \ BodyTargets(d, n)

OnCycle(n, next) == n \in Reached(next[n] \cap Ids, next)

HasCycle(d) == LET next == [n \in Ids |-> Stripped(d, n)] IN \E n \in Ids : OnCycle(n, next)

(* Issues of severity error. *)
Issues(d) ==
      {"unknown_target" : n \in {m \in Ids : Missing \in Edges(d, m)}}
 \cup {"no_end" : n \in {m \in Ids : ~ContainsEnd(d, m)}}
 \cup (IF HasCycle(d) THEN {"unbounded_cycle"} ELSE {})

Unreachable(d) == Ids \ Reachable(d, Start)

(* result_maybe_missing: the warning on a read of results.<producer>. *)
MaybeMissing(reader, producer) == reader # producer /\ producer \notin dominators[reader]

-----------------------------------------------------------------------------
Init ==
    /\ def \in Definitions
    /\ dominators = [n \in Ids |-> IF n = Start THEN {Start} ELSE Ids]
    /\ cursor = 1 /\ changed = FALSE /\ phase = "dominators"
    /\ node = Start /\ loops = [n \in Ids |-> 0] /\ ran = {}

\* Mutant: one predecessor is enough.
MeetOfAny(n) ==
    LET incoming == Predecessors(def, n)
    IN  {n} \cup {c \in Ids : incoming # {} /\ \E p \in incoming : c \in dominators[p]}

(* What runs before n, by what runs before its predecessors. *)
Meet(n) ==
    LET incoming == Predecessors(def, n)
    IN  {n} \cup {c \in Ids : incoming # {} /\ \A p \in incoming : c \in dominators[p]}

Dominate ==
    /\ phase = "dominators" /\ cursor \in Ids
    /\ IF cursor = Start
       THEN UNCHANGED <<dominators, changed>>
       ELSE /\ dominators' = [dominators EXCEPT ![cursor] = Meet(cursor)]
            /\ changed' = (changed \/ Meet(cursor) # dominators[cursor])
    /\ cursor' = cursor + 1
    /\ UNCHANGED <<def, phase, node, loops, ran>>

\* Mutant: one pass is taken to be enough.
PassOnce ==
    /\ phase = "dominators" /\ cursor \notin Ids
    /\ phase' = "checked" /\ changed' = FALSE
    /\ UNCHANGED <<def, dominators, cursor, node, loops, ran>>

Pass ==
    /\ phase = "dominators" /\ cursor \notin Ids
    /\ IF changed THEN cursor' = 1 /\ phase' = phase
                  ELSE cursor' = cursor /\ phase' = "checked"
    /\ changed' = FALSE
    /\ UNCHANGED <<def, dominators, node, loops, ran>>

(* The runtime starts no definition that has an error; warnings are let    *)
(* through.                                                                *)
Check ==
    /\ phase = "checked"
    /\ phase' = IF Issues(def) = {} THEN "walk" ELSE "rejected"
    /\ UNCHANGED <<def, dominators, cursor, changed, node, loops, ran>>

-----------------------------------------------------------------------------
(* A run through the definition.  Time, retries and the limit of steps are *)
(* left to FlowRun.                                                        *)
Walking(kind) == phase = "walk" /\ def[node].kind = kind

Move(target) ==
    /\ node' = target /\ ran' = ran \cup {node}
    /\ UNCHANGED <<def, dominators, cursor, changed, phase>>

Step == Walking("step") /\ (\E t \in def[node].to : Move(t)) /\ UNCHANGED loops

(* The condition does not hold. *)
LoopExit ==
    /\ Walking("loop") /\ Move(def[node].exit)
    /\ loops' = [loops EXCEPT ![node] = 0]

LoopBody ==
    /\ Walking("loop") /\ loops[node] < MaxIterations
    /\ Move(IF def[node].body = None THEN node ELSE def[node].body)
    /\ loops' = [loops EXCEPT ![node] = @ + 1]

LoopExhausted ==
    /\ Walking("loop") /\ loops[node] >= MaxIterations /\ def[node].exhausted # None
    /\ Move(def[node].exhausted)
    /\ loops' = [loops EXCEPT ![node] = 0]

(* The run is over: an end, a goto, or a loop that fails as it is          *)
(* exhausted.                                                              *)
Stop ==
    /\ \/ Walking("end")
       \/ Walking("loop") /\ loops[node] >= MaxIterations /\ def[node].exhausted = None
    /\ phase' = "over" /\ ran' = ran \cup {node}
    /\ UNCHANGED <<def, dominators, cursor, changed, node, loops>>

Next ==
    \/ Dominate \/ Pass \/ Check
    \/ Step \/ LoopExit \/ LoopBody \/ LoopExhausted \/ Stop

Spec == Init /\ [][Next]_vars

FairSpec == Spec /\ WF_vars(Next)

-----------------------------------------------------------------------------
TypeOK ==
    /\ def \in Definitions
    /\ dominators \in [Ids -> SUBSET Ids]
    /\ cursor \in 1..(NodeCount + 1) /\ changed \in BOOLEAN
    /\ phase \in {"dominators", "checked", "rejected", "walk", "over"}
    /\ node \in Ids /\ loops \in [Ids -> Nat] /\ ran \subseteq Ids

(* A read that the checker does not warn of finds that its producer has    *)
(* run, on whichever way the run came to the reader (checker.ts 177-187).  *)
ReadsFindProducers ==
    phase = "walk" => \A p \in Ids : MaybeMissing(node, p) \/ p = node \/ p \in ran

(* The iteration ends in the dominators as they are defined: p dominates n *)
(* if n is cut off from the start without p.  An edge from a node that     *)
(* cannot be reached counts as a way to its target (and is warned of), so  *)
(* this is claimed where there is none.                                    *)
Avoiding(d, p) ==
    Reached({Start} \ {p}, [n \in Ids |-> Edges(d, n) \ {p}])

WarningsExact ==
    phase = "checked" /\ Unreachable(def) = {} =>
        \A n \in Ids : dominators[n] = {p \in Ids : n \notin Avoiding(def, p)}

(* What the checker promises of an accepted definition: each cycle goes    *)
(* through the body edge of a loop.                                        *)
CyclesThroughBodies ==
    phase = "walk" =>
        LET next == [n \in Ids |-> OtherTargets(def, n)] IN \A n \in Reachable(def, Start) : ~OnCycle(n, next)

(* No edge of a loop shares its target with the body edge. *)
BodiesApart(d) == \A n \in Ids : BodyTargets(d, n) \cap OtherTargets(d, n) = {}

(* The check gives its verdict, and every run through an accepted          *)
(* definition comes to its end, without the limit of steps: the counts of  *)
(* its loops bound it (checker.ts 386-430 and kinds.ts 103-155).           *)
Ends == []<>(BodiesApart(def) => phase \in {"rejected", "over"})
=============================================================================
