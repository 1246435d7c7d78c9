----------------------------- MODULE MCChecker -----------------------------
(***************************************************************************)
(* Graphs of a few nodes whose last one is an end, all of them reachable   *)
(* but for one, which may have edges into the others; and graphs that have *)
(* a broken edge.                                                          *)
(***************************************************************************)
EXTENDS FlowChecker

StepOf(targets) ==
    [kind |-> "step", to |-> targets, body |-> None, exit |-> 1, exhausted |-> None]

LoopOf(body, exit, exhausted) ==
    [kind |-> "loop", to |-> {}, body |-> body, exit |-> exit, exhausted |-> exhausted]

EndNode == [kind |-> "end", to |-> {}, body |-> None, exit |-> 1, exhausted |-> None]

Steps == {StepOf({t, u}) : t \in Ids, u \in Ids}

Loops == {LoopOf(b, e, None) : b \in Ids \cup {None}, e \in Ids}
    \cup {LoopOf(b, NodeCount, x) : b \in Ids \ {1, NodeCount}, x \in Ids \ {NodeCount}}

Inner == Ids \ {NodeCount}

(* The functions of inner nodes to shapes with at most two loops; beside   *)
(* two loops there is a node with one target.                              *)
Inside == {d \in [Inner -> Steps \cup Loops \cup {EndNode}] :
              LET loopers == {n \in Inner : d[n].kind = "loop"}
              IN  \/ Cardinality(loopers) <= 1
                  \/ Cardinality(loopers) = 2 /\ \A n \in Inner \ loopers : Cardinality(d[n].to) <= 1}

Closed == {[n \in Ids |-> IF n = NodeCount THEN EndNode ELSE d[n]] : d \in Inside}

Graphs == {d \in Closed : Unreachable(d) \subseteq {3}}

Broken == {[d EXCEPT ![2] = StepOf({Missing, NodeCount})] :
              d \in {g \in Graphs : g[3] = EndNode}}

SmallDefinitions == Graphs \cup Broken
=============================================================================
