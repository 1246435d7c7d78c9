------------------------------ MODULE FlowSets ------------------------------
(***************************************************************************)
(* check-flows.ts of @sozai/flow-graph: a definition is checked together   *)
(* with the flows it refers to, and then run.                              *)
(*                                                                         *)
(* Flows are numbers, 1 is the root; a number stands for an id and a       *)
(* version, all references being pinned.  Of a flow only what this check   *)
(* looks at is left: its references, in the order of its nodes, and the    *)
(* keys that its end nodes return.  "call" stands for a loop with a flow   *)
(* body, too, which differs in the frame's continuation alone.             *)
(***************************************************************************)
EXTENDS Reaching, Sequences

CONSTANTS
    FlowCount,
    Keys,        \* output keys
    MaxDepth,    \* options.maxDepth
    FlowSystems  \* what the resolver gives, as a whole

Flows == 1..FlowCount
Missing == FlowCount + 1     \* what the resolver does not have
Root == 1

Reference == [edge : {"call", "goto"}, to : Flows \cup {Missing}]

(* open: some node is of a custom kind that ends with whatever it likes.   *)
(* valid: the flow passes its own check (FlowChecker).                     *)
FlowShape == [refs : Seq(Reference), ends : SUBSET SUBSET Keys, open : BOOLEAN, valid : BOOLEAN]

VARIABLES
    sys,         \* the flows
    phase,       \* "resolve", "gotos", "cycles", "checked", "rejected", "run", "over"
    queue,       \* flows whose references are resolved, breadth first
    position,    \* of the flow in the queue
    link,        \* of the reference in the flow
    flows,       \* flows that were resolved and are valid
    links,       \* references found: <<from, reference>>
    issues,      \* codes of errors found
    reported,    \* history: links reported as a cycle, by phase
    index, low, component,   \* Tarjan's numbers; 0 is not there
    stack, calls,            \* his stack, and the recursion of visit
    frames,      \* of the run: where it is, and what the frame was pushed for
    returned     \* history: what the last callee gave, and which

resolving == <<queue, position, link, flows, links>>
tarjan == <<index, low, component, stack, calls>>
running == <<frames, returned>>
vars == <<sys, phase, resolving, issues, reported, tarjan, running>>

Nothing == [to |-> 0, keys |-> {}]

Unnumbered == [f \in Flows |-> 0]

Init ==
    /\ sys \in FlowSystems /\ sys[Root].valid
    /\ phase = "resolve" /\ queue = <<Root>> /\ position = 1 /\ link = 1 /\ flows = {Root}
    /\ links = <<>> /\ issues = {} /\ reported = [gotos |-> {}, cycles |-> {}]
    /\ index = Unnumbered /\ low = Unnumbered /\ component = Unnumbered
    /\ stack = <<>> /\ calls = <<>>
    /\ frames = <<>> /\ returned = Nothing

-----------------------------------------------------------------------------
(* Breadth first through the references.  A flow that is there already is  *)
(* not queued again; one that is not valid is not looked into.             *)
Resolve ==
    /\ phase = "resolve" /\ position <= Len(queue)
    /\ link <= Len(sys[queue[position]].refs)
    /\ LET from == queue[position]
           ref == sys[from].refs[link]
           new == ref.to \in Flows \ flows
       IN  /\ links' = Append(links, [from |-> from, edge |-> ref.edge, to |-> ref.to])
           /\ IF new /\ sys[ref.to].valid
              THEN flows' = flows \cup {ref.to} /\ queue' = Append(queue, ref.to)
              ELSE UNCHANGED <<flows, queue>>
           /\ issues' = issues \cup (IF ref.to = Missing THEN {"missing_flow"} ELSE {})
                               \cup (IF new /\ ~sys[ref.to].valid THEN {"invalid_flow"} ELSE {})
    /\ link' = link + 1
    /\ UNCHANGED <<sys, phase, position, reported, tarjan, running>>

NextFlow ==
    /\ phase = "resolve" /\ position <= Len(queue)
    /\ link > Len(sys[queue[position]].refs)
    /\ position' = position + 1 /\ link' = 1
    /\ UNCHANGED <<sys, phase, queue, flows, links, issues, reported, tarjan, running>>

Resolved ==
    /\ phase = "resolve" /\ position > Len(queue)
    /\ phase' = "gotos"
    /\ UNCHANGED <<sys, resolving, issues, reported, tarjan, running>>

-----------------------------------------------------------------------------
(* Tarjan's components, of the goto links and then of all.  Cycles only    *)
(* run through flows that passed their own check.                          *)
Searching == phase \in {"gotos", "cycles"}

Considered == {i \in DOMAIN links : /\ links[i].to \in flows
                                    /\ phase = "gotos" => links[i].edge = "goto"}

(* The list of a flow's targets, as the links they come from.              *)
Successors(f) == {i \in Considered : links[i].from = f}

Foremost(set) == CHOOSE i \in set : \A j \in set : i <= j

LeastOf(a, b) == IF a < b THEN a ELSE b

Counter == 1 + Cardinality({f \in Flows : index[f] # 0})

Count == 1 + Cardinality({component[f] : f \in Flows} \ {0})

Enter(f) ==
    /\ index' = [index EXCEPT ![f] = Counter]
    /\ low' = [low EXCEPT ![f] = Counter]
    /\ stack' = Append(stack, f)
    /\ calls' = Append(calls, [flow |-> f, rest |-> Successors(f)])
    /\ UNCHANGED component

(* The outer loop: the ends of the links, in order. *)
Unvisited(i) == {f \in {links[i].from, links[i].to} : index[f] = 0}

Pending == {i \in Considered : Unvisited(i) # {}}

Visit ==
    /\ Searching /\ calls = <<>> /\ Pending # {}
    /\ LET first == links[Foremost(Pending)]
       IN  Enter(IF index[first.from] = 0 THEN first.from ELSE first.to)
    /\ UNCHANGED <<sys, phase, resolving, issues, reported, running>>

Visiting == Searching /\ calls # <<>>
Caller == calls[Len(calls)]
Target == links[Foremost(Caller.rest)].to

(* The innermost of them goes on with its next link.                       *)
Advanced(all) == [all EXCEPT ![Len(all)].rest = @ \ {Foremost(@)}]

Descend ==
    /\ Visiting /\ Caller.rest # {} /\ index[Target] = 0
    /\ Enter(Target)
    /\ UNCHANGED <<sys, phase, resolving, issues, reported, running>>

\* Mutant: a node that belongs to a component already lowers the number, too.
LookAgain ==
    /\ Visiting /\ Caller.rest # {} /\ index[Target] # 0
    /\ low' = [low EXCEPT ![Caller.flow] = LeastOf(@, index[Target])]
    /\ calls' = Advanced(calls)
    /\ UNCHANGED <<sys, phase, resolving, issues, reported, index, component, stack, running>>

Look ==
    /\ Visiting /\ Caller.rest # {} /\ index[Target] # 0
    /\ low' = IF component[Target] # 0 THEN low
              ELSE [low EXCEPT ![Caller.flow] = LeastOf(@, index[Target])]
    /\ calls' = Advanced(calls)
    /\ UNCHANGED <<sys, phase, resolving, issues, reported, index, component, stack, running>>

(* The node is done: it closes a component if it is the lowest of it, and  *)
(* its caller goes on with the number it has found.                        *)
Return ==
    /\ Visiting /\ Caller.rest = {}
    /\ LET f == Caller.flow
           at == CHOOSE i \in DOMAIN stack : stack[i] = f
           members == {stack[i] : i \in at..Len(stack)}
           outer == SubSeq(calls, 1, Len(calls) - 1)
       IN  /\ IF low[f] = index[f]
              THEN /\ component' = [g \in Flows |-> IF g \in members THEN Count ELSE component[g]]
                   /\ stack' = SubSeq(stack, 1, at - 1)
              ELSE UNCHANGED <<component, stack>>
           /\ IF outer = <<>>
              THEN low' = low /\ calls' = outer
              ELSE LET g == outer[Len(outer)].flow
                   IN  low' = [low EXCEPT ![g] = LeastOf(@, low[f])] /\ calls' = Advanced(outer)
    /\ UNCHANGED <<sys, phase, resolving, issues, reported, index, running>>

(* The first link of each component that lies on a cycle of the kind the   *)
(* phase is about.                                                         *)
OnCycle(i) ==
    /\ i \in Considered /\ component[links[i].from] = component[links[i].to]
    /\ phase = "cycles" => links[i].edge # "goto"

FirstOnCycles ==
    {i \in DOMAIN links : OnCycle(i) /\ \A j \in 1..(i - 1) :
        OnCycle(j) => component[links[j].from] # component[links[i].from]}

Components ==
    /\ Searching /\ calls = <<>> /\ Pending = {}
    /\ reported' = [reported EXCEPT ![phase] = FirstOnCycles]
    /\ issues' = IF phase = "gotos" /\ FirstOnCycles # {} THEN issues \cup {"unbounded_cycle"}
                                                          ELSE issues
    /\ IF phase = "gotos"
       THEN /\ phase' = "cycles" /\ index' = Unnumbered /\ low' = Unnumbered
            /\ component' = Unnumbered
       ELSE phase' = "checked" /\ UNCHANGED <<index, low, component>>
    /\ UNCHANGED <<sys, resolving, stack, calls, running>>

-----------------------------------------------------------------------------
(* end.output keys of a flow and of all it reaches by goto; all keys when  *)
(* one of them may end with any.                                           *)
Gotos(f) == {links[i].to : i \in {j \in DOMAIN links : links[j].from = f /\ links[j].edge = "goto"}}

Handovers(f) == ReachedFrom(Flows, {f}, [g \in Flows |-> Gotos(g)])

\* Mutant: only the callee itself is looked at.
OutputKeysOfCallee(f) == IF f \in flows /\ ~sys[f].open THEN UNION sys[f].ends ELSE Keys

OutputKeys(f) ==
    IF \A g \in Handovers(f) : g \in flows /\ ~sys[g].open
    THEN UNION {UNION sys[g].ends : g \in Handovers(f)}
    ELSE Keys

(* Preflight of a run: errors stop it.  Reads of results.<call>.output.key *)
(* are not in the model: each is as good as the key.                       *)
Check ==
    /\ phase = "checked"
    /\ IF issues = {}
       THEN phase' = "run" /\ frames' = <<[flow |-> Root, entry |-> Root, hops |-> 0]>>
       ELSE phase' = "rejected" /\ UNCHANGED frames
    /\ UNCHANGED <<sys, resolving, issues, reported, tarjan, returned>>

-----------------------------------------------------------------------------
Top == frames[Len(frames)]

Refs(edge) == {r \in {sys[Top.flow].refs[i] : i \in DOMAIN sys[Top.flow].refs} : r.edge = edge}

(* A call pushes a frame, or fails with max_depth, which ends the run when *)
(* nobody handles it.                                                      *)
Call ==
    /\ phase = "run"
    /\ \E r \in Refs("call") :
        IF Len(frames) < MaxDepth
        THEN /\ frames' = Append(frames, [flow |-> r.to, entry |-> r.to, hops |-> 0])
             /\ phase' = phase
        ELSE phase' = "over" /\ UNCHANGED frames
    /\ returned' = Nothing
    /\ UNCHANGED <<sys, resolving, issues, reported, tarjan>>

(* The frame is replaced and keeps its continuation. *)
Goto ==
    /\ phase = "run"
    /\ \E r \in Refs("goto") :
        frames' = [frames EXCEPT ![Len(frames)].flow = r.to, ![Len(frames)].hops = @ + 1]
    /\ returned' = Nothing
    /\ UNCHANGED <<sys, phase, resolving, issues, reported, tarjan>>

(* An end, or a custom kind that ends with any keys. *)
End ==
    /\ phase = "run"
    /\ \E keys \in IF sys[Top.flow].open THEN SUBSET Keys ELSE sys[Top.flow].ends :
        returned' = [to |-> Top.entry, keys |-> keys]
    /\ IF Len(frames) = 1 THEN phase' = "over" /\ UNCHANGED frames
       ELSE phase' = phase /\ frames' = SubSeq(frames, 1, Len(frames) - 1)
    /\ UNCHANGED <<sys, resolving, issues, reported, tarjan>>

Next ==
    \/ Resolve \/ NextFlow \/ Resolved
    \/ Visit \/ Descend \/ Look \/ Return \/ Components \/ Check
    \/ Call \/ Goto \/ End

Spec == Init /\ [][Next]_vars

-----------------------------------------------------------------------------
(* Which flows a flow leads to over links of the phase, for reference.     *)
LeadsTo(edges, from) ==
    LET next == [f \in Flows |-> {to \in Flows : <<f, to>> \in edges}]
    IN  ReachedFrom(Flows, next[from], next)

EdgesOf(kinds) ==
    {<<links[i].from, links[i].to>> : i \in {j \in DOMAIN links :
        links[j].edge \in kinds /\ links[j].to \in flows}}

(* When a search ends, two flows have one component if and only if each    *)
(* leads to the other (check-flows.ts 144-191).                            *)
ComponentsExact ==
    Searching /\ calls = <<>> /\ Pending = {} =>
        LET edges == EdgesOf(IF phase = "gotos" THEN {"goto"} ELSE {"goto", "call"})
        IN  \A f, g \in {h \in Flows : index[h] # 0} : f # g =>
                (component[f] = component[g] <=> f \in LeadsTo(edges, g) /\ g \in LeadsTo(edges, f))

(* A link of the kind lies on a cycle of edges if it leads back to where   *)
(* it is from; two are alike if they are from one component.               *)
LiesOnCycle(i, kind, edges) ==
    /\ links[i].to \in flows /\ links[i].edge = kind
    /\ links[i].from \in LeadsTo(edges, links[i].to) \cup {links[i].to}

Alike(i, j, edges) ==
    \/ links[i].from = links[j].from
    \/ /\ links[i].from \in LeadsTo(edges, links[j].from)
       /\ links[j].from \in LeadsTo(edges, links[i].from)

Exact(found, kind, edges) ==
    /\ \A i \in found : LiesOnCycle(i, kind, edges)
    /\ \A i \in DOMAIN links : LiesOnCycle(i, kind, edges) =>
          Cardinality({j \in found : Alike(i, j, edges)}) = 1

(* Every cycle of gotos is an error, and every cycle with a call a         *)
(* warning; nothing else is; and a component has one report.               *)
ReportsExact ==
    phase = "checked" =>
        LET gotos == EdgesOf({"goto"})
            all == EdgesOf({"goto", "call"})
        IN  /\ Exact(reported.gotos, "goto", gotos)
            /\ Exact(reported.cycles, "call", all)
            /\ "unbounded_cycle" \in issues <=>
                  \E i \in DOMAIN links : LiesOnCycle(i, "goto", gotos)

(* A run of an accepted set: what a callee returns is among the keys the   *)
(* check knew of, whatever flows it was handed over to (check-flows.ts     *)
(* 254-293), and a frame is not handed over for ever.                      *)
OutputsDeclared == returned # Nothing => returned.keys \subseteq OutputKeys(returned.to)

HandoversEnd == \A i \in DOMAIN frames : frames[i].hops < FlowCount /\ frames[i].flow \in flows

RunsAsChecked == OutputsDeclared /\ HandoversEnd
=============================================================================
