---------------------------- MODULE MCDocuments ----------------------------
(***************************************************************************)
(* Documents before and around a run, one component at a time: the check   *)
(* of a definition and the walks it allows, the check of a set of flows    *)
(* and its runs, and hosts that share the document of a run.  They share   *)
(* no state: the others rest where nothing of theirs is due.               *)
(***************************************************************************)
EXTENDS MCChecker, FlowHost, Sequences

VARIABLE about   \* the component that runs

checker == <<def, dominators, cursor, changed, phase, node, loops, ran>>

CheckerOver ==
    /\ def = [n \in Ids |-> EndNode] /\ dominators = [n \in Ids |-> {n}]
    /\ cursor = NodeCount + 1 /\ changed = FALSE /\ phase = "over"
    /\ node = NodeCount /\ loops = [n \in Ids |-> 0] /\ ran = {}

-----------------------------------------------------------------------------
CONSTANTS FlowCount, Keys, MaxDepth, FlowSystems

VARIABLES sys, stage, queue, position, link, flows, links, issues, reported, index, low,
          component, stack, calls, frames, returned

sets ==
    <<sys, stage, queue, position, link, flows, links, issues, reported, index, low,
      component, stack, calls, frames, returned>>

Sets == INSTANCE FlowSets WITH phase <- stage

ASSUME SetsAssumption ==
    /\ FlowCount \in Nat \ {0} /\ MaxDepth \in Nat \ {0}
    /\ \A s \in FlowSystems :
          /\ s \in [Sets!Flows -> Sets!FlowShape]
          /\ \A f \in Sets!Flows : UNION s[f].ends \subseteq Keys

(* Flows and Missing of FlowSets, whose FlowSystems are made of them.      *)
FlowNumbers == 1..FlowCount

NoFlow == FlowCount + 1

(* Flows with at most two references each, and some of them not there, not *)
(* valid or open.                                                          *)
RefsTo(targets) ==
    LET one == [edge : {"call", "goto"}, to : targets]
    IN  {<<>>} \cup {<<r>> : r \in one} \cup {<<r, s>> : r \in one, s \in one}

Plain(refs, f) == [refs |-> refs, ends |-> {{}, {f}}, open |-> FALSE, valid |-> TRUE]

SystemsOf(targets, max) ==
    {[f \in FlowNumbers |-> Plain(r[f], f)] :
        r \in {q \in [FlowNumbers -> RefsTo(targets)] :
                 q[1] # <<>> /\ Len(q[1]) + Len(q[2]) + Len(q[3]) <= max}}

(* The second flow ends with any keys, or is not valid. *)
Amiss ==
    {[s EXCEPT ![2].open = o, ![2].valid = o] : s \in SystemsOf(FlowNumbers, 3), o \in BOOLEAN}

(* Flows 2 and 3 are alike: the first reference is to one of the others.  *)
SmallSystems ==
    {s \in SystemsOf(FlowNumbers, 3) : s[1].refs[1].to # 3}
    \cup SystemsOf({2, NoFlow}, 3) \cup Amiss

SetsOver ==
    /\ sys = [f \in Sets!Flows |-> Plain(<<>>, f)] /\ stage = "over"
    /\ queue = <<1>> /\ position = 2 /\ link = 1 /\ flows = {1} /\ links = <<>>
    /\ issues = {} /\ reported = [gotos |-> {}, cycles |-> {}]
    /\ index = Sets!Unnumbered /\ low = Sets!Unnumbered /\ component = Sets!Unnumbered
    /\ stack = <<>> /\ calls = <<>> /\ frames = <<>> /\ returned = Sets!Nothing

-----------------------------------------------------------------------------
DocumentsInit ==
    /\ about \in {"definition", "set", "host"}
    /\ IF about = "definition" THEN Init ELSE CheckerOver
    /\ IF about = "set" THEN Sets!Init ELSE SetsOver
    /\ HostInit

(* One component takes its steps; the rest stands still.  Hosts are alike: *)
(* the first segment is opened by host 1.                                  *)
DocumentsNext ==
    /\ UNCHANGED about
    /\ \/ about = "definition" /\ Next /\ UNCHANGED <<sets, host>>
       \/ about = "set" /\ Sets!Next /\ UNCHANGED <<checker, host>>
       \/ about = "host" /\ HostNext /\ (opened = 0 => open' \subseteq {1}) /\ UNCHANGED <<checker, sets>>

documents == <<about, checker, sets, host>>

DocumentsSpec == DocumentsInit /\ [][DocumentsNext]_documents /\ WF_checker(about = "definition" /\ Next)

-----------------------------------------------------------------------------
(* A set of flows is cut into its components, each cycle in it is reported *)
(* once, and nothing else.                                                 *)
CyclesReported == Sets!ComponentsExact /\ Sets!ReportsExact

(* A run of an accepted set does what the check took it to do. *)
RunsAsChecked == Sets!RunsAsChecked
=============================================================================
