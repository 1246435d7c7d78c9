----------------------------- MODULE FlowTypes -----------------------------
(***************************************************************************)
(* Flow definitions and the durable run state of @sozai/flow-graph.        *)
(*                                                                         *)
(* The runner persists one JSON document per run (RunState in types.ts): a *)
(* stack of frames, each pinned to a flow definition, plus the progress of *)
(* the attempt in flight and of the work the run waits for.  This module   *)
(* declares the definitions a run executes and the documents it writes.    *)
(* Payloads (inputs, results, prompts) are left out: nothing below depends *)
(* on them, so whatever reads one is a nondeterministic choice.            *)
(***************************************************************************)
EXTENDS Naturals, Sequences, FiniteSets

CONSTANTS
    Flow,       \* flow definitions, one per pinned (id, version, digest)
    Node,       \* node ids
    Root,       \* the flow a run is started with
    Def,        \* Def[f] = [start |-> first node, node |-> its node definitions]
    MaxSteps,   \* options.maxSteps: node entries a run may make
    MaxDepth,   \* options.maxDepth: frames on the stack, the root included
    Delays,     \* retry delays that backoff, jitter and a Retry-After can give
    Horizon,    \* the last instant told apart; timestamps saturate there
    None        \* an absent optional field

Time == 0..Horizon
OptTime == Time \cup {None}
OptNode == Node \cup {None}

Kinds == {"step", "action", "input", "loop", "call", "goto", "end"}

(* Kinds whose attempts are checkpointed before they run. *)
RetryKinds == {"action", "call"}

Policy == [maxAttempts : Nat \ {0}, maxInterruptions : Nat,
           total : Nat \cup {None}, suspendAfter : Nat \cup {None}]

(* One record shape for every kind; a field a kind does not have is None,  *)
(* or empty.  "step" stands for branch and set: it moves to one of its     *)
(* targets, which one depends on data.                                     *)
NodeDefs == [kind : Kinds, targets : SUBSET Node, next : OptNode, onError : OptNode,
             policy : Policy, decline : OptNode, timeout : Nat \cup {None},
             timeoutTo : OptNode, flow : Flow \cup {None}, body : OptNode,
             exit : OptNode, exhausted : OptNode, max : Nat]

(* What check() enforces on a definition before a run may use it: the      *)
(* fields its kind requires are there and lead to nodes of the same flow.  *)
WellFormed(f, d) ==
    LET own == DOMAIN Def[f].node
        there(n) == n \in own
        maybe(n) == n = None \/ n \in own
    IN  /\ d.targets \subseteq own
        /\ maybe(d.onError) /\ maybe(d.decline) /\ maybe(d.timeoutTo) /\ maybe(d.exhausted)
        /\ d.kind = "step" => d.targets # {}
        /\ d.kind \in {"action", "input", "call"} => there(d.next)
        /\ d.kind \in {"call", "goto"} => d.flow \in Flow
        /\ d.kind = "loop" => /\ there(d.exit)
                              /\ there(d.body) <=> d.flow = None
                              /\ maybe(d.body)
        /\ d.kind \in {"loop", "goto"} => d.onError = None
        /\ (d.timeout = None) = (d.timeoutTo = None)

ASSUME FlowAssumption ==
    /\ MaxSteps \in Nat /\ MaxDepth \in Nat \ {0} /\ Horizon \in Nat
    /\ Delays \subseteq Nat /\ Delays # {}
    /\ None \notin Nat /\ None \notin Node /\ None \notin Flow
    /\ Root \in Flow
    /\ DOMAIN Def = Flow
    /\ \A f \in Flow :
          /\ DOMAIN Def[f].node \subseteq Node
          /\ Def[f].start \in DOMAIN Def[f].node
          /\ \A n \in DOMAIN Def[f].node :
                Def[f].node[n] \in NodeDefs /\ WellFormed(f, Def[f].node[n])

-----------------------------------------------------------------------------
(* The run state document. *)

Attempt == [inv : Nat, count : Nat, interruptions : Nat,
            deadline : OptTime, retryAt : OptTime]

Continuation == [kind : {"call", "loopBody"}, caller : Node,
                 returnTo : Node, onError : OptNode]

Frame == [flow : Flow, node : Node, loops : [Node -> Nat],
          attempts : [Node -> Attempt \cup {None}],
          cont : Continuation \cup {None}]

InFlight == [node : Node, attempt : Nat, inv : Nat]

Pending == [node : Node, reason : {"suspend", "retry"},
            deadline : OptTime, resumeAt : OptTime]

WalkCodes == {"node_failed", "loop_exhausted", "missing_flow", "invalid_flow",
              "max_depth", "invalid_input"}

Codes == WalkCodes \cup {"invalid_value", "invalid_suspend", "max_steps"}

Reasons == {"attempts", "total_timeout", "non_retryable", "interrupted"}

(* An absent field is none of the values it could hold. *)
ASSUME AbsentAssumption ==
    None \notin Attempt \cup Continuation \cup InFlight \cup Pending \cup Codes \cup Reasons

Status == {"running", "suspended", "ended", "error", "aborted"}

RunState == [status : Status, frames : Seq(Frame), steps : Nat, invocation : Nat,
             inFlight : InFlight \cup {None}, pending : Pending \cup {None},
             error : Codes \cup {None}]

Terminal == {"ended", "error", "aborted"}

(* The statuses after which the drive loop stops. *)
Final == Terminal \cup {"suspended"}

-----------------------------------------------------------------------------
(* Reading the document. *)

Depth(r) == Len(r.frames)
Top(r) == r.frames[Depth(r)]
SetTop(r, fr) == [r EXCEPT !.frames[Depth(r)] = fr]
DefOf(fr) == Def[fr.flow].node[fr.node]
Own(fr, n) == fr.attempts[n]

NewFrame(f, cont) ==
    [flow |-> f, node |-> Def[f].start, loops |-> [n \in Node |-> 0],
     attempts |-> [n \in Node |-> None], cont |-> cont]

(* The state a run starts from. *)
InitialRun == [status |-> "running", frames |-> <<NewFrame(Root, None)>>, steps |-> 0,
               invocation |-> 0, inFlight |-> None, pending |-> None, error |-> None]

(* The instant d from t; everything from Horizon on is one instant. *)
Later(t, d) == IF t + d > Horizon THEN Horizon ELSE t + d

(* Whether a total deadline stops an attempt that would start d after t. *)
Expired(deadline, t, d) == deadline # None /\ t + d >= deadline
=============================================================================
