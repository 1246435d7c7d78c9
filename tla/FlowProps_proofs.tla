-------------------------- MODULE FlowProps_proofs --------------------------
(***************************************************************************)
(* Proofs that a durable run keeps its promises (FlowProps), for all flow  *)
(* definitions, bounds and delays.                                         *)
(*                                                                         *)
(* Three layers.  Stacked: what holds of the frames of every document the  *)
(* runner makes, complete or not.  Sound: what holds of the documents it   *)
(* commits.  Traced: how a document fits the node code started so far.     *)
(***************************************************************************)
EXTENDS FlowRun_proofs

At(fr) == Own(fr, fr.node)

(* An attempt within its policy, under an id of 1..v; a scheduled one can  *)
(* be made, and in time.                                                   *)
AttemptFits(a, policy, v) ==
    /\ a.inv \in 1..v
    /\ a.count <= policy.maxAttempts /\ a.interruptions <= policy.maxInterruptions
    /\ a.count = 0 => a.interruptions = 0
    /\ a.retryAt # None =>
          /\ 0 < a.count /\ a.count < policy.maxAttempts
          /\ a.deadline # None => a.retryAt < a.deadline

LoopFits(fr, n) ==
    /\ NodeIn(fr.flow, n) /\ Def[fr.flow].node[n].kind = "loop"
    /\ fr.loops[n] <= Def[fr.flow].node[n].max

FrameFits(fr, v) ==
    /\ \A n \in Node : Own(fr, n) # None => n = fr.node
    /\ At(fr) # None => DefOf(fr).kind \in RetryKinds /\ AttemptFits(At(fr), DefOf(fr).policy, v)
    /\ \A n \in Node : fr.loops[n] > 0 => LoopFits(fr, n)

(* What a caller's frame holds while its callee runs under cont. *)
ParkedOn(fr, cont) ==
    /\ At(fr) # None => At(fr).retryAt = None /\ At(fr).count > 0
    /\ IF cont.kind = "call"
       THEN /\ DefOf(fr).kind = "call"
            /\ cont.returnTo = DefOf(fr).next /\ cont.onError = DefOf(fr).onError
       ELSE /\ DefOf(fr).kind = "loop" /\ DefOf(fr).flow # None
            /\ cont.returnTo = fr.node /\ cont.onError = None

Stacked(s, v) ==
    /\ Len(s) <= MaxDepth
    /\ s[1].cont = None
    /\ \A i \in 1..Len(s) : FrameFits(s[i], v)
    /\ \A i \in 1..(Len(s) - 1) : ParkedOn(s[i], s[i + 1].cont)
    /\ \A i, j \in 1..Len(s) :
          i # j /\ At(s[i]) # None /\ At(s[j]) # None => At(s[i]).inv # At(s[j]).inv

Fitted(r) == Good(r) /\ Stacked(r.frames, r.invocation)

(* The status, and what is in flight or pending, agree with the attempt of *)
(* the active node.                                                        *)
StatusFits(r) ==
    LET a == At(Top(r)) IN
    /\ r.inFlight # None =>
          /\ a # None /\ a.count > 0 /\ a.retryAt = None /\ r.status = "running"
          /\ r.inFlight = [node |-> Top(r).node, attempt |-> a.count, inv |-> a.inv]
    /\ (r.status = "suspended") = (r.pending # None)
    /\ r.pending # None =>
          /\ r.pending.node = Top(r).node
          /\ IF r.pending.reason = "retry"
             THEN /\ a # None /\ a.retryAt # None
                  /\ a.retryAt = r.pending.resumeAt /\ r.pending.deadline = None
             ELSE DefOf(Top(r)).kind = "input" /\ r.pending.resumeAt = None
    /\ (r.status = "error") = (r.error # None)
    /\ r.status \in Terminal /\ a # None => a.retryAt = None
    /\ r.status = "running" /\ a # None /\ a.retryAt = None /\ r.inFlight = None => a.count = 0

Sound(r) == Fitted(r) /\ StatusFits(r)

-----------------------------------------------------------------------------
(* Frames. *)

LEMMA FrameTypes ==
    ASSUME NEW fr \in Frame
    PROVE  /\ fr.flow \in Flow /\ fr.node \in Node /\ fr.loops \in [Node -> Nat]
           /\ fr.attempts \in [Node -> Attempt \cup {None}]
           /\ \A n \in Node : Own(fr, n) = fr.attempts[n]
           /\ At(fr) = fr.attempts[fr.node] /\ At(fr) \in Attempt \cup {None}
BY DEF Frame, Own, At

(* A frame that leaves its node takes no attempt with it. *)
LEMMA ClearedFrame ==
    ASSUME NEW fr \in Frame, NEW v \in Nat, FrameFits(fr, v), NEW n \in Node
    PROVE  LET x == [fr EXCEPT !.node = n, !.attempts[fr.node] = None]
           IN  x \in Frame /\ x.flow = fr.flow /\ x.node = n /\ x.cont = fr.cont
               /\ At(x) = None /\ \A w \in Nat : FrameFits(x, w)
<1> DEFINE x == [fr EXCEPT !.node = n, !.attempts[fr.node] = None]
<1>1. /\ x \in Frame /\ x.flow = fr.flow /\ x.node = n /\ x.cont = fr.cont
      /\ x.loops = fr.loops /\ x.attempts = [fr.attempts EXCEPT ![fr.node] = None]
  BY DEF Frame
<1> HIDE DEF x
<1>2. \A m \in Node : Own(x, m) = None
  BY <1>1, FrameTypes DEF FrameFits
<1>3. At(x) = None
  BY <1>1, <1>2 DEF At
<1>4. \A m \in Node : x.loops[m] > 0 => LoopFits(x, m)
  BY <1>1 DEF FrameFits, LoopFits
<1> QED BY <1>1, <1>2, <1>3, <1>4 DEF FrameFits, x

(* A frame with another attempt of its node. *)
LEMMA AttemptedFrame ==
    ASSUME NEW fr \in Frame, NEW v \in Nat, FrameFits(fr, v), NEW w \in Nat,
           NEW a \in Attempt, DefOf(fr).kind \in RetryKinds,
           AttemptFits(a, DefOf(fr).policy, w)
    PROVE  LET x == [fr EXCEPT !.attempts[fr.node] = a]
           IN  x \in Frame /\ x.flow = fr.flow /\ x.node = fr.node /\ x.cont = fr.cont
               /\ At(x) = a /\ FrameFits(x, w) /\ DefOf(x) = DefOf(fr)
<1> DEFINE x == [fr EXCEPT !.attempts[fr.node] = a]
<1>1. /\ x \in Frame /\ x.flow = fr.flow /\ x.node = fr.node /\ x.cont = fr.cont
      /\ x.loops = fr.loops /\ x.attempts = [fr.attempts EXCEPT ![fr.node] = a]
  BY DEF Frame
<1> HIDE DEF x
<1>2. \A m \in Node : Own(x, m) # None => m = x.node
  BY <1>1, FrameTypes DEF FrameFits
<1>3. At(x) = a /\ DefOf(x) = DefOf(fr)
  BY <1>1, FrameTypes DEF DefOf
<1>4. \A m \in Node : x.loops[m] > 0 => LoopFits(x, m)
  BY <1>1 DEF FrameFits, LoopFits
<1> QED BY <1>1, <1>2, <1>3, <1>4 DEF FrameFits, x

(* A frame with other loop counters. *)
LEMMA LoopedFrame ==
    ASSUME NEW fr \in Frame, NEW v \in Nat, FrameFits(fr, v),
           NEW loops \in [Node -> Nat],
           \A n \in Node : loops[n] > 0 =>
               /\ NodeIn(fr.flow, n) /\ Def[fr.flow].node[n].kind = "loop"
               /\ loops[n] <= Def[fr.flow].node[n].max
    PROVE  LET x == [fr EXCEPT !.loops = loops]
           IN  x \in Frame /\ x.flow = fr.flow /\ x.node = fr.node /\ x.cont = fr.cont
               /\ x.attempts = fr.attempts /\ At(x) = At(fr) /\ DefOf(x) = DefOf(fr)
               /\ x.loops = loops /\ FrameFits(x, v)
<1> DEFINE x == [fr EXCEPT !.loops = loops]
<1>1. /\ x \in Frame /\ x.flow = fr.flow /\ x.node = fr.node /\ x.cont = fr.cont
      /\ x.loops = loops /\ x.attempts = fr.attempts
  BY DEF Frame
<1> HIDE DEF x
<1>2. At(x) = At(fr) /\ DefOf(x) = DefOf(fr) /\ \A n \in Node : Own(x, n) = Own(fr, n)
  BY <1>1 DEF At, Own, DefOf
<1>3. \A n \in Node : x.loops[n] > 0 => LoopFits(x, n)
  BY <1>1 DEF LoopFits
<1>4. FrameFits(x, v)
  BY <1>1, <1>2, <1>3 DEF FrameFits
<1> QED BY <1>1, <1>2, <1>4 DEF x

LEMMA BlankFrame ==
    ASSUME NEW f \in Flow, NEW cont \in Continuation \cup {None}
    PROVE  At(NewFrame(f, cont)) = None /\ \A v \in Nat : FrameFits(NewFrame(f, cont), v)
<1> DEFINE x == NewFrame(f, cont)
<1>1. x \in Frame /\ x.loops = [n \in Node |-> 0] /\ x.attempts = [n \in Node |-> None]
  BY NewFrameGood DEF NewFrame
<1> HIDE DEF x
<1> QED BY <1>1, FrameTypes DEF FrameFits, x

(* Ids only grow. *)
LEMMA FitsLater ==
    ASSUME NEW fr, NEW v \in Nat, FrameFits(fr, v), NEW w \in Nat, v <= w
    PROVE  FrameFits(fr, w)
BY DEF FrameFits, AttemptFits

-----------------------------------------------------------------------------
(* Stacks: the top frame is replaced, frames are dropped, one is pushed.   *)

LEMMA ReplacedStack ==
    ASSUME NEW s \in Seq(Frame), Linked(s), NEW v \in Nat, NEW w \in Nat, v <= w,
           Stacked(s, v), NEW x \in Frame, NodeIn(x.flow, x.node),
           x.cont = s[Len(s)].cont, FrameFits(x, w),
           At(x) # None => \/ At(s[Len(s)]) # None /\ At(x).inv = At(s[Len(s)]).inv
                           \/ At(x).inv > v
    PROVE  Stacked([s EXCEPT ![Len(s)] = x], w)
<1> DEFINE e == [s EXCEPT ![Len(s)] = x]
<1>1. /\ e \in Seq(Frame) /\ Len(e) = Len(s) /\ e[Len(s)] = x
      /\ \A i \in 1..Len(s) : i # Len(s) => e[i] = s[i]
  BY ReplaceTop
<1>2. Len(s) \in Nat /\ Len(s) \in 1..Len(s)
  BY EmptySeq, LenProperties DEF Linked
<1> HIDE DEF e
<1>3. \A i \in 1..Len(e) : e[i].cont = s[i].cont /\ FrameFits(e[i], w)
  BY <1>1, <1>2, FitsLater DEF Stacked
<1>4. \A i \in 1..(Len(e) - 1) : ParkedOn(e[i], e[i + 1].cont)
  <2> TAKE i \in 1..(Len(e) - 1)
  <2>1. e[i] = s[i] /\ i + 1 \in 1..Len(s) /\ e[i + 1].cont = s[i + 1].cont
    BY <1>1, <1>2, <1>3
  <2>2. ParkedOn(s[i], s[i + 1].cont)
    BY <1>1 DEF Stacked
  <2> QED BY <2>1, <2>2
<1>5. ASSUME NEW i \in 1..Len(e), NEW j \in 1..Len(e), i # j,
             At(e[i]) # None, At(e[j]) # None
      PROVE  At(e[i]).inv # At(e[j]).inv
  <2>1. \A k \in 1..Len(s) : At(s[k]) # None => At(s[k]).inv \in 1..v
    BY DEF Stacked, FrameFits, AttemptFits
  <2>2. \A k, l \in 1..Len(s) : k # l /\ At(s[k]) # None /\ At(s[l]) # None
                                   => At(s[k]).inv # At(s[l]).inv
    BY DEF Stacked
  <2>3. CASE i # Len(s) /\ j # Len(s)
    BY <1>1, <1>5, <2>2, <2>3
  <2>4. CASE i = Len(s)
    BY <1>1, <1>5, <2>1, <2>2, <2>4
  <2>5. CASE j = Len(s)
    BY <1>1, <1>5, <2>1, <2>2, <2>5
  <2> QED BY <2>3, <2>4, <2>5
<1>6. Len(e) <= MaxDepth /\ e[1].cont = None
  BY <1>1, <1>2, <1>3 DEF Stacked
<1> QED BY <1>3, <1>4, <1>5, <1>6 DEF Stacked, e

LEMMA DroppedStack ==
    ASSUME NEW s \in Seq(Frame), Linked(s), NEW v \in Nat, Stacked(s, v),
           NEW i \in 1..Len(s)
    PROVE  Stacked(SubSeq(s, 1, i), v)
<1> DEFINE e == SubSeq(s, 1, i)
<1>1. e \in Seq(Frame) /\ Len(e) = i /\ \A j \in 1..i : e[j] = s[j]
  BY Below
<1>2. Len(s) \in Nat /\ i \in Nat /\ MaxDepth \in Nat
  BY LenProperties, FlowAssumption
<1> HIDE DEF e
<1>3. \A j \in 1..(i - 1) : j + 1 \in 1..i /\ j \in 1..(Len(s) - 1)
  BY <1>2
<1> QED BY <1>1, <1>2, <1>3 DEF Stacked, e

LEMMA PushedStack ==
    ASSUME NEW s \in Seq(Frame), Linked(s), NEW v \in Nat, Stacked(s, v),
           Len(s) < MaxDepth, NEW x \in Frame, FrameFits(x, v), At(x) = None,
           ParkedOn(s[Len(s)], x.cont)
    PROVE  Stacked(Append(s, x), v)
<1> DEFINE e == Append(s, x)
<1>1. /\ Len(e) = Len(s) + 1 /\ Len(s) \in Nat
      /\ \A i \in 1..Len(s) : e[i] = s[i]
      /\ e[Len(s) + 1] = x
  BY AppendProperties, LenProperties
<1>2. Len(s) > 0 /\ MaxDepth \in Nat
  BY EmptySeq, LenProperties, FlowAssumption DEF Linked
<1> HIDE DEF e
<1>3. Len(e) <= MaxDepth /\ e[1].cont = None
  BY <1>1, <1>2 DEF Stacked
<1>4. \A i \in 1..Len(e) : FrameFits(e[i], v)
  BY <1>1 DEF Stacked
<1>5. \A i \in 1..(Len(e) - 1) : ParkedOn(e[i], e[i + 1].cont)
  <2> TAKE i \in 1..(Len(e) - 1)
  <2>1. CASE i = Len(s)
    BY <1>1, <1>2, <2>1
  <2>2. CASE i # Len(s)
    BY <1>1, <2>2 DEF Stacked
  <2> QED BY <2>1, <2>2
<1>6. \A i, j \in 1..Len(e) :
         i # j /\ At(e[i]) # None /\ At(e[j]) # None => At(e[i]).inv # At(e[j]).inv
  <2>1. \A i \in 1..Len(e) : At(e[i]) # None => i \in 1..Len(s)
    BY <1>1
  <2> QED BY <1>1, <2>1 DEF Stacked
<1> QED BY <1>3, <1>4, <1>5, <1>6 DEF Stacked, e

-----------------------------------------------------------------------------
(* The attempts of the stack t are among those of s: in the same place,    *)
(* under the same id and number.  One is scheduled or parked only if it    *)
(* was, or if it has started.                                              *)
Inherits(s, t, started) ==
    \A j \in 1..Len(t) : At(t[j]) # None =>
        /\ j \in 1..Len(s) /\ At(s[j]) # None
        /\ t[j].flow = s[j].flow /\ t[j].node = s[j].node
        /\ At(t[j]).inv = At(s[j]).inv /\ At(t[j]).count = At(s[j]).count
        /\ At(t[j]).interruptions = At(s[j]).interruptions
        /\ j < Len(t) \/ At(t[j]).retryAt # None =>
              j < Len(s) \/ At(s[j]).retryAt # None \/ started

LEMMA InheritsAll ==
    ASSUME NEW s \in Seq(Frame), NEW started
    PROVE  Inherits(s, s, started)
BY DEF Inherits

(* The top frame is replaced. *)
LEMMA InheritsReplaced ==
    ASSUME NEW s \in Seq(Frame), Linked(s), NEW x \in Frame,
           NodeIn(x.flow, x.node), x.cont = s[Len(s)].cont, NEW started,
           At(x) # None =>
               LET a == At(s[Len(s)]) IN
               /\ a # None /\ x.flow = s[Len(s)].flow /\ x.node = s[Len(s)].node
               /\ At(x).inv = a.inv /\ At(x).count = a.count
               /\ At(x).interruptions = a.interruptions
               /\ At(x).retryAt # None => a.retryAt # None \/ started
    PROVE  Inherits(s, [s EXCEPT ![Len(s)] = x], started)
<1> DEFINE e == [s EXCEPT ![Len(s)] = x]
<1>1. /\ Len(e) = Len(s) /\ e[Len(s)] = x
      /\ \A i \in 1..Len(s) : i # Len(s) => e[i] = s[i]
  BY ReplaceTop
<1>2. Len(s) \in Nat
  BY LenProperties
<1> HIDE DEF e
<1>3. Inherits(s, e, started)
  <2> SUFFICES ASSUME NEW j \in 1..Len(s), At(e[j]) # None
               PROVE  /\ At(s[j]) # None
                      /\ e[j].flow = s[j].flow /\ e[j].node = s[j].node
                      /\ At(e[j]).inv = At(s[j]).inv /\ At(e[j]).count = At(s[j]).count
                      /\ At(e[j]).interruptions = At(s[j]).interruptions
                      /\ j < Len(s) \/ At(e[j]).retryAt # None =>
                            j < Len(s) \/ At(s[j]).retryAt # None \/ started
    BY <1>1 DEF Inherits
  <2>1. CASE j = Len(s)
    BY <1>1, <1>2, <2>1
  <2>2. CASE j # Len(s)
    BY <1>1, <1>2, <2>2
  <2> QED BY <2>1, <2>2
<1> QED BY <1>3 DEF e

(* Frames are dropped down to a caller: it has been parked.                *)
LEMMA InheritsDropped ==
    ASSUME NEW s \in Seq(Frame), Linked(s), NEW i \in 1..(Len(s) - 1), NEW t, NEW started,
           Inherits(SubSeq(s, 1, i), t, started)
    PROVE  Inherits(s, t, FALSE)
<1> DEFINE b == SubSeq(s, 1, i)
<1>1. Len(s) \in Nat /\ i \in 1..Len(s)
  BY LenProperties
<1>2. Len(b) = i /\ \A j \in 1..i : b[j] = s[j]
  BY <1>1, Below
<1> HIDE DEF b
<1>3. \A j \in 1..i : j \in 1..Len(s) /\ j < Len(s)
  BY <1>1
<1>4. Inherits(b, t, started)
  BY DEF b
<1> QED BY <1>2, <1>3, <1>4 DEF Inherits

(* A frame is pushed on a caller whose attempt has started. *)
LEMMA InheritsPushed ==
    ASSUME NEW s \in Seq(Frame), NEW x \in Frame, At(x) = None
    PROVE  Inherits(s, Append(s, x), TRUE)
<1> DEFINE e == Append(s, x)
<1>1. /\ Len(e) = Len(s) + 1 /\ Len(s) \in Nat
      /\ \A i \in 1..Len(s) : e[i] = s[i]
      /\ e[Len(s) + 1] = x
  BY AppendProperties, LenProperties
<1> HIDE DEF e
<1>2. \A j \in 1..Len(e) : At(e[j]) # None => j \in 1..Len(s)
  BY <1>1
<1>3. Inherits(s, e, TRUE)
  BY <1>1, <1>2 DEF Inherits
<1> QED BY <1>3 DEF e

(* What a stack hands on depends on its attempts alone. *)
LEMMA InheritsThrough ==
    ASSUME NEW s, NEW u, NEW t, NEW started, Inherits(u, t, started), Len(u) = Len(s),
           \A j \in 1..Len(s) : /\ u[j].flow = s[j].flow /\ u[j].node = s[j].node
                                /\ At(u[j]) = At(s[j])
    PROVE  Inherits(s, t, started)
BY DEF Inherits

-----------------------------------------------------------------------------
(* The operations documents are made with. *)

LEMMA FittedTop ==
    ASSUME NEW r, Fitted(r)
    PROVE  /\ r \in RunState /\ r.frames \in Seq(Frame) /\ Linked(r.frames)
           /\ r.invocation \in Nat /\ Depth(r) \in Nat /\ Depth(r) > 0
           /\ Depth(r) = Len(r.frames) /\ Top(r) = r.frames[Len(r.frames)]
           /\ Top(r) \in Frame /\ FrameFits(Top(r), r.invocation)
           /\ NodeIn(Top(r).flow, Top(r).node) /\ Top(r).flow \in Flow /\ Top(r).node \in Node
           /\ DefOf(Top(r)) \in NodeDefs /\ WellFormed(Top(r).flow, DefOf(Top(r)))
           /\ At(Top(r)) \in Attempt \cup {None}
           /\ Depth(r) <= MaxDepth
<1>1. Good(r)
  BY DEF Fitted
<1>2. r \in RunState /\ r.frames \in Seq(Frame) /\ Linked(r.frames) /\ r.invocation \in Nat
  BY <1>1 DEF Good, RunState
<1>3. /\ Depth(r) \in Nat /\ Depth(r) > 0 /\ Top(r) \in Frame
      /\ NodeIn(Top(r).flow, Top(r).node)
  BY <1>1, TopFrame
<1>4. FrameFits(Top(r), r.invocation) /\ Depth(r) <= MaxDepth
  BY <1>3 DEF Fitted, Stacked, Top, Depth
<1> QED BY <1>1, <1>2, <1>3, <1>4, TopDef, FrameTypes DEF Depth, Top

LEMMA IdleFitted ==
    ASSUME NEW r, Fitted(r), NEW status \in Status
    PROVE  LET q == Idle(r, status)
           IN  /\ Fitted(q) /\ q.frames = r.frames /\ Top(q) = Top(r) /\ Depth(q) = Depth(r)
               /\ q.status = status /\ q.inFlight = None /\ q.pending = None
               /\ q.invocation = r.invocation /\ q.error = r.error
<1> DEFINE q == Idle(r, status)
<1>1. /\ q.status = status /\ q.inFlight = None /\ q.pending = None
      /\ q.invocation = r.invocation /\ q.error = r.error /\ q.frames = r.frames
  BY FittedTop DEF Idle, RunState
<1>2. Good(q) /\ Top(q) = Top(r) /\ Depth(q) = Depth(r)
  BY IdleGood DEF Fitted
<1> HIDE DEF q
<1>3. Fitted(q)
  BY <1>1, <1>2 DEF Fitted
<1> QED BY <1>1, <1>2, <1>3 DEF q

LEMMA EnteredFitted ==
    ASSUME NEW r, Fitted(r)
    PROVE  LET q == Entered(r)
           IN  /\ Fitted(q) /\ q.frames = r.frames /\ Top(q) = Top(r) /\ Depth(q) = Depth(r)
               /\ q.invocation = r.invocation + 1 /\ q.inFlight = r.inFlight
               /\ q.pending = r.pending /\ q.status = r.status /\ q.error = r.error
<1> DEFINE q == Entered(r)
<1>1. /\ q.frames = r.frames /\ q.invocation = r.invocation + 1 /\ q.inFlight = r.inFlight
      /\ q.pending = r.pending /\ q.status = r.status /\ q.error = r.error
  BY FittedTop DEF Entered, RunState
<1>2. Good(q) /\ Top(q) = Top(r) /\ Depth(q) = Depth(r)
  BY EnteredGood DEF Fitted
<1> HIDE DEF q
<1>3. Stacked(q.frames, q.invocation)
  <2>1. r.invocation \in Nat /\ r.frames \in Seq(Frame) /\ Linked(r.frames)
        /\ Len(r.frames) \in Nat
    BY FittedTop, LenProperties
  <2>2. \A i \in 1..Len(r.frames) : FrameFits(r.frames[i], r.invocation + 1)
    BY <2>1, FitsLater DEF Fitted, Stacked
  <2> QED BY <1>1, <2>2 DEF Fitted, Stacked
<1> QED BY <1>1, <1>2, <1>3 DEF Fitted, q

(* The active frame is replaced by x. *)
LEMMA SetTopFitted ==
    ASSUME NEW r, Fitted(r), NEW x \in Frame, NodeIn(x.flow, x.node),
           x.cont = Top(r).cont, FrameFits(x, r.invocation),
           At(x) # None => At(Top(r)) # None /\ At(x).inv = At(Top(r)).inv
    PROVE  LET q == SetTop(r, x)
           IN  /\ Fitted(q) /\ Top(q) = x /\ Depth(q) = Depth(r)
               /\ q.frames = [r.frames EXCEPT ![Len(r.frames)] = x]
               /\ q.invocation = r.invocation /\ q.inFlight = r.inFlight
               /\ q.pending = r.pending /\ q.status = r.status /\ q.error = r.error
<1> DEFINE q == SetTop(r, x)
           e == [r.frames EXCEPT ![Len(r.frames)] = x]
<1>1. Good(r)
  BY DEF Fitted
<1>2. Good(q) /\ Top(q) = x /\ Depth(q) = Depth(r) /\ q = [r EXCEPT !.frames = e]
  BY <1>1, SetTopGood DEF Depth
<1>3. Stacked(e, r.invocation)
  <2>1. r.frames \in Seq(Frame) /\ Linked(r.frames) /\ r.invocation \in Nat
        /\ Top(r) = r.frames[Len(r.frames)]
    BY FittedTop
  <2> QED BY <2>1, ReplacedStack DEF Fitted
<1> HIDE DEF q, e
<1>4. /\ q.frames = e /\ q.invocation = r.invocation /\ q.inFlight = r.inFlight
      /\ q.pending = r.pending /\ q.status = r.status /\ q.error = r.error
  BY <1>2, FittedTop DEF RunState
<1> QED BY <1>2, <1>3, <1>4 DEF Fitted, q, e

LEMMA UnwindFitted ==
    ASSUME NEW r, Fitted(r), NEW i \in 1..Depth(r)
    PROVE  LET q == UnwindTo(r, i)
           IN  /\ Fitted(q) /\ Top(q) = r.frames[i] /\ Depth(q) = i
               /\ q.frames = SubSeq(r.frames, 1, i)
               /\ q.invocation = r.invocation /\ q.inFlight = None
               /\ q.pending = None /\ q.status = r.status /\ q.error = r.error
<1> DEFINE q == UnwindTo(r, i)
           e == SubSeq(r.frames, 1, i)
<1>1. Good(q) /\ Top(q) = r.frames[i] /\ Depth(q) = i
  BY UnwindGood DEF Fitted
<1>2. /\ q.frames = e /\ q.invocation = r.invocation /\ q.inFlight = None
      /\ q.pending = None /\ q.status = r.status /\ q.error = r.error
  BY FittedTop DEF UnwindTo, Idle, RunState
<1>3. Stacked(e, r.invocation)
  BY FittedTop, DroppedStack DEF Fitted
<1> HIDE DEF q, e
<1> QED BY <1>1, <1>2, <1>3 DEF Fitted, q, e

(* The attempt of the active node waits for nothing any more. *)
LEMMA UnscheduledFitted ==
    ASSUME NEW r, Fitted(r)
    PROVE  LET q == Unscheduled(r)
           IN  /\ Fitted(q) /\ Depth(q) = Depth(r)
               /\ Top(q).flow = Top(r).flow /\ Top(q).node = Top(r).node
               /\ At(Top(q)) # None => At(Top(q)).retryAt = None
               /\ Inherits(r.frames, q.frames, FALSE)
               /\ q.invocation = r.invocation /\ q.inFlight = r.inFlight
               /\ q.pending = r.pending /\ q.status = r.status /\ q.error = r.error
<1> DEFINE q == Unscheduled(r)
           fr == Top(r)
           a == [At(fr) EXCEPT !.retryAt = None]
           x == [fr EXCEPT !.attempts[fr.node] = a]
<1>0. /\ fr \in Frame /\ FrameFits(fr, r.invocation) /\ r.invocation \in Nat
      /\ NodeIn(fr.flow, fr.node) /\ r.frames \in Seq(Frame) /\ Linked(r.frames)
      /\ fr = r.frames[Len(r.frames)] /\ At(fr) \in Attempt \cup {None}
  BY FittedTop
<1>1. CASE At(fr) = None
  <2>1. q = r
    BY <1>1 DEF Unscheduled, At
  <2> QED BY <1>0, <1>1, <2>1, InheritsAll
<1>2. CASE At(fr) # None
  <2>1. a \in Attempt /\ a.retryAt = None /\ a.inv = At(fr).inv /\ a.count = At(fr).count
        /\ a.interruptions = At(fr).interruptions /\ a.deadline = At(fr).deadline
    BY <1>0, <1>2 DEF Attempt, OptTime
  <2>2. DefOf(fr).kind \in RetryKinds /\ AttemptFits(At(fr), DefOf(fr).policy, r.invocation)
    BY <1>0, <1>2 DEF FrameFits
  <2>3. q = SetTop(r, x)
    BY <1>2 DEF Unscheduled, Own, At
  <2> HIDE DEF a
  <2>4. AttemptFits(a, DefOf(fr).policy, r.invocation)
    BY <2>1, <2>2 DEF AttemptFits
  <2>5. /\ x \in Frame /\ x.flow = fr.flow /\ x.node = fr.node /\ x.cont = fr.cont
        /\ At(x) = a /\ FrameFits(x, r.invocation)
    BY <1>0, <2>1, <2>2, <2>4, AttemptedFrame
  <2> HIDE DEF x
  <2>6. Inherits(r.frames, [r.frames EXCEPT ![Len(r.frames)] = x], FALSE)
    BY <1>0, <1>2, <2>1, <2>5, InheritsReplaced
  <2> HIDE DEF q
  <2>7. /\ Fitted(q) /\ Top(q) = x /\ Depth(q) = Depth(r)
        /\ q.frames = [r.frames EXCEPT ![Len(r.frames)] = x]
        /\ q.invocation = r.invocation /\ q.inFlight = r.inFlight
        /\ q.pending = r.pending /\ q.status = r.status /\ q.error = r.error
    BY <1>0, <1>2, <2>1, <2>3, <2>5, SetTopFitted
  <2> QED BY <2>1, <2>5, <2>6, <2>7 DEF q
<1> QED BY <1>1, <1>2

-----------------------------------------------------------------------------
(* What a transition commits. *)

Site(r) == <<Depth(r), Top(r).flow, Top(r).node>>

(* The document q, made from r: nothing is in flight, nothing but a retry  *)
(* is pending.                                                             *)
Outcome(r, q, started) ==
    /\ Sound(q) /\ q.inFlight = None
    /\ q.pending # None => q.pending.reason = "retry"
    /\ q.invocation = r.invocation
    /\ Inherits(r.frames, q.frames, started)

LEMMA CodesPresent == None \notin Codes
BY AbsentAssumption

LEMMA AbortOutcome ==
    ASSUME NEW r, Fitted(r), r.error = None
    PROVE  LET q == Abort(r)
           IN  Outcome(r, q, FALSE) /\ Site(q) = Site(r) /\ q.pending = None
               /\ q.status = "aborted"
<1> DEFINE i == Idle(r, "aborted")
           q == Unscheduled(i)
<1>1. /\ Fitted(i) /\ i.frames = r.frames /\ Top(i) = Top(r) /\ Depth(i) = Depth(r)
      /\ i.status = "aborted" /\ i.inFlight = None /\ i.pending = None
      /\ i.invocation = r.invocation /\ i.error = None
  BY IdleFitted DEF Status
<1> HIDE DEF i
<1>2. /\ Fitted(q) /\ Depth(q) = Depth(i)
      /\ Top(q).flow = Top(i).flow /\ Top(q).node = Top(i).node
      /\ At(Top(q)) # None => At(Top(q)).retryAt = None
      /\ Inherits(i.frames, q.frames, FALSE)
      /\ q.invocation = i.invocation /\ q.inFlight = i.inFlight
      /\ q.pending = i.pending /\ q.status = i.status /\ q.error = i.error
  BY <1>1, UnscheduledFitted
<1>3. Abort(r) = q
  BY DEF Abort, i
<1> HIDE DEF q
<1>4. StatusFits(q)
  BY <1>1, <1>2 DEF StatusFits
<1> QED BY <1>1, <1>2, <1>3, <1>4 DEF Outcome, Sound, Site

LEMMA StopRunOutcome ==
    ASSUME NEW r, Fitted(r), NEW code \in Codes
    PROVE  LET q == StopRun(r, code)
           IN  Outcome(r, q, FALSE) /\ Site(q) = Site(r) /\ q.pending = None
<1> DEFINE i == Idle(r, "error")
           u == Unscheduled(i)
           fr == Top(u)
           loops == [fr.loops EXCEPT ![fr.node] = 0]
           x == [fr EXCEPT !.loops = loops]
           b == IF code = "loop_exhausted" THEN SetTop(u, x) ELSE u
           q == [b EXCEPT !.error = code]
<1>1. /\ Fitted(i) /\ i.frames = r.frames /\ Top(i) = Top(r) /\ Depth(i) = Depth(r)
      /\ i.status = "error" /\ i.inFlight = None /\ i.pending = None
      /\ i.invocation = r.invocation
  BY IdleFitted DEF Status
<1>a. StopRun(r, code) = q
  BY DEF StopRun
<1> HIDE DEF i
<1>2. /\ Fitted(u) /\ Depth(u) = Depth(r)
      /\ fr.flow = Top(r).flow /\ fr.node = Top(r).node
      /\ At(fr) # None => At(fr).retryAt = None
      /\ Inherits(r.frames, u.frames, FALSE)
      /\ u.invocation = r.invocation /\ u.inFlight = None
      /\ u.pending = None /\ u.status = "error"
  BY <1>1, UnscheduledFitted
<1> HIDE DEF u
<1>3. /\ fr \in Frame /\ FrameFits(fr, u.invocation) /\ u.invocation \in Nat
      /\ NodeIn(fr.flow, fr.node) /\ u.frames \in Seq(Frame) /\ Linked(u.frames)
      /\ fr = u.frames[Len(u.frames)]
  BY <1>2, FittedTop
<1>4. /\ x \in Frame /\ x.flow = fr.flow /\ x.node = fr.node /\ x.cont = fr.cont
      /\ At(x) = At(fr) /\ FrameFits(x, u.invocation)
  <2>1. loops \in [Node -> Nat] /\ \A n \in Node : loops[n] > 0 => fr.loops[n] = loops[n] /\ fr.loops[n] > 0
    BY <1>3, FrameTypes
  <2> HIDE DEF loops
  <2>2. \A n \in Node : loops[n] > 0 =>
           /\ NodeIn(fr.flow, n) /\ Def[fr.flow].node[n].kind = "loop"
           /\ loops[n] <= Def[fr.flow].node[n].max
    BY <1>3, <2>1 DEF FrameFits, LoopFits
  <2> QED BY <1>3, <2>1, <2>2, LoopedFrame
<1> HIDE DEF x
<1>5. /\ Fitted(b) /\ Depth(b) = Depth(r)
      /\ Top(b).flow = Top(r).flow /\ Top(b).node = Top(r).node
      /\ At(Top(b)) # None => At(Top(b)).retryAt = None
      /\ Inherits(r.frames, b.frames, FALSE)
      /\ b.invocation = r.invocation /\ b.inFlight = None
      /\ b.pending = None /\ b.status = "error"
  <2>1. CASE code = "loop_exhausted"
    <3> DEFINE c == SetTop(u, x)
    <3>1. /\ Fitted(c) /\ Top(c) = x /\ Depth(c) = Depth(u)
          /\ c.frames = [u.frames EXCEPT ![Len(u.frames)] = x]
          /\ c.invocation = u.invocation /\ c.inFlight = u.inFlight
          /\ c.pending = u.pending /\ c.status = u.status
      BY <1>2, <1>3, <1>4, SetTopFitted
    <3> HIDE DEF c
    <3>2. Len(c.frames) = Len(u.frames) /\ Len(u.frames) \in Nat
          /\ \A j \in 1..Len(u.frames) :
                /\ c.frames[j].flow = u.frames[j].flow /\ c.frames[j].node = u.frames[j].node
                /\ At(c.frames[j]) = At(u.frames[j])
      <4> DEFINE e == [u.frames EXCEPT ![Len(u.frames)] = x]
      <4>1. /\ Len(e) = Len(u.frames) /\ e[Len(u.frames)] = x
            /\ \A j \in 1..Len(u.frames) : j # Len(u.frames) => e[j] = u.frames[j]
        BY <1>3, <1>4, ReplaceTop
      <4> HIDE DEF e
      <4>2. c.frames = e
        BY <3>1 DEF e
      <4> QED BY <1>3, <1>4, <4>1, <4>2, LenProperties
    <3>3. Inherits(r.frames, c.frames, FALSE)
      BY <1>2, <3>2 DEF Inherits
    <3>4. b = c
      BY <2>1 DEF c
    <3> HIDE DEF b
    <3> QED BY <1>2, <1>4, <3>1, <3>3, <3>4
  <2>2. CASE code # "loop_exhausted"
    BY <1>2, <2>2
  <2> QED BY <2>1, <2>2
<1> HIDE DEF b
<1>6. /\ q.frames = b.frames /\ q.invocation = r.invocation /\ q.inFlight = None
      /\ q.pending = None /\ q.status = "error" /\ q.error = code
      /\ Fitted(q) /\ Top(q) = Top(b) /\ Depth(q) = Depth(r)
  <2>1. b \in RunState
    BY <1>5, FittedTop
  <2>2. q \in RunState /\ q.frames = b.frames /\ q.invocation = b.invocation /\ q.inFlight = b.inFlight
        /\ q.pending = b.pending /\ q.status = b.status /\ q.error = code
    BY <2>1 DEF RunState
  <2> HIDE DEF q
  <2>3. Good(q) /\ Top(q) = Top(b) /\ Depth(q) = Depth(b)
    BY <1>5, <2>2, SameFrames DEF Fitted
  <2> QED BY <1>5, <2>2, <2>3 DEF Fitted
<1> HIDE DEF q
<1>7. StatusFits(q)
  BY <1>5, <1>6, CodesPresent DEF StatusFits
<1> QED BY <1>a, <1>5, <1>6, <1>7 DEF Outcome, Sound, Site

LEMMA RouteOutcome ==
    ASSUME NEW r, Fitted(r), r.error = None, NEW n, NodeIn(Top(r).flow, n)
    PROVE  Outcome(r, RouteToOnError(r, n), FALSE) /\ RouteToOnError(r, n).pending = None
<1> DEFINE fr == Top(r)
           x == [fr EXCEPT !.node = n, !.attempts[fr.node] = None]
           b == SetTop(r, x)
           q == Idle(b, "running")
<1>1. /\ fr \in Frame /\ FrameFits(fr, r.invocation) /\ r.invocation \in Nat /\ fr.flow \in Flow
      /\ r.frames \in Seq(Frame) /\ Linked(r.frames) /\ fr = r.frames[Len(r.frames)]
  BY FittedTop
<1>2. n \in Node
  BY <1>1, DefWellFormed
<1>3. RouteToOnError(r, n) = q
  BY DEF RouteToOnError
<1>4. /\ x \in Frame /\ x.flow = fr.flow /\ x.node = n /\ x.cont = fr.cont
      /\ At(x) = None /\ FrameFits(x, r.invocation)
  BY <1>1, <1>2, ClearedFrame
<1> HIDE DEF x
<1>5. /\ Fitted(b) /\ Top(b) = x /\ b.frames = [r.frames EXCEPT ![Len(r.frames)] = x]
      /\ b.invocation = r.invocation /\ b.error = None
  BY <1>1, <1>4, SetTopFitted
<1>6. Inherits(r.frames, b.frames, FALSE)
  BY <1>1, <1>4, <1>5, InheritsReplaced
<1> HIDE DEF b
<1>7. /\ Fitted(q) /\ q.frames = b.frames /\ Top(q) = x
      /\ q.status = "running" /\ q.inFlight = None /\ q.pending = None
      /\ q.invocation = r.invocation /\ q.error = None
  BY <1>5, IdleFitted DEF Status
<1> HIDE DEF q
<1>8. StatusFits(q)
  BY <1>4, <1>7 DEF StatusFits, Terminal
<1> QED BY <1>3, <1>6, <1>7, <1>8 DEF Outcome, Sound

LEMMA DueBefore ==
    ASSUME NEW deadline \in OptTime, NEW t \in Time, NEW delay \in Nat,
           ~Expired(deadline, t, delay)
    PROVE  /\ Later(t, delay) \in Time /\ Later(t, delay) # None
           /\ deadline # None => Later(t, delay) < deadline
<1>1. Horizon \in Nat /\ None \notin Nat
  BY FlowAssumption
<1>2. t \in Nat /\ t <= Horizon
  BY <1>1 DEF Time
<1>3. deadline # None => deadline \in Nat
  BY <1>1 DEF Time, OptTime
<1>4. Later(t, delay) \in Nat /\ Later(t, delay) <= t + delay /\ Later(t, delay) <= Horizon
  BY <1>1, <1>2 DEF Later
<1>5. deadline # None => t + delay < deadline
  BY <1>2, <1>3 DEF Expired
<1> QED BY <1>1, <1>2, <1>3, <1>4, <1>5 DEF Time

(* A retry is scheduled when attempts are left and its time comes before   *)
(* the deadline.                                                           *)
LEMMA ScheduleRetryOutcome ==
    ASSUME NEW r, Fitted(r), r.error = None, At(Top(r)) # None,
           0 < At(Top(r)).count, At(Top(r)).count < DefOf(Top(r)).policy.maxAttempts,
           NEW t \in Time, NEW delay \in Nat, ~Expired(At(Top(r)).deadline, t, delay)
    PROVE  Outcome(r, ScheduleRetry(r, t, delay), TRUE)
<1> DEFINE fr == Top(r)
           at == Later(t, delay)
           a == [At(fr) EXCEPT !.retryAt = at]
           x == [fr EXCEPT !.attempts[fr.node] = a]
           next == SetTop(r, x)
           pending == [node |-> fr.node, reason |-> "retry", deadline |-> None, resumeAt |-> at]
           s == Idle(next, "suspended")
           waiting == [s EXCEPT !.pending = pending]
           idle == Idle(next, "running")
<1>1. /\ fr \in Frame /\ FrameFits(fr, r.invocation) /\ r.invocation \in Nat /\ fr.node \in Node
      /\ NodeIn(fr.flow, fr.node) /\ r.frames \in Seq(Frame) /\ Linked(r.frames)
      /\ fr = r.frames[Len(r.frames)] /\ At(fr) \in Attempt
  BY FittedTop
<1>2. at \in Time /\ at \in OptTime /\ at # None /\ (At(fr).deadline # None => at < At(fr).deadline)
  <2>1. At(fr).deadline \in OptTime
    BY <1>1 DEF Attempt
  <2> QED BY <2>1, DueBefore, TimeTypes
<1>3. ScheduleRetry(r, t, delay) \in {waiting, idle}
  BY DEF ScheduleRetry, Own, At
<1> HIDE DEF at
<1>4. a \in Attempt /\ a.retryAt = at /\ a.inv = At(fr).inv /\ a.count = At(fr).count
      /\ a.interruptions = At(fr).interruptions /\ a.deadline = At(fr).deadline
  BY <1>1, <1>2 DEF Attempt
<1>5. DefOf(fr).kind \in RetryKinds /\ AttemptFits(At(fr), DefOf(fr).policy, r.invocation)
  BY <1>1 DEF FrameFits
<1> HIDE DEF a
<1>6. AttemptFits(a, DefOf(fr).policy, r.invocation)
  BY <1>2, <1>4, <1>5 DEF AttemptFits
<1>7. /\ x \in Frame /\ x.flow = fr.flow /\ x.node = fr.node /\ x.cont = fr.cont
      /\ At(x) = a /\ FrameFits(x, r.invocation)
  BY <1>1, <1>4, <1>5, <1>6, AttemptedFrame
<1> HIDE DEF x
<1>8. /\ Fitted(next) /\ Top(next) = x /\ next.frames = [r.frames EXCEPT ![Len(r.frames)] = x]
      /\ next.invocation = r.invocation /\ next.error = None
  BY <1>1, <1>4, <1>7, SetTopFitted
<1>9. Inherits(r.frames, next.frames, TRUE)
  BY ZenonT(40), <1>1, <1>4, <1>7, <1>8, InheritsReplaced
<1> HIDE DEF next
<1>10. ASSUME NEW status \in {"running", "suspended"}
       PROVE  LET i == Idle(next, status)
              IN  /\ Fitted(i) /\ i.frames = next.frames /\ Top(i) = x
                  /\ i.status = status /\ i.inFlight = None /\ i.pending = None
                  /\ i.invocation = r.invocation /\ i.error = None
  BY <1>8, IdleFitted DEF Status
<1>11. a # None
  BY <1>4, AbsentAssumption
<1>12. Outcome(r, idle, TRUE)
  <2> HIDE DEF idle
  <2>1. /\ Fitted(idle) /\ idle.frames = next.frames /\ Top(idle) = x
        /\ idle.status = "running" /\ idle.inFlight = None /\ idle.pending = None
        /\ idle.invocation = r.invocation /\ idle.error = None
    BY <1>10 DEF idle
  <2>2. StatusFits(idle)
    BY <1>2, <1>4, <1>7, <2>1 DEF StatusFits, Terminal
  <2> QED BY <1>9, <2>1, <2>2 DEF Outcome, Sound
<1>13. Outcome(r, waiting, TRUE)
  <2> HIDE DEF s
  <2>1. /\ Fitted(s) /\ s.frames = next.frames /\ Top(s) = x
        /\ s.status = "suspended" /\ s.inFlight = None
        /\ s.invocation = r.invocation /\ s.error = None /\ s \in RunState
    <3>1. /\ Fitted(s) /\ s.frames = next.frames /\ Top(s) = x
          /\ s.status = "suspended" /\ s.inFlight = None
          /\ s.invocation = r.invocation /\ s.error = None
      BY <1>10 DEF s
    <3> QED BY <3>1, FittedTop
  <2>2. pending \in Pending /\ pending # None /\ pending.node = fr.node /\ pending.reason = "retry"
        /\ pending.deadline = None /\ pending.resumeAt = at
    <3>1. pending \in Pending
      BY <1>1, <1>2 DEF Pending, OptTime
    <3> QED BY <3>1, AbsentAssumption
  <2> HIDE DEF pending
  <2>3. /\ waiting \in RunState /\ waiting.frames = s.frames /\ waiting.status = "suspended"
        /\ waiting.pending = pending /\ waiting.inFlight = None
        /\ waiting.invocation = r.invocation /\ waiting.error = None
    BY <2>1, <2>2 DEF RunState
  <2> HIDE DEF waiting
  <2>4. Good(waiting) /\ Top(waiting) = x
    BY <2>1, <2>3, SameFrames DEF Fitted
  <2>5. Fitted(waiting)
    BY <2>1, <2>3, <2>4 DEF Fitted
  <2>6. StatusFits(waiting)
    BY <1>2, <1>4, <1>7, <1>11, <2>2, <2>3, <2>4 DEF StatusFits, Terminal
  <2> QED BY <1>9, <2>1, <2>2, <2>3, <2>5, <2>6 DEF Outcome, Sound
<1> QED BY <1>3, <1>12, <1>13

(* The nearest caller that takes a failure: its frames hand on less.       *)
LEMMA CallerOutcome ==
    ASSUME NEW r, Fitted(r), NEW i \in 1..(Depth(r) - 1), NEW q, NEW started,
           Outcome(UnwindTo(r, i), q, started)
    PROVE  Outcome(r, q, FALSE)
<1> DEFINE b == UnwindTo(r, i)
<1>1. i \in 1..Depth(r) /\ Depth(r) = Len(r.frames) /\ r.frames \in Seq(Frame)
      /\ Linked(r.frames)
  BY FittedTop
<1>2. b.frames = SubSeq(r.frames, 1, i) /\ b.invocation = r.invocation
  BY <1>1, UnwindFitted
<1>3. Inherits(SubSeq(r.frames, 1, i), q.frames, started)
  BY <1>2 DEF Outcome
<1>4. i \in 1..(Len(r.frames) - 1)
  BY <1>1
<1>5. Inherits(r.frames, q.frames, FALSE)
  BY <1>1, <1>3, <1>4, InheritsDropped
<1> QED BY <1>2, <1>5 DEF Outcome

LEMMA FailRunOutcome ==
    ASSUME NEW r, Fitted(r), r.error = None, NEW code \in Codes, NEW reason,
           NEW t \in Time, NEW d \in [1..Depth(r) -> Delays]
    PROVE  LET q == FailRun(r, code, reason, t, d)
           IN  /\ Outcome(r, q, FALSE)
               /\ code \notin WalkCodes => Site(q) = Site(r) /\ q.pending = None
<1> DEFINE handlers == Handlers(r, code, reason, t, d)
           i == CHOOSE h \in handlers : \A o \in handlers : o <= h
           cont == r.frames[i + 1].cont
           below == UnwindTo(r, i)
<1>1. /\ Depth(r) \in Nat /\ Depth(r) > 0 /\ r.frames \in Seq(Frame) /\ Linked(r.frames)
      /\ Depth(r) = Len(r.frames)
  BY FittedTop
<1>2. CASE handlers = {}
  BY <1>2, StopRunOutcome DEF FailRun
<1>3. CASE handlers # {}
  <2>1. handlers \subseteq 1..(Depth(r) - 1) /\ code \in WalkCodes
    BY <1>3 DEF Handlers
  <2>2. \E m \in handlers : \A o \in handlers : o <= m
    <3> HIDE DEF handlers
    <3>1. Depth(r) - 1 \in Nat
      BY <1>1
    <3> QED BY <3>1, <1>3, <2>1, HighestExists
  <2>3. i \in handlers
    BY <2>2
  <2>4. i \in 1..(Depth(r) - 1) /\ i \in 1..Depth(r) /\ i \in Nat
    BY <1>1, <2>1, <2>3
  <2>5. /\ CallerRetries(r, i, code, reason, t, d[i]) \/ cont.onError # None
        /\ LinkOK(r.frames[i], cont)
    BY <1>1, <2>3, <2>4 DEF Handlers, Linked
  <2>a. ParkedOn(r.frames[i], cont)
    BY <1>1, <2>4 DEF Fitted, Stacked
  <2>b. FailRun(r, code, reason, t, d) = IF CallerRetries(r, i, code, reason, t, d[i])
                                         THEN ScheduleRetry(below, t, d[i])
                                         ELSE RouteToOnError(below, cont.onError)
    BY <1>3 DEF FailRun
  <2>c. d[i] \in Nat
    BY <2>4, TimeTypes
  <2> HIDE DEF i
  <2>6. Fitted(below) /\ Top(below) = r.frames[i] /\ below.error = None
    BY <2>4, UnwindFitted
  <2>7. CASE CallerRetries(r, i, code, reason, t, d[i])
    <3> DEFINE a == At(Top(below))
    <3>1. /\ a # None /\ a.count < DefOf(Top(below)).policy.maxAttempts
          /\ ~Expired(a.deadline, t, d[i])
      BY <2>5, <2>6, <2>7 DEF CallerRetries, LinkOK, At
    <3>2. 0 < a.count
      BY <2>6, <2>a, <3>1 DEF ParkedOn
    <3> HIDE DEF below, a
    <3>3. Outcome(below, ScheduleRetry(below, t, d[i]), TRUE)
      BY <2>6, <2>c, <3>1, <3>2, ScheduleRetryOutcome DEF a
    <3>4. Outcome(r, ScheduleRetry(below, t, d[i]), FALSE)
      BY <2>4, <3>3, CallerOutcome DEF below
    <3> QED BY <2>1, <2>7, <2>b, <3>4
  <2>8. CASE ~CallerRetries(r, i, code, reason, t, d[i])
    <3>1. NodeIn(Top(below).flow, cont.onError)
      BY <2>5, <2>6, <2>8 DEF LinkOK
    <3> HIDE DEF below
    <3>2. Outcome(below, RouteToOnError(below, cont.onError), FALSE)
      BY <2>6, <3>1, RouteOutcome
    <3>3. Outcome(r, RouteToOnError(below, cont.onError), FALSE)
      BY <2>4, <3>2, CallerOutcome DEF below
    <3> QED BY <2>1, <2>8, <2>b, <3>3
  <2> QED BY <2>7, <2>8
<1> QED BY <1>2, <1>3

LEMMA FailNodeOutcome ==
    ASSUME NEW r, Fitted(r), r.error = None, NEW reason,
           NEW t \in Time, NEW d \in [1..Depth(r) -> Delays]
    PROVE  Outcome(r, FailNode(r, reason, t, d), FALSE)
<1>1. CASE DefOf(Top(r)).onError # None
  <2>1. NodeIn(Top(r).flow, DefOf(Top(r)).onError)
    BY <1>1, OnErrorTarget DEF Fitted
  <2> QED BY <1>1, <2>1, RouteOutcome DEF FailNode
<1>2. CASE DefOf(Top(r)).onError = None
  BY <1>2, FailRunOutcome DEF FailNode, Codes, WalkCodes
<1> QED BY <1>1, <1>2

LEMMA FailReferenceOutcome ==
    ASSUME NEW r, Fitted(r), r.error = None, NEW code \in ReferenceCodes,
           NEW t \in Time, NEW d \in [1..Depth(r) -> Delays]
    PROVE  Outcome(r, FailReference(r, code, t, d), FALSE)
<1>1. CASE DefOf(Top(r)).onError # None
  <2>1. NodeIn(Top(r).flow, DefOf(Top(r)).onError)
    BY <1>1, OnErrorTarget DEF Fitted
  <2> QED BY <1>1, <2>1, RouteOutcome DEF FailReference
<1>2. CASE DefOf(Top(r)).onError = None
  <2>1. code \in Codes
    BY DEF ReferenceCodes, Codes, WalkCodes
  <2> QED BY <1>2, <2>1, FailRunOutcome DEF FailReference
<1> QED BY <1>1, <1>2

(* The next document the loop commits after r.  Unless it drew an id, the  *)
(* place of a node without retries is still the same.                      *)
Follows(r, q, started) ==
    /\ Sound(q) /\ q.inFlight = None
    /\ q.pending # None => q.pending.reason = "retry"
    /\ q.invocation \in {r.invocation, r.invocation + 1}
    /\ Inherits(r.frames, q.frames, started)
    /\ q.invocation = r.invocation /\ DefOf(Top(r)).kind \notin RetryKinds /\ r.pending = None
          => Site(q) = Site(r) /\ q.pending = None

LEMMA ReasonsPresent == "total_timeout" # None /\ "non_retryable" # None /\ "attempts" # None
BY AbsentAssumption DEF Reasons

LEMMA HandleNodeErrorFollows ==
    ASSUME NEW r0, Fitted(r0), r0.error = None, NEW resumed \in BOOLEAN, NEW err \in Errors,
           NEW t \in Time, NEW d \in [1..Depth(r0) -> Delays], NEW started \in BOOLEAN,
           At(Top(r0)) # None => At(Top(r0)).count > 0,
           resumed => r0.pending # None, err = "retryable" => started
    PROVE  Follows(r0, HandleNodeError(r0, resumed, err, t, d), started)
<1> DEFINE def == DefOf(Top(r0))
           r == IF def.kind \in RetryKinds \/ resumed THEN r0 ELSE Entered(r0)
           a == Own(Top(r), Top(r).node)
           delay == d[Depth(r)]
           reason == StopReason(a, def.policy, err = "retryable", t, delay)
           idle == [r EXCEPT !.inFlight = None]
           q == HandleNodeError(r0, resumed, err, t, d)
<1>1. /\ Fitted(r) /\ r.frames = r0.frames /\ Top(r) = Top(r0) /\ Depth(r) = Depth(r0)
      /\ r.invocation \in {r0.invocation, r0.invocation + 1} /\ r.error = None
      /\ r.invocation = r0.invocation => def.kind \in RetryKinds \/ r0.pending # None
  <2>1. CASE def.kind \in RetryKinds \/ resumed
    BY <2>1
  <2>2. CASE ~(def.kind \in RetryKinds \/ resumed)
    <3>1. r = Entered(r0)
      BY <2>2
    <3>2. r0.invocation + 1 # r0.invocation
      BY FittedTop
    <3> HIDE DEF r
    <3> QED BY <3>1, <3>2, EnteredFitted
  <2> QED BY <2>1, <2>2
<1>2. q = IF err \in RunCodes THEN FailRun(r, err, None, t, d)
          ELSE IF err \in ReferenceCodes /\ IsReference(def) THEN FailReference(r, err, t, d)
          ELSE IF a = None THEN FailNode(r, "non_retryable", t, d)
          ELSE IF reason # None THEN FailNode(idle, reason, t, d)
          ELSE ScheduleRetry(r, t, delay)
  BY DEF HandleNodeError
<1> HIDE DEF r, q, reason
<1>3. delay \in Nat /\ d \in [1..Depth(r) -> Delays] /\ def \in NodeDefs
  <2>1. Depth(r) \in 1..Depth(r0)
    BY <1>1, FittedTop
  <2> QED BY <1>1, <2>1, TimeTypes, FittedTop
<1>4. Fitted(idle) /\ idle.frames = r.frames /\ Depth(idle) = Depth(r) /\ idle.error = None
      /\ idle.invocation = r.invocation
  <2>1. r \in RunState
    BY <1>1, FittedTop
  <2>2. idle \in RunState /\ idle.frames = r.frames /\ idle.error = None
        /\ idle.invocation = r.invocation
    BY <1>1, <2>1 DEF RunState
  <2> HIDE DEF idle
  <2>3. Good(idle) /\ Depth(idle) = Depth(r)
    BY <1>1, <2>2, SameFrames DEF Fitted
  <2> QED BY <1>1, <2>2, <2>3 DEF Fitted
<1>5. err \in RunCodes => err \in Codes
  BY DEF RunCodes, Codes, WalkCodes
<1>6. ASSUME \/ Outcome(r, q, FALSE) \/ Outcome(idle, q, FALSE)
             \/ Outcome(r, q, TRUE) /\ started
      PROVE  Follows(r0, q, started)
  <2>1. Inherits(r0.frames, q.frames, started)
    BY ZenonT(40), <1>1, <1>4, <1>6 DEF Outcome, Inherits
  <2>2. q.invocation = r.invocation
    BY <1>4, <1>6 DEF Outcome
  <2> QED BY <1>1, <1>6, <2>1, <2>2 DEF Outcome, Follows
<1>7. CASE err \in RunCodes
  <2>1. Outcome(r, q, FALSE)
    BY <1>1, <1>2, <1>3, <1>5, <1>7, FailRunOutcome
  <2> QED BY <1>6, <2>1 DEF q
<1>8. CASE err \notin RunCodes /\ err \in ReferenceCodes /\ IsReference(def)
  <2>1. Outcome(r, q, FALSE)
    BY <1>1, <1>2, <1>3, <1>8, FailReferenceOutcome
  <2> QED BY <1>6, <2>1 DEF q
<1>9. CASE err \notin RunCodes /\ ~(err \in ReferenceCodes /\ IsReference(def))
  <2>1. CASE a = None
    <3>1. Outcome(r, q, FALSE)
      BY <1>1, <1>2, <1>3, <1>9, <2>1, FailNodeOutcome
    <3> QED BY <1>6, <3>1 DEF q
  <2>2. CASE a # None /\ reason # None
    <3>1. q = FailNode(idle, reason, t, d)
      BY <1>2, <1>9, <2>2
    <3> HIDE DEF idle
    <3>2. Outcome(idle, q, FALSE)
      BY <1>3, <1>4, <3>1, FailNodeOutcome
    <3> QED BY <1>6, <3>2 DEF q
  <2>3. CASE a # None /\ reason = None
    <3>1. q = ScheduleRetry(r, t, delay)
      BY <1>2, <1>9, <2>3
    <3>2. a = At(Top(r)) /\ def = DefOf(Top(r))
      BY <1>1 DEF At
    <3>3. /\ err = "retryable" /\ ~(a.count >= def.policy.maxAttempts)
          /\ ~Expired(a.deadline, t, delay)
      <4> HIDE DEF a, delay, def
      <4> QED BY <2>3, ReasonsPresent DEF reason, StopReason
    <3>4. a \in Attempt /\ def.policy \in Policy
      BY <1>1, <1>3, <2>3, <3>2, FittedTop DEF NodeDefs
    <3>5. 0 < a.count /\ a.count < def.policy.maxAttempts
      <4>1. a.count \in Nat /\ def.policy.maxAttempts \in Nat
        BY <3>4 DEF Attempt, Policy
      <4>2. a.count > 0
        BY <1>1, <2>3, <3>2
      <4> QED BY <3>3, <4>1, <4>2
    <3> HIDE DEF a, def, delay
    <3>6. Outcome(r, q, TRUE)
      BY <1>1, <1>3, <2>3, <3>1, <3>2, <3>3, <3>5, ScheduleRetryOutcome
    <3>7. started
      BY <3>3
    <3> QED BY <1>6, <3>6, <3>7 DEF q
  <2> QED BY <2>1, <2>2, <2>3
<1> QED BY <1>7, <1>8, <1>9

-----------------------------------------------------------------------------
(* Results of node code. *)

LoopsFit(f, loops) ==
    \A n \in Node : loops[n] > 0 =>
        /\ NodeIn(f, n) /\ Def[f].node[n].kind = "loop"
        /\ loops[n] <= Def[f].node[n].max

(* A document to be routed: running, idle, without a failure. *)
Ready(r) ==
    /\ Fitted(r) /\ r.status = "running" /\ r.error = None
    /\ r.inFlight = None /\ r.pending = None

LEMMA AppliedReady ==
    ASSUME NEW r, Fitted(r), r.error = None, NEW resumed \in BOOLEAN,
           NEW loops \in [Node -> Nat], LoopsFit(Top(r).flow, loops)
    PROVE  LET q == Applied(r, resumed, loops)
           IN  /\ Ready(q) /\ Depth(q) = Depth(r)
               /\ Top(q).flow = Top(r).flow /\ Top(q).node = Top(r).node
               /\ Top(q).cont = Top(r).cont /\ At(Top(q)) = At(Top(r))
               /\ DefOf(Top(q)) = DefOf(Top(r)) /\ Top(q).loops = loops
               /\ \A t, started : Inherits(q.frames, t, started) => Inherits(r.frames, t, started)
               /\ q.invocation \in {r.invocation, r.invocation + 1}
               /\ q.invocation = r.invocation <=> DefOf(Top(r)).kind \in RetryKinds \/ resumed
<1> DEFINE fr == Top(r)
           e == IF DefOf(fr).kind \in RetryKinds \/ resumed THEN r ELSE Entered(r)
           x == [fr EXCEPT !.loops = loops]
           b == SetTop(e, x)
           q == Idle(b, "running")
<1>0. Applied(r, resumed, loops) = q
  BY DEF Applied
<1>1. /\ Fitted(e) /\ e.frames = r.frames /\ Top(e) = fr /\ Depth(e) = Depth(r)
      /\ e.invocation \in {r.invocation, r.invocation + 1} /\ e.error = None
      /\ e.invocation = r.invocation <=> DefOf(fr).kind \in RetryKinds \/ resumed
  <2>1. CASE DefOf(fr).kind \in RetryKinds \/ resumed
    BY <2>1
  <2>2. CASE ~(DefOf(fr).kind \in RetryKinds \/ resumed)
    <3>1. e = Entered(r)
      BY <2>2
    <3>2. r.invocation + 1 # r.invocation
      BY FittedTop
    <3> HIDE DEF e
    <3> QED BY <2>2, <3>1, <3>2, EnteredFitted
  <2> QED BY <2>1, <2>2
<1> HIDE DEF e
<1>2. /\ fr \in Frame /\ FrameFits(fr, e.invocation) /\ e.invocation \in Nat
      /\ NodeIn(fr.flow, fr.node) /\ r.frames \in Seq(Frame) /\ Linked(r.frames)
      /\ fr = r.frames[Len(r.frames)]
  BY <1>1, FittedTop
<1>3. /\ x \in Frame /\ x.flow = fr.flow /\ x.node = fr.node /\ x.cont = fr.cont
      /\ At(x) = At(fr) /\ DefOf(x) = DefOf(fr) /\ x.loops = loops /\ FrameFits(x, e.invocation)
  BY <1>2, LoopedFrame DEF LoopsFit
<1> HIDE DEF x
<1>4. /\ Fitted(b) /\ Top(b) = x /\ Depth(b) = Depth(r)
      /\ b.frames = [r.frames EXCEPT ![Len(r.frames)] = x]
      /\ b.invocation = e.invocation /\ b.error = None
  BY <1>1, <1>2, <1>3, SetTopFitted
<1>5. Len(b.frames) = Len(r.frames)
      /\ \A j \in 1..Len(r.frames) :
            /\ b.frames[j].flow = r.frames[j].flow /\ b.frames[j].node = r.frames[j].node
            /\ At(b.frames[j]) = At(r.frames[j])
  <2> DEFINE s == [r.frames EXCEPT ![Len(r.frames)] = x]
  <2>1. /\ Len(s) = Len(r.frames) /\ s[Len(r.frames)] = x
        /\ \A j \in 1..Len(r.frames) : j # Len(r.frames) => s[j] = r.frames[j]
    BY <1>2, <1>3, ReplaceTop
  <2>2. b.frames = s
    BY <1>4
  <2> HIDE DEF s, b
  <2> QED BY <1>2, <1>3, <2>1, <2>2
<1> HIDE DEF b
<1>6. /\ Fitted(q) /\ q.frames = b.frames /\ Top(q) = x /\ Depth(q) = Depth(r)
      /\ q.status = "running" /\ q.inFlight = None /\ q.pending = None
      /\ q.invocation = e.invocation /\ q.error = None
  BY <1>4, IdleFitted DEF Status
<1> HIDE DEF q
<1>7. \A t, started : Inherits(q.frames, t, started) => Inherits(r.frames, t, started)
  BY <1>5, <1>6, InheritsThrough
<1> QED BY <1>0, <1>1, <1>3, <1>6, <1>7 DEF Ready

LEMMA MoveOutcome ==
    ASSUME NEW r, Ready(r), NEW n, NodeIn(Top(r).flow, n)
    PROVE  Outcome(r, Move(r, n), FALSE)
<1> DEFINE fr == Top(r)
           x == [fr EXCEPT !.node = n, !.attempts[fr.node] = None]
           q == SetTop(r, x)
<1>1. /\ fr \in Frame /\ FrameFits(fr, r.invocation) /\ r.invocation \in Nat /\ fr.flow \in Flow
      /\ r.frames \in Seq(Frame) /\ Linked(r.frames) /\ fr = r.frames[Len(r.frames)]
  BY FittedTop DEF Ready
<1>2. n \in Node
  BY <1>1, DefWellFormed
<1>3. Move(r, n) = q
  BY DEF Move
<1>4. /\ x \in Frame /\ x.flow = fr.flow /\ x.node = n /\ x.cont = fr.cont
      /\ At(x) = None /\ FrameFits(x, r.invocation)
  BY <1>1, <1>2, ClearedFrame
<1> HIDE DEF x
<1>5. /\ Fitted(q) /\ Top(q) = x /\ q.frames = [r.frames EXCEPT ![Len(r.frames)] = x]
      /\ q.invocation = r.invocation /\ q.error = None /\ q.status = "running"
      /\ q.inFlight = None /\ q.pending = None
  BY <1>1, <1>4, SetTopFitted DEF Ready
<1>6. Inherits(r.frames, q.frames, FALSE)
  BY <1>1, <1>4, <1>5, InheritsReplaced
<1> HIDE DEF q
<1>7. StatusFits(q)
  BY <1>4, <1>5 DEF StatusFits, Terminal
<1> QED BY <1>3, <1>5, <1>6, <1>7 DEF Outcome, Sound

LEMMA PushOutcome ==
    ASSUME NEW r, Ready(r), Depth(r) < MaxDepth, NEW f \in Flow, NEW cont,
           LinkOK(Top(r), cont), ParkedOn(Top(r), cont)
    PROVE  Outcome(r, Push(r, f, cont), TRUE)
<1> DEFINE x == NewFrame(f, cont)
           e == Append(r.frames, x)
           q == Push(r, f, cont)
<1>1. /\ x \in Frame /\ x.cont = cont /\ At(x) = None /\ NodeIn(x.flow, x.node)
      /\ \A v \in Nat : FrameFits(x, v)
  BY NewFrameGood, BlankFrame DEF LinkOK
<1>2. /\ r.frames \in Seq(Frame) /\ Linked(r.frames) /\ r.invocation \in Nat /\ r \in RunState
      /\ Top(r) = r.frames[Len(r.frames)] /\ Depth(r) = Len(r.frames)
  BY FittedTop DEF Ready
<1>3. q = [r EXCEPT !.frames = e]
  BY DEF Push
<1> HIDE DEF x
<1>4. e \in Seq(Frame) /\ Linked(e)
  BY <1>1, <1>2, Above
<1>5. Stacked(e, r.invocation)
  BY <1>1, <1>2, PushedStack DEF Ready, Fitted
<1>6. Inherits(r.frames, e, TRUE)
  BY <1>1, <1>2, InheritsPushed
<1>7. e[Len(e)] = x
  BY <1>1, <1>2, AppendProperties
<1> HIDE DEF e, q
<1>8. /\ q \in RunState /\ q.frames = e /\ q.invocation = r.invocation /\ q.error = None
      /\ q.status = "running" /\ q.inFlight = None /\ q.pending = None
  BY <1>2, <1>3, <1>4 DEF RunState, Ready
<1>9. Fitted(q) /\ Top(q) = x
  BY <1>4, <1>5, <1>7, <1>8 DEF Fitted, Good, Top, Depth
<1>10. StatusFits(q)
  BY <1>1, <1>8, <1>9 DEF StatusFits, Terminal
<1> QED BY <1>6, <1>8, <1>9, <1>10 DEF Outcome, Sound, q

LEMMA ReplaceOutcome ==
    ASSUME NEW r, Ready(r), NEW f \in Flow
    PROVE  Outcome(r, Replace(r, f), FALSE)
<1> DEFINE x == NewFrame(f, Top(r).cont)
           q == SetTop(r, x)
<1>1. /\ Top(r) \in Frame /\ r.invocation \in Nat
      /\ r.frames \in Seq(Frame) /\ Linked(r.frames) /\ Top(r) = r.frames[Len(r.frames)]
  BY FittedTop DEF Ready
<1>2. Top(r).cont \in Continuation \cup {None}
  BY <1>1 DEF Frame
<1>3. /\ x \in Frame /\ x.cont = Top(r).cont /\ At(x) = None /\ NodeIn(x.flow, x.node)
      /\ FrameFits(x, r.invocation)
  BY <1>1, <1>2, NewFrameGood, BlankFrame
<1>4. Replace(r, f) = q
  BY DEF Replace
<1> HIDE DEF x
<1>5. /\ Fitted(q) /\ Top(q) = x /\ q.frames = [r.frames EXCEPT ![Len(r.frames)] = x]
      /\ q.invocation = r.invocation /\ q.error = None /\ q.status = "running"
      /\ q.inFlight = None /\ q.pending = None
  BY <1>3, SetTopFitted DEF Ready
<1>6. Inherits(r.frames, q.frames, FALSE)
  BY <1>1, <1>3, <1>5, InheritsReplaced
<1> HIDE DEF q
<1>7. StatusFits(q)
  BY <1>3, <1>5 DEF StatusFits, Terminal
<1> QED BY <1>4, <1>5, <1>6, <1>7 DEF Outcome, Sound

LEMMA PopOutcome ==
    ASSUME NEW r, Ready(r), Depth(r) > 1
    PROVE  Outcome(r, Pop(r), FALSE)
<1> DEFINE i == Depth(r) - 1
           s == SubSeq(r.frames, 1, i)
           below == [r EXCEPT !.frames = s]
           cont == Top(r).cont
           fr == Top(below)
           x == [fr EXCEPT !.node = cont.returnTo, !.attempts[cont.caller] = None]
           q == SetTop(below, x)
<1>1. /\ Depth(r) \in Nat /\ Depth(r) = Len(r.frames) /\ Top(r) = r.frames[Len(r.frames)]
      /\ r.frames \in Seq(Frame) /\ Linked(r.frames) /\ r.invocation \in Nat /\ r \in RunState
      /\ Stacked(r.frames, r.invocation)
  BY FittedTop DEF Ready, Fitted
<1>2. i \in 1..(Len(r.frames) - 1) /\ i \in 1..Len(r.frames) /\ i + 1 = Len(r.frames)
  BY <1>1
<1>3. Pop(r) = q
  BY DEF Pop
<1> HIDE DEF i
<1>4. /\ s \in Seq(Frame) /\ Linked(s) /\ Len(s) = i /\ s[i] = r.frames[i]
      /\ Stacked(s, r.invocation)
  BY <1>1, <1>2, Below, DroppedStack
<1>5. LinkOK(r.frames[i], cont)
  BY <1>1, <1>2 DEF Linked
<1>6. s = SubSeq(r.frames, 1, i)
  OBVIOUS
<1> HIDE DEF s
<1>7. /\ below \in RunState /\ below.frames = s /\ below.invocation = r.invocation
      /\ below.error = None /\ below.status = "running"
      /\ below.inFlight = None /\ below.pending = None
  BY <1>1, <1>4 DEF RunState, Ready
<1> HIDE DEF below
<1>8. Fitted(below) /\ fr = r.frames[i]
  BY <1>4, <1>7 DEF Fitted, Good, Top, Depth
<1> HIDE DEF cont
<1>9. /\ fr \in Frame /\ FrameFits(fr, r.invocation) /\ fr = s[Len(s)]
      /\ cont.returnTo \in Node /\ NodeIn(fr.flow, cont.returnTo) /\ cont.caller = fr.node
  BY <1>4, <1>5, <1>7, <1>8, FittedTop DEF LinkOK, Continuation
<1> HIDE DEF fr
<1>10. /\ x \in Frame /\ x.flow = fr.flow /\ x.node = cont.returnTo /\ x.cont = fr.cont
       /\ At(x) = None /\ FrameFits(x, r.invocation)
  <2>1. x = [fr EXCEPT !.node = cont.returnTo, !.attempts[fr.node] = None]
    BY <1>9
  <2> HIDE DEF x
  <2> QED BY ZenonT(40), <1>1, <1>9, <2>1, ClearedFrame
<1> HIDE DEF x
<1>11. /\ Fitted(q) /\ Top(q) = x /\ q.frames = [s EXCEPT ![Len(s)] = x]
       /\ q.invocation = r.invocation /\ q.error = None /\ q.status = "running"
       /\ q.inFlight = None /\ q.pending = None
  BY <1>7, <1>8, <1>9, <1>10, SetTopFitted DEF fr
<1>12. Inherits(r.frames, q.frames, FALSE)
  <2>1. Inherits(s, q.frames, FALSE)
    BY <1>4, <1>9, <1>10, <1>11, InheritsReplaced
  <2> QED BY <1>1, <1>2, <1>6, <2>1, InheritsDropped
<1> HIDE DEF q
<1>13. StatusFits(q)
  BY <1>10, <1>11 DEF StatusFits, Terminal
<1> QED BY <1>3, <1>11, <1>12, <1>13 DEF Outcome, Sound

LEMMA EndOutcome ==
    ASSUME NEW r, Ready(r), DefOf(Top(r)).kind = "end"
    PROVE  Outcome(r, End(r), FALSE)
<1>1. CASE Depth(r) > 1
  BY <1>1, PopOutcome DEF End
<1>2. CASE ~(Depth(r) > 1)
  <2> DEFINE q == End(r)
  <2>1. q = [r EXCEPT !.status = "ended"]
    BY <1>2 DEF End
  <2>2. /\ q \in RunState /\ q.frames = r.frames /\ q.invocation = r.invocation
        /\ q.error = None /\ q.status = "ended" /\ q.inFlight = None /\ q.pending = None
    BY <2>1, FittedTop DEF RunState, Ready, Status
  <2> HIDE DEF q
  <2>3. Good(q) /\ Top(q) = Top(r)
    BY <2>2, SameFrames DEF Ready, Fitted
  <2>4. At(Top(r)) = None
    BY FittedTop DEF Ready, FrameFits, RetryKinds
  <2>5. Fitted(q) /\ StatusFits(q)
    BY <2>2, <2>3, <2>4 DEF Ready, Fitted, StatusFits
  <2>6. Inherits(r.frames, q.frames, FALSE)
    BY <2>2, FittedTop, InheritsAll DEF Ready
  <2> QED BY <2>2, <2>5, <2>6 DEF Outcome, Sound, q
<1> QED BY <1>1, <1>2

LEMMA SuspendSound ==
    ASSUME NEW r, Ready(r), DefOf(Top(r)).kind = "input", NEW deadline \in OptTime
    PROVE  LET q == Suspend(r, deadline)
           IN  /\ Sound(q) /\ q.frames = r.frames /\ q.invocation = r.invocation
               /\ Site(q) = Site(r) /\ q.inFlight = None
               /\ q.pending # None /\ q.pending.reason = "suspend" /\ At(Top(q)) = None
<1> DEFINE pending == [node |-> Top(r).node, reason |-> "suspend",
                       deadline |-> deadline, resumeAt |-> None]
           q == Suspend(r, deadline)
<1>1. pending \in Pending /\ pending.node = Top(r).node /\ pending.reason = "suspend"
      /\ pending.resumeAt = None
  BY FittedTop DEF Ready, Pending, OptTime
<1>2. q = [r EXCEPT !.status = "suspended", !.pending = pending]
  BY DEF Suspend
<1> HIDE DEF pending
<1>3. /\ q \in RunState /\ q.frames = r.frames /\ q.invocation = r.invocation
      /\ q.error = None /\ q.status = "suspended" /\ q.inFlight = None /\ q.pending = pending
  <2>1. r \in RunState /\ r.error = None /\ r.inFlight = None
    BY FittedTop DEF Ready
  <2> HIDE DEF q
  <2> QED BY <1>1, <1>2, <2>1 DEF RunState, Status
<1> HIDE DEF q
<1>4. Good(q) /\ Top(q) = Top(r) /\ Depth(q) = Depth(r)
  BY <1>3, SameFrames DEF Ready, Fitted
<1>5. At(Top(r)) = None /\ pending # None
  BY <1>1, FittedTop, AbsentAssumption DEF Ready, FrameFits, RetryKinds
<1>6. Fitted(q) /\ StatusFits(q)
  BY <1>1, <1>3, <1>4, <1>5 DEF Ready, Fitted, StatusFits, Terminal
<1> QED BY <1>1, <1>3, <1>4, <1>5, <1>6 DEF Sound, Site, q

-----------------------------------------------------------------------------
(* Checkpoints. *)

(* The document q has r's stack with another attempt of the active node.   *)
Checkpointed(r, q) ==
    /\ q.frames = [r.frames EXCEPT ![Len(r.frames)] = Top(q)]
    /\ Depth(q) = Depth(r) /\ Top(q).flow = Top(r).flow /\ Top(q).node = Top(r).node
    /\ DefOf(Top(q)) = DefOf(Top(r)) /\ At(Top(q)) # None

LEMMA CheckpointFitted ==
    ASSUME NEW r, Fitted(r), NEW q \in RunState, r.invocation <= q.invocation,
           DefOf(Top(r)).kind \in RetryKinds, NEW a \in Attempt,
           AttemptFits(a, DefOf(Top(r)).policy, q.invocation),
           q.frames = [r.frames EXCEPT ![Len(r.frames)] =
                          [Top(r) EXCEPT !.attempts[Top(r).node] = a]],
           \/ At(Top(r)) # None /\ a.inv = At(Top(r)).inv
           \/ a.inv > r.invocation
    PROVE  Fitted(q) /\ Checkpointed(r, q) /\ At(Top(q)) = a
<1> DEFINE fr == Top(r)
           x == [fr EXCEPT !.attempts[fr.node] = a]
           e == [r.frames EXCEPT ![Len(r.frames)] = x]
<1>1. /\ fr \in Frame /\ FrameFits(fr, r.invocation) /\ NodeIn(fr.flow, fr.node)
      /\ r.frames \in Seq(Frame) /\ Linked(r.frames) /\ fr = r.frames[Len(r.frames)]
      /\ r.invocation \in Nat /\ q.invocation \in Nat /\ Stacked(r.frames, r.invocation)
      /\ Depth(r) = Len(r.frames)
  BY FittedTop DEF RunState, Fitted
<1>2. /\ x \in Frame /\ x.flow = fr.flow /\ x.node = fr.node /\ x.cont = fr.cont
      /\ At(x) = a /\ FrameFits(x, q.invocation) /\ DefOf(x) = DefOf(fr)
  BY SMTT(30), <1>1, AttemptedFrame
<1>3. q.frames = e
  OBVIOUS
<1> HIDE DEF x
<1>4. e \in Seq(Frame) /\ Linked(e) /\ Len(e) = Len(r.frames) /\ e[Len(r.frames)] = x
  BY <1>1, <1>2, ReplaceTop
<1>5. Stacked(e, q.invocation)
  BY <1>1, <1>2, ReplacedStack
<1> HIDE DEF e
<1>6. Top(q) = x /\ Depth(q) = Depth(r) /\ Good(q)
  BY <1>1, <1>3, <1>4 DEF Top, Depth, Good
<1>7. Fitted(q)
  BY <1>3, <1>5, <1>6 DEF Fitted
<1>8. a # None
  BY AbsentAssumption
<1> QED BY <1>2, <1>3, <1>6, <1>7, <1>8 DEF Checkpointed, e

(* A run that is neither over nor suspended on an input. *)
LEMMA LiveStatus ==
    ASSUME NEW r, Sound(r), r.status \notin Terminal
    PROVE  /\ r.error = None
           /\ r.pending = None <=> r.status = "running"
           /\ r.pending # None /\ r.pending.reason = "suspend" =>
                 DefOf(Top(r)).kind = "input" /\ At(Top(r)) = None
           /\ r.pending # None /\ r.pending.reason # "suspend" =>
                 At(Top(r)) # None /\ At(Top(r)).retryAt # None
           /\ At(Top(r)) # None => DefOf(Top(r)).kind \in RetryKinds
<1>1. Fitted(r) /\ StatusFits(r)
  BY DEF Sound
<1>2. r.status \in Status /\ r.pending \in Pending \cup {None} /\ FrameFits(Top(r), r.invocation)
  BY <1>1, FittedTop DEF RunState
<1>3. r.pending # None => r.pending.reason \in {"suspend", "retry"}
  BY <1>2 DEF Pending
<1> QED BY <1>1, <1>2, <1>3 DEF StatusFits, Status, Terminal, FrameFits, RetryKinds

LEMMA EnterSound ==
    ASSUME NEW r, Sound(r), r.status \notin Terminal, At(Top(r)) = None,
           DefOf(Top(r)).kind \in RetryKinds, NEW t \in Time
    PROVE  LET q == Enter(r, t)
           IN  /\ Sound(q) /\ Checkpointed(r, q) /\ q.invocation = r.invocation + 1
               /\ q.inFlight = None /\ q.pending = None
               /\ At(Top(q)).inv = r.invocation + 1 /\ At(Top(q)).count = 0
               /\ At(Top(q)).retryAt = None
<1> DEFINE fr == Top(r)
           total == DefOf(fr).policy.total
           deadline == IF total = None THEN None ELSE Later(t, total)
           inv == r.invocation + 1
           a == [inv |-> inv, count |-> 0, interruptions |-> 0,
                 deadline |-> deadline, retryAt |-> None]
           x == [fr EXCEPT !.attempts[fr.node] = a]
           e == [r.frames EXCEPT ![Len(r.frames)] = x]
           steps == r.steps + 1
           q == Enter(r, t)
<1>1. /\ r \in RunState /\ r.invocation \in Nat /\ r.steps \in Nat /\ DefOf(fr).policy \in Policy
      /\ Fitted(r) /\ StatusFits(r)
  BY FittedTop DEF Sound, RunState, NodeDefs
<1>2. r.error = None /\ r.pending = None /\ r.status = "running" /\ r.inFlight = None
  BY <1>1, LiveStatus DEF StatusFits, RetryKinds
<1>3. q = [r EXCEPT !.frames = e, !.steps = steps, !.invocation = inv]
  <2>1. SetTop(r, x) = [r EXCEPT !.frames = e]
    BY DEF SetTop, Depth
  <2>2. q = Entered(SetTop(r, x))
    BY DEF Enter
  <2>3. SetTop(r, x).steps = r.steps /\ SetTop(r, x).invocation = r.invocation
    BY <1>1, <2>1 DEF RunState
  <2> QED BY <1>1, <2>1, <2>2, <2>3 DEF Entered
<1>4. deadline \in OptTime
  <2>1. total \in Nat \cup {None}
    BY <1>1 DEF Policy
  <2> HIDE DEF total
  <2> QED BY <2>1, TimeTypes
<1>5. inv \in Nat /\ inv > r.invocation /\ inv \in 1..inv /\ steps \in Nat
      /\ r.invocation <= inv
  BY <1>1
<1> HIDE DEF deadline
<1>6. a \in Attempt /\ a.inv = inv /\ a.count = 0 /\ a.interruptions = 0 /\ a.retryAt = None
  BY <1>4, <1>5 DEF Attempt, OptTime
<1> HIDE DEF inv, a, steps
<1>7. AttemptFits(a, DefOf(fr).policy, inv)
  BY <1>1, <1>5, <1>6 DEF AttemptFits, Policy
<1>8. e \in Seq(Frame)
  <2>1. x \in Frame
    BY <1>1, <1>6, FittedTop, AttemptFrame
  <2> HIDE DEF x
  <2> QED BY <1>1, <2>1, FittedTop
<1>9. e = [r.frames EXCEPT ![Len(r.frames)] = [Top(r) EXCEPT !.attempts[Top(r).node] = a]]
  OBVIOUS
<1> HIDE DEF e, q
<1>10. /\ q \in RunState /\ q.frames = e /\ q.invocation = inv /\ q.status = "running"
       /\ q.inFlight = None /\ q.pending = None /\ q.error = None
  BY <1>1, <1>2, <1>3, <1>5, <1>8 DEF RunState
<1>11. Fitted(q) /\ Checkpointed(r, q) /\ At(Top(q)) = a
  <2>1. /\ r.invocation <= q.invocation /\ a.inv > r.invocation
        /\ AttemptFits(a, DefOf(Top(r)).policy, q.invocation)
        /\ q.frames = [r.frames EXCEPT ![Len(r.frames)] =
                          [Top(r) EXCEPT !.attempts[Top(r).node] = a]]
    BY <1>5, <1>6, <1>7, <1>9, <1>10
  <2> HIDE DEF x, fr
  <2> QED BY <1>1, <1>6, <1>10, <2>1, CheckpointFitted
<1>12. StatusFits(q)
  BY <1>6, <1>10, <1>11 DEF StatusFits, Terminal
<1> QED BY <1>6, <1>10, <1>11, <1>12 DEF Sound, q, inv

LEMMA InterruptSound ==
    ASSUME NEW r, Sound(r), r.inFlight # None,
           At(Top(r)).interruptions < DefOf(Top(r)).policy.maxInterruptions
    PROVE  LET q == Interrupt(r)
           IN  /\ Sound(q) /\ Checkpointed(r, q) /\ q.invocation = r.invocation
               /\ q.inFlight # None /\ q.pending = None
               /\ At(Top(q)).inv = At(Top(r)).inv /\ At(Top(q)).count = At(Top(r)).count
               /\ At(Top(q)).interruptions = At(Top(r)).interruptions + 1
               /\ At(Top(q)).retryAt = None
<1> DEFINE fr == Top(r)
           n == At(fr).interruptions + 1
           a == [At(fr) EXCEPT !.interruptions = n]
           x == [fr EXCEPT !.attempts[fr.node] = a]
           e == [r.frames EXCEPT ![Len(r.frames)] = x]
           q == Interrupt(r)
<1>1. /\ r \in RunState /\ r.invocation \in Nat /\ DefOf(fr).policy \in Policy
      /\ Fitted(r) /\ StatusFits(r) /\ FrameFits(fr, r.invocation)
      /\ At(fr) \in Attempt \cup {None}
  BY FittedTop DEF Sound, NodeDefs
<1>2. /\ At(fr) # None /\ At(fr).count > 0 /\ At(fr).retryAt = None /\ r.status = "running"
      /\ r.inFlight = [node |-> fr.node, attempt |-> At(fr).count, inv |-> At(fr).inv]
      /\ r.pending = None /\ r.error = None
  BY <1>1 DEF StatusFits, Terminal
<1>3. q = [r EXCEPT !.frames = e]
  BY DEF Interrupt, SetTop, Depth, Own, At
<1>4. /\ DefOf(fr).kind \in RetryKinds /\ AttemptFits(At(fr), DefOf(fr).policy, r.invocation)
      /\ At(fr).interruptions \in Nat /\ At(fr).count \in Nat
  BY <1>1, <1>2 DEF FrameFits, Attempt
<1>5. a \in Attempt /\ a.inv = At(fr).inv /\ a.count = At(fr).count
      /\ a.interruptions = n /\ a.retryAt = None
  <2>1. n \in Nat
    BY <1>4
  <2> HIDE DEF n
  <2> QED BY <1>1, <1>2, <2>1 DEF Attempt
<1>6. AttemptFits(a, DefOf(fr).policy, r.invocation)
  <2>1. n <= DefOf(fr).policy.maxInterruptions
    BY <1>1, <1>4 DEF Policy
  <2> HIDE DEF n, a
  <2> QED BY <1>1, <1>2, <1>4, <1>5, <2>1 DEF AttemptFits
<1> HIDE DEF a
<1>7. e \in Seq(Frame)
  <2>1. x \in Frame
    BY <1>1, <1>5, FittedTop, AttemptFrame
  <2> HIDE DEF x
  <2> QED BY <1>1, <2>1, FittedTop
<1>8. e = [r.frames EXCEPT ![Len(r.frames)] = [Top(r) EXCEPT !.attempts[Top(r).node] = a]]
  OBVIOUS
<1> HIDE DEF e, q, x
<1>9. /\ q \in RunState /\ q.frames = e /\ q.invocation = r.invocation /\ q.status = "running"
      /\ q.inFlight = r.inFlight /\ q.pending = None /\ q.error = None
  BY <1>1, <1>2, <1>3, <1>7 DEF RunState
<1>10. Fitted(q) /\ Checkpointed(r, q) /\ At(Top(q)) = a
  <2>1. /\ r.invocation <= q.invocation /\ At(Top(r)) # None /\ a.inv = At(Top(r)).inv
        /\ AttemptFits(a, DefOf(Top(r)).policy, q.invocation)
        /\ DefOf(Top(r)).kind \in RetryKinds
        /\ q.frames = [r.frames EXCEPT ![Len(r.frames)] =
                          [Top(r) EXCEPT !.attempts[Top(r).node] = a]]
    BY <1>1, <1>2, <1>4, <1>5, <1>6, <1>8, <1>9
  <2>2. Fitted(r) /\ a \in Attempt /\ q \in RunState
    BY <1>1, <1>5, <1>9
  <2> HIDE DEF fr, n
  <2> QED BY <2>1, <2>2, CheckpointFitted
<1>11. StatusFits(q)
  BY <1>2, <1>5, <1>9, <1>10 DEF StatusFits, Terminal, Checkpointed
<1> QED BY <1>5, <1>9, <1>10, <1>11 DEF Sound, q

LEMMA BeginAttemptSound ==
    ASSUME NEW r, Sound(r), r.status \notin Terminal, At(Top(r)) # None,
           At(Top(r)).count < DefOf(Top(r)).policy.maxAttempts
    PROVE  LET q == BeginAttempt(r)
           IN  /\ Sound(q) /\ Checkpointed(r, q) /\ q.invocation = r.invocation
               /\ q.inFlight # None /\ q.pending = None
               /\ At(Top(q)).inv = At(Top(r)).inv
               /\ At(Top(q)).count = At(Top(r)).count + 1
               /\ At(Top(q)).retryAt = None
<1> DEFINE fr == Top(r)
           count == At(fr).count + 1
           a == [At(fr) EXCEPT !.count = count, !.interruptions = 0, !.retryAt = None]
           x == [fr EXCEPT !.attempts[fr.node] = a]
           e == [r.frames EXCEPT ![Len(r.frames)] = x]
           inFlight == [node |-> fr.node, attempt |-> count, inv |-> At(fr).inv]
           q == BeginAttempt(r)
<1>1. /\ r \in RunState /\ r.invocation \in Nat /\ DefOf(fr).policy \in Policy
      /\ Fitted(r) /\ StatusFits(r) /\ FrameFits(fr, r.invocation)
      /\ At(fr) \in Attempt /\ r.error = None /\ fr.node \in Node
  BY FittedTop, LiveStatus DEF Sound, NodeDefs
<1>2. /\ DefOf(fr).kind \in RetryKinds /\ AttemptFits(At(fr), DefOf(fr).policy, r.invocation)
      /\ At(fr).count \in Nat /\ At(fr).inv \in Nat
  BY <1>1 DEF FrameFits, Attempt
<1>3. count \in Nat /\ count > 0 /\ count <= DefOf(fr).policy.maxAttempts
  BY <1>1, <1>2 DEF Policy
<1>4. a \in Attempt /\ a.inv = At(fr).inv /\ a.count = count
      /\ a.interruptions = 0 /\ a.retryAt = None
  <2> HIDE DEF count
  <2> QED BY <1>1, <1>3 DEF Attempt, OptTime
<1>5. q = [r EXCEPT !.frames = e, !.status = "running", !.pending = None, !.inFlight = inFlight]
  <2>1. SetTop(r, x) = [r EXCEPT !.frames = e]
    BY DEF SetTop, Depth
  <2>2. q = [SetTop(r, x) EXCEPT !.status = "running", !.pending = None,
                 !.inFlight = [node |-> fr.node, attempt |-> a.count, inv |-> At(fr).inv]]
    BY DEF BeginAttempt, Own, At
  <2> HIDE DEF a, x, e
  <2> QED BY <1>4, <2>1, <2>2
<1> HIDE DEF count, a
<1>6. AttemptFits(a, DefOf(fr).policy, r.invocation)
  BY <1>1, <1>2, <1>3, <1>4 DEF AttemptFits, Policy
<1>7. inFlight \in InFlight /\ inFlight # None
  <2>1. inFlight \in InFlight
    BY <1>1, <1>2, <1>3 DEF InFlight
  <2> QED BY <2>1, AbsentAssumption
<1>8. e \in Seq(Frame)
  <2>1. x \in Frame
    BY <1>1, <1>4, FittedTop, AttemptFrame
  <2> HIDE DEF x
  <2> QED BY <1>1, <2>1, FittedTop
<1>9. e = [r.frames EXCEPT ![Len(r.frames)] = [Top(r) EXCEPT !.attempts[Top(r).node] = a]]
  OBVIOUS
<1>10. inFlight = [node |-> Top(r).node, attempt |-> a.count, inv |-> a.inv]
  BY <1>4
<1> HIDE DEF e, q, x, inFlight
<1>11. /\ q \in RunState /\ q.frames = e /\ q.invocation = r.invocation /\ q.status = "running"
       /\ q.inFlight = inFlight /\ q.pending = None /\ q.error = None
  BY <1>1, <1>5, <1>7, <1>8 DEF RunState, Status
<1>12. Fitted(q) /\ Checkpointed(r, q) /\ At(Top(q)) = a
  <2>1. /\ r.invocation <= q.invocation /\ At(Top(r)) # None /\ a.inv = At(Top(r)).inv
        /\ AttemptFits(a, DefOf(Top(r)).policy, q.invocation)
        /\ DefOf(Top(r)).kind \in RetryKinds
        /\ q.frames = [r.frames EXCEPT ![Len(r.frames)] =
                          [Top(r) EXCEPT !.attempts[Top(r).node] = a]]
    BY <1>1, <1>2, <1>4, <1>6, <1>9, <1>11
  <2> HIDE DEF fr
  <2> QED BY ZenonT(40), <1>1, <1>4, <1>11, <2>1, CheckpointFitted
<1>13. StatusFits(q)
  BY <1>3, <1>4, <1>7, <1>10, <1>11, <1>12 DEF StatusFits, Terminal, Checkpointed
<1> QED BY <1>4, <1>7, <1>11, <1>12, <1>13 DEF Sound, q, count

LEMMA ResuspendFollows ==
    ASSUME NEW r, Sound(r), r.status \notin Terminal, At(Top(r)) # None,
           At(Top(r)).retryAt # None
    PROVE  Follows(r, Resuspend(r), FALSE)
<1> DEFINE fr == Top(r)
           pending == [node |-> fr.node, reason |-> "retry", deadline |-> None,
                       resumeAt |-> At(fr).retryAt]
           q == Resuspend(r)
<1>1. /\ r \in RunState /\ Fitted(r) /\ StatusFits(r) /\ FrameFits(fr, r.invocation)
      /\ At(fr) \in Attempt /\ r.error = None /\ fr.node \in Node /\ r.inFlight = None
      /\ r.frames \in Seq(Frame)
  BY FittedTop, LiveStatus DEF Sound, StatusFits
<1>2. DefOf(fr).kind \in RetryKinds
  BY <1>1 DEF FrameFits
<1>3. /\ pending \in Pending /\ pending # None /\ pending.node = fr.node
      /\ pending.reason = "retry" /\ pending.deadline = None /\ pending.resumeAt = At(fr).retryAt
  <2>1. pending \in Pending
    BY <1>1 DEF Pending, OptTime, Attempt
  <2> QED BY <2>1, AbsentAssumption
<1>4. q = [r EXCEPT !.status = "suspended", !.pending = pending]
  BY DEF Resuspend, Own, At
<1> HIDE DEF pending, q
<1>5. /\ q \in RunState /\ q.frames = r.frames /\ q.invocation = r.invocation
      /\ q.status = "suspended" /\ q.inFlight = None /\ q.pending = pending /\ q.error = None
  BY <1>1, <1>3, <1>4 DEF RunState, Status
<1>6. Good(q) /\ Top(q) = fr
  BY <1>1, <1>5, SameFrames DEF Fitted
<1>7. Fitted(q) /\ StatusFits(q)
  BY <1>1, <1>3, <1>5, <1>6 DEF Fitted, StatusFits, Terminal
<1>8. Inherits(r.frames, q.frames, FALSE)
  BY <1>1, <1>5, InheritsAll
<1> QED BY <1>2, <1>3, <1>5, <1>7, <1>8 DEF Follows, Sound, q

-----------------------------------------------------------------------------
(* The documents of the runner and of the host, at each place of the loop. *)
DocInv ==
    /\ IInv
    /\ Sound(run) /\ Sound(store)
    /\ pc \notin {"yieldTop", "yieldLaunch"} => store = run
    /\ pc \notin {"down", "yieldTop"} => run.status \notin Terminal
    /\ pc \in {"launch", "yieldLaunch"} => run.inFlight # None
    /\ pc = "sleep" => At(Top(run)) # None /\ At(Top(run)).retryAt # None
    /\ pc = "top" /\ ~recovering => run.inFlight = None
    /\ pc = "yieldTop" => run.inFlight = None
    /\ pc = "exec" /\ DefOf(Top(run)).kind \in RetryKinds => run.inFlight # None

LEMMA ActiveNode == Progress = At(Top(run)) /\ Active = DefOf(Top(run))
BY DEF Progress, Active, At

(* A run the loop works on, with the attempt in flight if there is one. *)
LEMMA LiveRun ==
    ASSUME DocInv, pc \in {"top", "sleep", "launch", "exec"}
    PROVE  /\ Sound(run) /\ Fitted(run) /\ run.error = None /\ run.status \notin Terminal
           /\ now \in Time /\ store = run
           /\ run.inFlight # None => At(Top(run)) # None /\ At(Top(run)).count > 0
                                     /\ At(Top(run)).retryAt = None
           /\ pc = "exec" /\ At(Top(run)) # None => run.inFlight # None
           /\ At(Top(run)) # None => DefOf(Top(run)).kind \in RetryKinds
BY LiveStatus, InvTypes DEF DocInv, Sound, StatusFits

(* The loop commits the next document of the run. *)
Routes ==
    \E q : \E started \in BOOLEAN :
        /\ Commit(q) /\ Follows(run, q, started)
        /\ started => pc = "exec"

LEMMA AbortRoutes ==
    ASSUME DocInv, pc \in {"top", "sleep", "launch", "exec"}, Commit(Abort(run))
    PROVE  Routes
<1> DEFINE q == Abort(run)
<1>1. Outcome(run, q, FALSE) /\ Site(q) = Site(run) /\ q.pending = None
  BY LiveRun, AbortOutcome
<1> HIDE DEF q
<1>2. Follows(run, q, FALSE)
  BY <1>1 DEF Outcome, Follows
<1> QED BY <1>2 DEF Routes, q

(* Failures are routed before and after the node's code runs. *)
LEMMA OutcomeRoutes ==
    ASSUME DocInv, pc \in {"top", "sleep", "launch", "exec"}, NEW q, Commit(q),
           Outcome(run, q, FALSE),
           \/ DefOf(Top(run)).kind \in RetryKinds
           \/ Site(q) = Site(run) /\ q.pending = None
    PROVE  Routes
<1>1. Follows(run, q, FALSE)
  BY DEF Outcome, Follows
<1> QED BY <1>1 DEF Routes

LEMMA ErrorRoutes ==
    ASSUME DocInv, NEW resumed \in BOOLEAN, NEW err \in Errors, NEW d \in DelayChoices,
           resumed => run.pending # None,
           pc = "exec" \/ (pc = "launch" /\ err # "retryable"),
           Commit(HandleNodeError(run, resumed, err, now, d))
    PROVE  Routes
<1> DEFINE q == HandleNodeError(run, resumed, err, now, d)
           started == pc = "exec"
<1>1. Fitted(run) /\ run.error = None /\ now \in Time /\ d \in [1..Depth(run) -> Delays]
  BY LiveRun, InvTypes DEF DocInv
<1>2. At(Top(run)) # None => At(Top(run)).count > 0
  <2>1. At(Top(run)) # None => run.inFlight # None
    BY LiveRun DEF DocInv
  <2> QED BY <2>1, LiveRun
<1>3. started \in BOOLEAN /\ (err = "retryable" => started)
  OBVIOUS
<1> HIDE DEF started
<1>4. Follows(run, q, started)
  BY <1>1, <1>2, <1>3, HandleNodeErrorFollows
<1> HIDE DEF q
<1> QED BY <1>3, <1>4 DEF Routes, q, started

LEMMA FailsRoutes ==
    ASSUME DocInv, pc = "exec", NEW resumed \in BOOLEAN, NEW err \in Errors,
           resumed => run.pending # None, Fails(resumed, err)
    PROVE  Routes
<1>1. PICK d \in DelayChoices : Commit(HandleNodeError(run, resumed, err, now, d))
  BY DEF Fails
<1> QED BY <1>1, ErrorRoutes

LEMMA UnpreparedRoutes ==
    ASSUME DocInv, pc = "exec", Unprepared
    PROVE  Routes
<1>1. PICK err \in {"missing_flow", "invalid_flow", "invalid_input"} : Fails(FALSE, err)
  BY DEF Unprepared
<1> QED BY <1>1, ErrorNames, FailsRoutes

(* A result that is applied and routed. *)
LEMMA ResultRoutes ==
    ASSUME DocInv, pc = "exec", NEW resumed \in BOOLEAN, resumed => run.pending # None,
           NEW loops \in [Node -> Nat], LoopsFit(Top(run).flow, loops),
           NEW q, NEW started \in BOOLEAN,
           Outcome(Applied(run, resumed, loops), q, started), Completes(q)
    PROVE  Routes
<1> DEFINE d == Applied(run, resumed, loops)
<1>1. Fitted(run) /\ run.error = None
  BY LiveRun
<1>2. /\ \A t, s : Inherits(d.frames, t, s) => Inherits(run.frames, t, s)
      /\ d.invocation \in {run.invocation, run.invocation + 1}
      /\ d.invocation = run.invocation <=> DefOf(Top(run)).kind \in RetryKinds \/ resumed
  BY <1>1, AppliedReady
<1> HIDE DEF d
<1>3. Follows(run, q, started)
  BY <1>2 DEF Outcome, Follows, d
<1> QED BY <1>3 DEF Routes, Completes

(* The loop counters a finished node stages. *)
LEMMA StagedLoops ==
    ASSUME DocInv, pc = "exec"
    PROVE  LET n == Top(run).node
               reset == [Loops EXCEPT ![n] = 0]
               bump == [Loops EXCEPT ![n] = @ + 1]
           IN  /\ Loops \in [Node -> Nat] /\ LoopsFit(Top(run).flow, Loops)
               /\ reset \in [Node -> Nat] /\ LoopsFit(Top(run).flow, reset)
               /\ bump \in [Node -> Nat]
               /\ Active.kind = "loop" /\ Loops[n] < Active.max => LoopsFit(Top(run).flow, bump)
<1> DEFINE fr == Top(run)
           n == fr.node
           reset == [Loops EXCEPT ![n] = 0]
           bump == [Loops EXCEPT ![n] = @ + 1]
<1>1. /\ FrameFits(fr, run.invocation) /\ n \in Node /\ NodeIn(fr.flow, n)
      /\ DefOf(fr) \in NodeDefs /\ Active = DefOf(fr)
  BY LiveRun, FittedTop, ActiveNode
<1>2. Loops \in [Node -> Nat] /\ reset \in [Node -> Nat] /\ bump \in [Node -> Nat]
  BY <1>1, LoopsType DEF DocInv
<1>3. LoopsFit(fr.flow, Loops)
  BY <1>1 DEF FrameFits, LoopFits, LoopsFit, Loops
<1> HIDE DEF Loops
<1>4. LoopsFit(fr.flow, reset)
  BY <1>1, <1>2, <1>3 DEF LoopsFit
<1>5. ASSUME Active.kind = "loop", Loops[n] < Active.max PROVE LoopsFit(fr.flow, bump)
  <2>1. Active.max \in Nat /\ Loops[n] \in Nat
    BY <1>1, <1>2 DEF NodeDefs
  <2>2. bump[n] <= DefOf(fr).max
    BY <1>1, <1>2, <1>5, <2>1
  <2>3. \A m \in Node : m # n => bump[m] = Loops[m]
    BY <1>1, <1>2
  <2> HIDE DEF bump
  <2>4. \A m \in Node : bump[m] > 0 =>
           /\ NodeIn(fr.flow, m) /\ Def[fr.flow].node[m].kind = "loop"
           /\ bump[m] <= Def[fr.flow].node[m].max
    <3> SUFFICES ASSUME NEW m \in Node, bump[m] > 0
                 PROVE  /\ NodeIn(fr.flow, m) /\ Def[fr.flow].node[m].kind = "loop"
                        /\ bump[m] <= Def[fr.flow].node[m].max
      OBVIOUS
    <3>1. CASE m = n
      BY <1>1, <1>5, <2>2, <3>1 DEF DefOf
    <3>2. CASE m # n
      BY <1>3, <2>3, <3>2 DEF LoopsFit
    <3> QED BY <3>1, <3>2
  <2> QED BY <2>4 DEF LoopsFit
<1> QED BY <1>2, <1>3, <1>4, <1>5

(* What applying the result leaves to route: the same place. *)
LEMMA StagedReady ==
    ASSUME DocInv, pc = "exec", NEW resumed \in BOOLEAN,
           NEW loops \in [Node -> Nat], LoopsFit(Top(run).flow, loops)
    PROVE  LET d == Applied(run, resumed, loops)
           IN  /\ Ready(d) /\ Depth(d) = Depth(run)
               /\ Top(d).flow = Top(run).flow /\ Top(d).node = Top(run).node
               /\ At(Top(d)) = At(Top(run)) /\ DefOf(Top(d)) = Active
BY LiveRun, AppliedReady, ActiveNode

LEMMA MoveRoutes ==
    ASSUME DocInv, pc = "exec", NEW resumed \in BOOLEAN, resumed => run.pending # None,
           NEW loops \in [Node -> Nat], LoopsFit(Top(run).flow, loops),
           NEW n, NodeIn(Top(run).flow, n), Completes(Move(Applied(run, resumed, loops), n))
    PROVE  Routes
<1> DEFINE d == Applied(run, resumed, loops)
<1>1. Ready(d) /\ NodeIn(Top(d).flow, n)
  BY StagedReady
<1> HIDE DEF d
<1>2. Outcome(d, Move(d, n), FALSE)
  BY <1>1, MoveOutcome
<1>3. Completes(Move(d, n))
  BY DEF d
<1> DEFINE q == Move(d, n)
<1> HIDE DEF q
<1>4. Outcome(Applied(run, resumed, loops), q, FALSE) /\ Completes(q)
  BY <1>2, <1>3 DEF d, q
<1> QED BY <1>4, ResultRoutes

(* The targets a definition names. *)
LEMMA Targets ==
    ASSUME DocInv, pc = "exec"
    PROVE  /\ Active \in NodeDefs /\ Top(run).node \in Node
           /\ NodeIn(Top(run).flow, Top(run).node)
           /\ \A n \in Active.targets : NodeIn(Top(run).flow, n)
           /\ \A n \in {Active.decline, Active.timeoutTo, Active.exhausted} :
                 n # None => NodeIn(Top(run).flow, n)
           /\ Active.onError = None \/ NodeIn(Top(run).flow, Active.onError)
           /\ Active.kind \in {"action", "input", "call"} => NodeIn(Top(run).flow, Active.next)
           /\ Active.kind \in {"call", "goto"} => Active.flow \in Flow
           /\ Active.kind = "loop" => NodeIn(Top(run).flow, Active.exit)
           /\ Active.kind = "loop" /\ Active.flow = None => NodeIn(Top(run).flow, Active.body)
<1>1. /\ Active \in NodeDefs /\ WellFormed(Top(run).flow, Active)
      /\ Top(run).node \in Node /\ NodeIn(Top(run).flow, Top(run).node)
  BY LiveRun, FittedTop, ActiveNode
<1> QED BY <1>1 DEF WellFormed, NodeIn

LEMMA LoopRoutes ==
    ASSUME DocInv, LoopExit \/ LoopExhausted \/ LoopBody
    PROVE  Routes
<1> DEFINE n == Top(run).node
           reset == [Loops EXCEPT ![n] = 0]
           bump == [Loops EXCEPT ![n] = @ + 1]
           cont == [kind |-> "loopBody", caller |-> n, returnTo |-> n, onError |-> None]
<1>1. pc = "exec" /\ Active.kind = "loop"
  BY DEF LoopExit, LoopExhausted, LoopBody, Ran
<1>2. /\ reset \in [Node -> Nat] /\ LoopsFit(Top(run).flow, reset) /\ bump \in [Node -> Nat]
      /\ Loops[n] < Active.max => LoopsFit(Top(run).flow, bump)
      /\ n \in Node
  BY <1>1, StagedLoops, Targets
<1> HIDE DEF reset, bump
<1>3. CASE LoopExit
  <2>1. Completes(Move(Applied(run, FALSE, reset), Active.exit))
    BY <1>3 DEF LoopExit, reset, Done
  <2> QED BY <1>1, <1>2, <2>1, Targets, MoveRoutes
<1>4. CASE LoopExhausted
  <2>1. CASE Active.exhausted = None
    BY <1>1, <1>4, <2>1, ErrorNames, FailsRoutes DEF LoopExhausted
  <2>2. CASE Active.exhausted # None
    <3>1. Completes(Move(Applied(run, FALSE, reset), Active.exhausted))
      BY <1>4, <2>2 DEF LoopExhausted, reset, Done
    <3> QED BY <1>1, <1>2, <2>2, <3>1, Targets, MoveRoutes
  <2> QED BY <2>1, <2>2
<1>5. CASE LoopBody
  <2> DEFINE d == Applied(run, FALSE, bump)
  <2>1. LoopsFit(Top(run).flow, bump)
    BY <1>2, <1>5 DEF LoopBody
  <2>2. CASE Active.flow = None /\ Completes(Move(d, Active.body))
    BY <1>1, <1>2, <2>1, <2>2, Targets, MoveRoutes
  <2>3. CASE Fails(FALSE, "max_depth")
    BY <1>1, <2>3, ErrorNames, FailsRoutes
  <2>4. CASE Unprepared
    BY <1>1, <2>4, UnpreparedRoutes
  <2>5. CASE /\ Active.flow # None /\ Depth(run) < MaxDepth
             /\ Completes(Push(d, Active.flow, cont))
    <3>1. /\ Ready(d) /\ Depth(d) < MaxDepth /\ Top(d).node = n
          /\ Top(d).flow = Top(run).flow /\ At(Top(d)) = At(Top(run))
          /\ DefOf(Top(d)) = Active
      BY <1>1, <1>2, <2>1, <2>5, StagedReady
    <3>2. cont \in Continuation
      BY <1>2 DEF Continuation, OptNode
    <3>3. cont.kind = "loopBody" /\ cont.caller = n /\ cont.returnTo = n /\ cont.onError = None
      OBVIOUS
    <3> HIDE DEF d, cont
    <3>4. LinkOK(Top(d), cont)
      BY <1>1, <3>1, <3>2, <3>3, Targets DEF LinkOK
    <3>5. At(Top(d)) = None
      BY <1>1, <3>1, LiveRun, ActiveNode DEF RetryKinds
    <3>6. ParkedOn(Top(d), cont)
      BY <1>1, <2>5, <3>1, <3>3, <3>5 DEF ParkedOn
    <3>7. Active.flow \in Flow
      BY <1>1, <2>5, Targets DEF NodeDefs
    <3> DEFINE q == Push(d, Active.flow, cont)
    <3>8. Outcome(d, q, TRUE) /\ Completes(q)
      BY <2>5, <3>1, <3>4, <3>6, <3>7, PushOutcome
    <3> HIDE DEF q
    <3> QED BY <1>1, <1>2, <2>1, <3>8, ResultRoutes DEF d
  <2> QED BY <1>5, <2>2, <2>3, <2>4, <2>5 DEF LoopBody, bump, Done
<1> QED BY <1>3, <1>4, <1>5

LEMMA CallRoutes ==
    ASSUME DocInv, FinishCall
    PROVE  Routes
<1> DEFINE cont == [kind |-> "call", caller |-> Top(run).node,
                    returnTo |-> Active.next, onError |-> Active.onError]
           d == Applied(run, FALSE, Loops)
<1>1. pc = "exec" /\ Active.kind = "call"
  BY DEF FinishCall, Ran
<1>2. CASE Fails(FALSE, "max_depth") \/ Fails(FALSE, "plain")
  BY <1>1, <1>2, ErrorNames, FailsRoutes
<1>3. CASE Unprepared
  BY <1>1, <1>3, UnpreparedRoutes
<1>4. CASE Depth(run) < MaxDepth /\ Completes(Push(d, Active.flow, cont))
  <2>1. Loops \in [Node -> Nat] /\ LoopsFit(Top(run).flow, Loops)
    BY <1>1, StagedLoops
  <2>2. /\ Ready(d) /\ Depth(d) < MaxDepth /\ Top(d).node = Top(run).node
        /\ Top(d).flow = Top(run).flow /\ At(Top(d)) = At(Top(run))
        /\ DefOf(Top(d)) = Active
    BY <1>1, <1>4, <2>1, StagedReady
  <2>3. /\ Active.flow \in Flow /\ Active.next \in Node /\ Active.onError \in OptNode
        /\ NodeIn(Top(run).flow, Active.next) /\ Top(run).node \in Node
        /\ Active.onError = None \/ NodeIn(Top(run).flow, Active.onError)
    BY <1>1, Targets, LiveRun, FittedTop, DefWellFormed DEF NodeDefs
  <2>4. cont \in Continuation
    BY <2>3 DEF Continuation
  <2>5. /\ cont.kind = "call" /\ cont.caller = Top(run).node
        /\ cont.returnTo = Active.next /\ cont.onError = Active.onError
    OBVIOUS
  <2> HIDE DEF d, cont
  <2>6. LinkOK(Top(d), cont)
    BY <2>2, <2>3, <2>4, <2>5 DEF LinkOK
  <2>7. At(Top(d)) # None => At(Top(d)).retryAt = None /\ At(Top(d)).count > 0
    BY <1>1, <2>2, LiveRun
  <2>8. ParkedOn(Top(d), cont)
    BY <1>1, <2>2, <2>5, <2>7 DEF ParkedOn
  <2> DEFINE q == Push(d, Active.flow, cont)
  <2>9. Outcome(d, q, TRUE) /\ Completes(q)
    BY <1>4, <2>2, <2>3, <2>6, <2>8, PushOutcome
  <2> HIDE DEF q
  <2> QED BY <1>1, <2>1, <2>9, ResultRoutes DEF d
<1> QED BY <1>2, <1>3, <1>4 DEF FinishCall, Done

LEMMA ResumeRoutes ==
    ASSUME DocInv, FinishResume
    PROVE  Routes
<1> DEFINE target == CASE event = "timeout" -> Active.timeoutTo
                       [] event = "decline" -> Active.decline
                       [] OTHER -> Active.next
<1>1. /\ pc = "exec" /\ Active.kind = "input" /\ run.pending # None
      /\ IF target = None THEN Fails(TRUE, "invalid_suspend")
         ELSE Completes(Move(Applied(run, TRUE, Loops), target))
  <2>1. run.status = "suspended" /\ Sound(run)
    BY DEF FinishResume, Waiting, DocInv
  <2> QED BY <2>1 DEF FinishResume, Ran, Sound, StatusFits
<1>2. CASE target = None
  BY <1>1, <1>2, ErrorNames, FailsRoutes
<1>3. CASE target # None
  <2>1. NodeIn(Top(run).flow, target)
    <3>1. target \in {Active.timeoutTo, Active.decline, Active.next}
      OBVIOUS
    <3> HIDE DEF target
    <3> QED BY <1>1, <1>3, <3>1, Targets
  <2>2. Loops \in [Node -> Nat] /\ LoopsFit(Top(run).flow, Loops)
    BY <1>1, StagedLoops
  <2> HIDE DEF target
  <2> QED BY <1>1, <1>3, <2>1, <2>2, MoveRoutes
<1> QED BY <1>2, <1>3

(* The node's code ends: the result, its failure or the abort is committed,*)
(* unless an input suspends.                                               *)
LEMMA FinishRoutes ==
    ASSUME DocInv, Finish, ~FinishInput
    PROVE  Routes
<1>1. CASE ExecAborted
  BY <1>1, AbortRoutes DEF ExecAborted
<1>2. CASE FinishStep
  <2>1. pc = "exec" /\ Loops \in [Node -> Nat] /\ LoopsFit(Top(run).flow, Loops)
    BY <1>2, StagedLoops DEF FinishStep, Ran
  <2>2. CASE \E n \in Active.targets : Completes(Move(Done(Loops), n))
    <3>1. PICK n \in Active.targets : Completes(Move(Applied(run, FALSE, Loops), n))
      BY <2>2 DEF Done
    <3> QED BY <2>1, <3>1, Targets, MoveRoutes
  <2>3. CASE \E err \in {"invalid_value", "plain"} : Fails(FALSE, err)
    BY <2>1, <2>3, ErrorNames, FailsRoutes
  <2> QED BY <1>2, <2>2, <2>3 DEF FinishStep
<1>3. CASE FinishAction
  <2>1. pc = "exec" /\ Loops \in [Node -> Nat] /\ LoopsFit(Top(run).flow, Loops)
        /\ Active.kind = "action"
    BY <1>3, StagedLoops DEF FinishAction, Ran
  <2>2. CASE Completes(Move(Done(Loops), Active.next))
    BY <2>1, <2>2, Targets, MoveRoutes DEF Done
  <2>3. CASE \E err \in {"invalid_value", "retryable", "plain"} : Fails(FALSE, err)
    BY <2>1, <2>3, ErrorNames, FailsRoutes
  <2> QED BY <1>3, <2>2, <2>3 DEF FinishAction
<1>4. CASE LoopExit \/ LoopExhausted \/ LoopBody
  BY <1>4, LoopRoutes
<1>5. CASE FinishCall
  BY <1>5, CallRoutes
<1>6. CASE FinishGoto
  <2>1. pc = "exec" /\ Loops \in [Node -> Nat] /\ LoopsFit(Top(run).flow, Loops)
        /\ Active.kind = "goto"
    BY <1>6, StagedLoops DEF FinishGoto, Ran
  <2>2. CASE Unprepared
    BY <2>1, <2>2, UnpreparedRoutes
  <2>3. CASE Completes(Replace(Done(Loops), Active.flow))
    <3> DEFINE d == Applied(run, FALSE, Loops)
               q == Replace(d, Active.flow)
    <3>1. Ready(d) /\ Active.flow \in Flow
      BY <2>1, StagedReady, Targets
    <3> HIDE DEF d
    <3>2. Outcome(d, q, FALSE)
      BY <3>1, ReplaceOutcome
    <3>3. Completes(q)
      BY <2>3 DEF Done, d
    <3> HIDE DEF q
    <3> QED BY <2>1, <3>2, <3>3, ResultRoutes DEF d
  <2> QED BY <1>6, <2>2, <2>3 DEF FinishGoto
<1>7. CASE FinishResume
  BY <1>7, ResumeRoutes
<1>8. CASE FinishEnd
  <2>1. pc = "exec" /\ Loops \in [Node -> Nat] /\ LoopsFit(Top(run).flow, Loops)
        /\ Active.kind = "end"
    BY <1>8, StagedLoops DEF FinishEnd, Ran
  <2>2. CASE Completes(End(Done(Loops)))
    <3> DEFINE d == Applied(run, FALSE, Loops)
               q == End(d)
    <3>1. Ready(d) /\ DefOf(Top(d)).kind = "end"
      BY <2>1, StagedReady
    <3> HIDE DEF d
    <3>2. Outcome(d, q, FALSE)
      BY <3>1, EndOutcome
    <3>3. Completes(q)
      BY <2>2 DEF Done, d
    <3> HIDE DEF q
    <3> QED BY <2>1, <3>2, <3>3, ResultRoutes DEF d
  <2>3. CASE Fails(FALSE, "invalid_value")
    BY <2>1, <2>3, ErrorNames, FailsRoutes
  <2> QED BY <1>8, <2>2, <2>3 DEF FinishEnd
<1> QED BY <1>1, <1>2, <1>3, <1>4, <1>5, <1>6, <1>7, <1>8 DEF Finish

(* The turns of the loop that commit without running anything. *)
LEMMA DriveRoutes ==
    ASSUME DocInv, \/ DriveAbort \/ DriveResuspend \/ DriveExpire \/ DriveMaxSteps
                   \/ DriveInterrupted \/ LaunchAborted \/ LaunchLate
    PROVE  Routes
<1>1. CASE DriveAbort \/ LaunchAborted
  BY <1>1, AbortRoutes DEF DriveAbort, LaunchAborted
<1>2. CASE DriveResuspend
  <2> DEFINE q == Resuspend(run)
  <2>1. pc = "top" /\ At(Top(run)) # None /\ At(Top(run)).retryAt # None /\ Commit(q)
    BY <1>2, ActiveNode DEF DriveResuspend, RetryPending
  <2>2. Follows(run, q, FALSE)
    BY <2>1, LiveRun, ResuspendFollows
  <2> HIDE DEF q
  <2> QED BY <2>1, <2>2 DEF Routes
<1>3. CASE DriveExpire \/ DriveInterrupted
  <2>1. pc \in {"top", "sleep"} /\ DefOf(Top(run)).kind \in RetryKinds
    BY <1>3, ActiveNode DEF DriveExpire, DriveInterrupted, AtNode, InTime, Retries
  <2>a. PICK reason \in Reasons : \E d \in DelayChoices : Commit(FailNode(run, reason, now, d))
    BY <1>3 DEF DriveExpire, DriveInterrupted, Reasons
  <2>2. PICK d \in DelayChoices : Commit(FailNode(run, reason, now, d))
    BY <2>a
  <2> DEFINE q == FailNode(run, reason, now, d)
  <2>3. Outcome(run, q, FALSE)
    BY <2>1, LiveRun, InvTypes, FailNodeOutcome DEF DocInv
  <2> HIDE DEF q
  <2> QED BY <2>1, <2>2, <2>3, OutcomeRoutes DEF q
<1>4. CASE DriveMaxSteps
  <2>1. pc \in {"top", "sleep"}
    BY <1>4 DEF DriveMaxSteps, AtNode
  <2>2. PICK d \in DelayChoices : Commit(FailRun(run, "max_steps", None, now, d))
    BY <1>4 DEF DriveMaxSteps
  <2> DEFINE q == FailRun(run, "max_steps", None, now, d)
  <2>3. Outcome(run, q, FALSE) /\ Site(q) = Site(run) /\ q.pending = None
    BY <2>1, LiveRun, InvTypes, FailRunOutcome DEF DocInv, Codes, WalkCodes
  <2> HIDE DEF q
  <2> QED BY <2>1, <2>2, <2>3, OutcomeRoutes DEF q
<1>5. CASE LaunchLate
  <2>1. PICK d \in DelayChoices : Commit(HandleNodeError(run, FALSE, "plain", now, d))
    BY <1>5 DEF LaunchLate
  <2>2. pc = "launch"
    BY <1>5 DEF LaunchLate
  <2> QED BY <2>1, <2>2, ErrorNames, ErrorRoutes
<1> QED BY <1>1, <1>2, <1>3, <1>4, <1>5

(* An input node suspends under the id its entry draws. *)
Suspends(r, q) ==
    /\ Sound(q) /\ q.inFlight = None /\ q.invocation = r.invocation + 1
    /\ q.pending # None /\ q.pending.reason = "suspend" /\ At(Top(q)) = None
    /\ Site(q) = Site(r) /\ Inherits(r.frames, q.frames, TRUE)
    /\ DefOf(Top(r)).kind = "input" /\ r.pending = None

LEMMA InputSuspends ==
    ASSUME DocInv, FinishInput
    PROVE  \E q : Commit(q) /\ Suspends(run, q)
<1> DEFINE deadline == IF Active.timeout = None THEN None ELSE Later(now, Active.timeout)
           d == Applied(run, FALSE, Loops)
           q == Suspend(d, deadline)
<1>1. /\ pc = "exec" /\ Active.kind = "input" /\ ~Waiting /\ Commit(q)
  BY DEF FinishInput, Ran, Completes, Done
<1>2. Active \in NodeDefs /\ Loops \in [Node -> Nat] /\ LoopsFit(Top(run).flow, Loops)
  BY <1>1, StagedLoops, Targets
<1>3. deadline \in OptTime
  <2>1. Active.timeout \in Nat \cup {None} /\ now \in Time
    BY <1>1, <1>2, LiveRun DEF NodeDefs
  <2> QED BY <2>1, TimeTypes
<1>4. run.pending = None
  <2>1. run.status \notin Terminal /\ Sound(run) /\ At(Top(run)) = None
    BY <1>1, LiveRun, ActiveNode DEF RetryKinds
  <2>2. run.pending # None => run.pending.reason = "suspend"
    BY <2>1, LiveStatus
  <2>3. run.pending # None => run.status = "suspended"
    BY <2>1 DEF Sound, StatusFits
  <2> QED BY <1>1, <2>2, <2>3 DEF Waiting
<1> HIDE DEF deadline
<1>5. /\ Ready(d) /\ DefOf(Top(d)).kind = "input" /\ Site(d) = Site(run)
      /\ d.invocation = run.invocation + 1
      /\ \A t, s : Inherits(d.frames, t, s) => Inherits(run.frames, t, s)
  <2>1. Ready(d) /\ DefOf(Top(d)).kind = "input" /\ Site(d) = Site(run)
    BY <1>1, <1>2, StagedReady DEF Site
  <2>2. /\ d.invocation \in {run.invocation, run.invocation + 1}
        /\ d.invocation = run.invocation <=> DefOf(Top(run)).kind \in RetryKinds
        /\ \A t, s : Inherits(d.frames, t, s) => Inherits(run.frames, t, s)
    BY <1>1, <1>2, LiveRun, AppliedReady
  <2>3. DefOf(Top(run)).kind \notin RetryKinds
    BY <1>1, ActiveNode DEF RetryKinds
  <2> QED BY <2>1, <2>2, <2>3
<1> HIDE DEF d
<1>6. /\ Sound(q) /\ q.frames = d.frames /\ q.invocation = d.invocation
      /\ Site(q) = Site(d) /\ q.inFlight = None
      /\ q.pending # None /\ q.pending.reason = "suspend" /\ At(Top(q)) = None
  BY <1>3, <1>5, SuspendSound
<1> HIDE DEF q
<1>7. Inherits(run.frames, q.frames, TRUE)
  <2>1. d.frames \in Seq(Frame)
    BY <1>5, FittedTop DEF Ready
  <2> QED BY <1>5, <1>6, <2>1, InheritsAll
<1>8. Suspends(run, q)
  BY <1>1, <1>4, <1>5, <1>6, <1>7, ActiveNode DEF Suspends
<1> QED BY <1>1, <1>8

-----------------------------------------------------------------------------
(* Every step leaves sound documents. *)

LEMMA InitDoc == Init => DocInv
<1> SUFFICES ASSUME Init PROVE DocInv
  OBVIOUS
<1> DEFINE x == NewFrame(Root, None)
<1>1. /\ InitialRun.frames = <<x>> /\ InitialRun.invocation = 0 /\ InitialRun.status = "running"
      /\ InitialRun.inFlight = None /\ InitialRun.pending = None /\ InitialRun.error = None
  BY DEF InitialRun
<1>2. run = InitialRun /\ store = InitialRun /\ pc = "top" /\ IInv
  BY InitInv DEF Init
<1>3. At(x) = None /\ FrameFits(x, 0) /\ x.cont = None
  BY FlowAssumption, BlankFrame DEF NewFrame
<1> HIDE DEF x
<1>4. Stacked(<<x>>, 0)
  BY <1>3, FlowAssumption DEF Stacked
<1>5. Top(InitialRun) = x
  BY <1>1 DEF Top, Depth
<1>6. Sound(InitialRun)
  BY <1>1, <1>2, <1>3, <1>4, <1>5 DEF Sound, Fitted, StatusFits, Terminal, IInv
<1> QED BY <1>1, <1>2, <1>6 DEF DocInv, Terminal

LEMMA CommitDoc ==
    ASSUME DocInv, IInv', NEW q, Commit(q), Sound(q), q.inFlight = None
    PROVE  DocInv'
BY DEF DocInv, Commit, Yield

LEMMA CheckpointDoc ==
    ASSUME DocInv, IInv', NEW q, Yield(q, "yieldLaunch"), Sound(q), q.inFlight # None
    PROVE  DocInv'
<1>1. q.status = "running"
  BY DEF Sound, StatusFits
<1> QED BY <1>1 DEF DocInv, Yield, Terminal

LEMMA StartDoc ==
    ASSUME DocInv, IInv', NEW inv, NEW attempt, Start(inv, attempt),
           pc \in {"top", "sleep", "launch"},
           DefOf(Top(run)).kind \in RetryKinds => run.inFlight # None
    PROVE  DocInv'
BY DEF DocInv, Start

LEMMA HostDoc ==
    ASSUME DocInv, IInv', \/ Persist \/ Crash \/ Recover \/ AbortRequest \/ Tick
                          \/ \E e \in Events : Resume(e)
    PROVE  DocInv'
<1>1. CASE Persist
  <2>1. /\ store' = run /\ run' = run
        /\ IF run.status \in Final THEN pc' = "down"
           ELSE pc' = (IF pc = "yieldTop" THEN "top" ELSE "launch") /\ recovering' = recovering
        /\ pc \in {"yieldTop", "yieldLaunch"}
    BY <1>1 DEF Persist
  <2> QED BY <2>1 DEF DocInv, Final
<1>2. CASE Crash
  BY <1>2 DEF DocInv, Crash
<1>3. CASE Recover
  BY <1>3 DEF DocInv, Recover, Terminal
<1>4. CASE AbortRequest
  BY <1>4 DEF DocInv, AbortRequest
<1>5. CASE Tick
  BY <1>5 DEF DocInv, Tick
<1>6. CASE \E e \in Events : Resume(e)
  <2>1. pc = "down" /\ pc' = "top" /\ run' = run /\ store' = store /\ store.status = "suspended"
    BY <1>6 DEF Resume
  <2>2. run = store /\ run.inFlight = None
    BY <2>1 DEF DocInv, Sound, StatusFits
  <2> QED BY <2>1, <2>2 DEF DocInv, Terminal
<1> QED BY <1>1, <1>2, <1>3, <1>4, <1>5, <1>6

(* At the node, with nothing to replay, an attempt is fresh or scheduled.  *)
LEMMA AttemptIdle ==
    ASSUME DocInv, AtNode, Progress # None, ~Replaying
    PROVE  /\ run.inFlight = None
           /\ At(Top(run)).retryAt # None \/ At(Top(run)).count = 0
           /\ Progress.count < Active.policy.maxAttempts
<1>1. pc \in {"top", "sleep"} /\ At(Top(run)) # None
  BY ActiveNode DEF AtNode
<1>2. /\ Sound(run) /\ run.status \notin Terminal /\ Fitted(run)
      /\ StatusFits(run) /\ FrameFits(Top(run), run.invocation)
      /\ DefOf(Top(run)) \in NodeDefs
  BY <1>1, LiveRun, FittedTop DEF Sound
<1>3. run.inFlight = None
  <2>1. CASE pc = "sleep"
    BY <1>2, <2>1 DEF DocInv, StatusFits
  <2>2. CASE pc = "top"
    BY <2>2 DEF DocInv, Replaying
  <2> QED BY <1>1, <2>1, <2>2
<1>4. At(Top(run)).retryAt # None \/ At(Top(run)).count = 0
  BY <1>1, <1>2, <1>3, LiveStatus DEF StatusFits
<1>5. DefOf(Top(run)).policy.maxAttempts \in Nat \ {0}
  BY <1>2 DEF NodeDefs, Policy
<1>6. At(Top(run)).count < DefOf(Top(run)).policy.maxAttempts
  BY <1>1, <1>2, <1>4, <1>5 DEF FrameFits, AttemptFits
<1> QED BY <1>3, <1>4, <1>6, ActiveNode

LEMMA NextDoc == DocInv /\ [Next]_vars => DocInv'
<1> SUFFICES ASSUME DocInv, [Next]_vars PROVE DocInv'
  OBVIOUS
<1>1. IInv'
  BY NextInv DEF DocInv
<1>2. CASE Routes
  <2>1. PICK q : Commit(q) /\ \E started \in BOOLEAN : Follows(run, q, started)
    BY <1>2 DEF Routes
  <2> QED BY <1>1, <2>1, CommitDoc DEF Follows
<1>3. CASE FinishInput
  <2>1. PICK q : Commit(q) /\ Suspends(run, q)
    BY <1>3, InputSuspends
  <2> QED BY <1>1, <2>1, CommitDoc DEF Suspends
<1>4. CASE DriveSleep
  BY <1>1, <1>4, ActiveNode DEF DriveSleep, DocInv, RetryPending
<1>5. CASE DriveEnter
  <2>1. /\ pc \in {"top", "sleep"} /\ At(Top(run)) = None /\ DefOf(Top(run)).kind \in RetryKinds
        /\ Commit(Enter(run, now))
    BY <1>5, ActiveNode DEF DriveEnter, AtNode, Retries
  <2> DEFINE q == Enter(run, now)
  <2>2. Sound(q) /\ q.inFlight = None
    BY <2>1, LiveRun, EnterSound
  <2> HIDE DEF q
  <2> QED BY <1>1, <2>1, <2>2, CommitDoc DEF q
<1>6. CASE DriveReplay
  <2>1. /\ pc \in {"top", "sleep"} /\ run.inFlight # None /\ Yield(Interrupt(run), "yieldLaunch")
        /\ At(Top(run)).interruptions < DefOf(Top(run)).policy.maxInterruptions
    BY <1>6, ActiveNode DEF DriveReplay, AtNode, Replaying
  <2> DEFINE q == Interrupt(run)
  <2>2. Sound(q) /\ q.inFlight # None
    BY <2>1, LiveRun, InterruptSound
  <2> HIDE DEF q
  <2> QED BY <1>1, <2>1, <2>2, CheckpointDoc DEF q
<1>7. CASE DriveAttempt
  <2>1. /\ pc \in {"top", "sleep"} /\ At(Top(run)) # None /\ Yield(BeginAttempt(run), "yieldLaunch")
        /\ At(Top(run)).count < DefOf(Top(run)).policy.maxAttempts
    BY <1>7, ActiveNode DEF DriveAttempt, AtNode, InTime
  <2> DEFINE q == BeginAttempt(run)
  <2>2. Sound(q) /\ q.inFlight # None
    BY <2>1, LiveRun, BeginAttemptSound
  <2> HIDE DEF q
  <2> QED BY <1>1, <2>1, <2>2, CheckpointDoc DEF q
<1>8. CASE DriveExecute
  BY <1>1, <1>8, StartDoc, ActiveNode DEF DriveExecute, AtNode, Retries
<1>9. CASE DriveResumed
  <2>1. pc = "top" /\ Waiting /\ Start(run.invocation, 1)
    BY <1>9 DEF DriveResumed
  <2>2. DefOf(Top(run)).kind \notin RetryKinds
    <3>1. run.status = "suspended" /\ run.pending.reason = "suspend" /\ StatusFits(run)
      BY <2>1 DEF Waiting, DocInv, Sound
    <3> QED BY <3>1 DEF StatusFits, RetryKinds
  <2> QED BY <1>1, <2>1, <2>2, StartDoc
<1>10. CASE Launch
  BY <1>1, <1>10, StartDoc DEF Launch, DocInv
<1>11. CASE \/ Persist \/ Crash \/ Recover \/ AbortRequest \/ Tick
            \/ \E e \in Events : Resume(e)
  BY <1>1, <1>11, HostDoc
<1>12. CASE Stopped \/ UNCHANGED vars
  BY <1>1, <1>12 DEF Stopped, vars, DocInv
<1> QED BY <1>2, <1>3, <1>4, <1>5, <1>6, <1>7, <1>8, <1>9, <1>10, <1>11, <1>12,
           DriveRoutes, FinishRoutes DEF Next, Drive

LEMMA SoundDocuments == Spec => []DocInv
BY InitDoc, NextDoc, PTL DEF Spec

-----------------------------------------------------------------------------
(* A sound document is one that resume() and recover() accept. *)

LEMMA SoundStack ==
    ASSUME NEW r, Sound(r)
    PROVE  StackOK(r)
<1>1. /\ Fitted(r) /\ StatusFits(r) /\ Depth(r) = Len(r.frames) /\ Linked(r.frames)
      /\ Stacked(r.frames, r.invocation) /\ Depth(r) \in Nat /\ Depth(r) > 0
      /\ Top(r) = r.frames[Depth(r)] /\ r.invocation \in Nat /\ Depth(r) <= MaxDepth
      /\ r.frames \in Seq(Frame)
  BY FittedTop DEF Sound, Fitted
<1>2. Depth(r) \in 1..MaxDepth
  BY <1>1, FlowAssumption
<1>3. ASSUME NEW i \in 1..Depth(r)
      PROVE  (r.frames[i].cont = None) = (i = 1)
  <2>1. CASE i = 1
    BY <1>1, <2>1 DEF Stacked
  <2>2. CASE i # 1
    <3>1. i - 1 \in 1..(Len(r.frames) - 1) /\ (i - 1) + 1 = i
      BY <1>1, <2>2
    <3>2. LinkOK(r.frames[i - 1], r.frames[(i - 1) + 1].cont)
      BY <1>1, <3>1 DEF Linked
    <3>3. r.frames[i].cont \in Continuation
      BY <3>1, <3>2 DEF LinkOK
    <3> QED BY <2>2, <3>3, AbsentAssumption
  <2> QED BY <2>1, <2>2
<1>4. ASSUME NEW i \in 1..Depth(r), At(r.frames[i]) # None
      PROVE  LET fr == r.frames[i]
                 a == At(fr)
             IN  /\ i < Depth(r) => a.retryAt = None
                 /\ AttemptOK(r, a, DefOf(fr).policy, i = Depth(r))
                 /\ a.inv \in 1..r.invocation
                 /\ \A j \in 1..(i - 1) : At(r.frames[j]) # None => At(r.frames[j]).inv # a.inv
  <2> DEFINE fr == r.frames[i]
             a == At(fr)
  <2>1. AttemptFits(a, DefOf(fr).policy, r.invocation) /\ a \in Attempt
    <3>1. fr \in Frame /\ FrameFits(fr, r.invocation)
      BY <1>1, ElementOfSeq DEF Stacked
    <3> QED BY <1>4, <3>1, FrameTypes DEF FrameFits
  <2>2. i < Depth(r) => a.retryAt = None
    <3>1. i < Depth(r) => i \in 1..(Len(r.frames) - 1)
      BY <1>1
    <3> QED BY <1>1, <1>4, <3>1 DEF Stacked, ParkedOn
  <2>3. i = Depth(r) /\ r.inFlight # None => a.count > 0 /\ a.retryAt = None
    BY <1>1 DEF StatusFits
  <2>4. a.count \in Nat
    BY <2>1 DEF Attempt
  <2>5. \A j \in 1..(i - 1) : j \in 1..Len(r.frames) /\ j # i
    BY <1>1
  <2>6. \A j \in 1..(i - 1) : At(r.frames[j]) # None => At(r.frames[j]).inv # a.inv
    BY <1>1, <1>4, <2>5 DEF Stacked
  <2> HIDE DEF a
  <2>7. AttemptOK(r, a, DefOf(fr).policy, i = Depth(r))
    BY <2>1, <2>3, <2>4 DEF AttemptOK, AttemptFits
  <2> QED BY <2>1, <2>2, <2>6, <2>7 DEF AttemptFits, a
<1>5. \A i \in 1..Depth(r) : \A n \in Node :
         Own(r.frames[i], n) # None => n = r.frames[i].node
  BY <1>1 DEF Stacked, FrameFits
<1> QED BY <1>2, <1>3, <1>4, <1>5 DEF StackOK, At

LEMMA SoundStatus ==
    ASSUME NEW r, Sound(r)
    PROVE  StatusOK(r)
<1>1. StatusFits(r) /\ r \in RunState /\ FrameFits(Top(r), r.invocation)
  BY FittedTop DEF Sound
<1>2. r.pending # None => r.pending.reason \in {"suspend", "retry"}
  BY <1>1 DEF RunState, Pending
<1>3. r.pending # None /\ r.pending.reason # "retry" => At(Top(r)) = None
  BY <1>1 DEF StatusFits, FrameFits, RetryKinds
<1> QED BY <1>1, <1>2, <1>3 DEF StatusFits, StatusOK, Terminal, At

LEMMA SoundShape ==
    ASSUME NEW r, Sound(r)
    PROVE  ShapeOK(r)
<1>1. StatusFits(r) /\ At(Top(r)) \in Attempt \cup {None}
  BY FittedTop DEF Sound
<1>2. At(Top(r)) # None => At(Top(r)).count \in Nat
  BY <1>1 DEF Attempt
<1>3. r.inFlight # None =>
         /\ At(Top(r)) # None /\ r.inFlight.attempt >= 1
         /\ r.inFlight = [node |-> Top(r).node, attempt |-> At(Top(r)).count,
                          inv |-> At(Top(r)).inv]
  <2> SUFFICES ASSUME r.inFlight # None
               PROVE  /\ At(Top(r)) # None /\ r.inFlight.attempt >= 1
                      /\ r.inFlight = [node |-> Top(r).node, attempt |-> At(Top(r)).count,
                                       inv |-> At(Top(r)).inv]
    OBVIOUS
  <2>1. /\ At(Top(r)) # None /\ At(Top(r)).count > 0
        /\ r.inFlight = [node |-> Top(r).node, attempt |-> At(Top(r)).count,
                         inv |-> At(Top(r)).inv]
    BY <1>1 DEF StatusFits
  <2>2. r.inFlight.attempt = At(Top(r)).count
    BY <2>1
  <2> QED BY <1>2, <2>1, <2>2
<1>4. r.pending # None => r.pending.node = Top(r).node
  BY <1>1 DEF StatusFits
<1> QED BY <1>3, <1>4, SoundStack, SoundStatus DEF ShapeOK, At

LEMMA SoundDefinitions ==
    ASSUME NEW r, Sound(r)
    PROVE  FitsDefinitions(r)
<1>1. /\ Fitted(r) /\ Depth(r) = Len(r.frames) /\ Linked(r.frames)
      /\ Stacked(r.frames, r.invocation) /\ Depth(r) \in Nat
  BY FittedTop DEF Sound, Fitted
<1>2. ASSUME NEW i \in 1..Depth(r)
      PROVE  LET fr == r.frames[i]
                 nodes == Def[fr.flow].node
                 def == DefOf(fr)
             IN  /\ fr.node \in DOMAIN nodes
                 /\ Own(fr, fr.node) # None => def.kind \in RetryKinds
                 /\ \A n \in Node : fr.loops[n] > 0 =>
                       n \in DOMAIN nodes /\ nodes[n].kind = "loop" /\ fr.loops[n] <= nodes[n].max
  <2>1. NodeIn(r.frames[i].flow, r.frames[i].node) /\ FrameFits(r.frames[i], r.invocation)
    BY <1>1 DEF Linked, Stacked
  <2> QED BY <2>1 DEF FrameFits, NodeIn, LoopFits, At
<1>3. ASSUME NEW i \in 1..Depth(r), i < Depth(r)
      PROVE  LET fr == r.frames[i]
                 def == DefOf(fr)
                 cont == r.frames[i + 1].cont
             IN  /\ cont.caller = fr.node
                 /\ IF cont.kind = "call"
                    THEN def.kind = "call" /\ cont.returnTo = def.next /\ cont.onError = def.onError
                    ELSE def.kind = "loop" /\ def.flow # None
                         /\ cont.returnTo = fr.node /\ cont.onError = None
  <2>1. i \in 1..(Len(r.frames) - 1)
    BY <1>1, <1>3
  <2>2. LinkOK(r.frames[i], r.frames[i + 1].cont) /\ ParkedOn(r.frames[i], r.frames[i + 1].cont)
    BY <1>1, <2>1 DEF Linked, Stacked
  <2> QED BY <2>2 DEF LinkOK, ParkedOn
<1> QED BY <1>2, <1>3 DEF FitsDefinitions

(* Every document the runner commits, on any path through results,         *)
(* failures, unwinding, retries, crashes and aborts, passes the checks     *)
(* that resume() and recover() make on the document they are handed.       *)
THEOREM Continuable == Spec => []Recoverable
<1>1. DocInv => Recoverable
  BY SoundShape, SoundDefinitions DEF DocInv, Recoverable
<1> QED BY <1>1, SoundDocuments, PTL

(* A scheduled retry can be made, and comes due before the deadline that   *)
(* would cancel it; the loop never reaches a node with its attempts spent. *)
THEOREM RetriesHaveRoom == Spec => []RetryWorthWaiting
<1>1. DocInv => RetryWorthWaiting
  <2> SUFFICES ASSUME DocInv PROVE RetryWorthWaiting
    OBVIOUS
  <2>1. AttemptAvailable
    BY AttemptIdle DEF AttemptAvailable, InTime
  <2>2. ASSUME RetryPending
        PROVE  /\ Progress.count < Active.policy.maxAttempts
               /\ Progress.deadline # None => Progress.retryAt < Progress.deadline
    <3>1. Fitted(run) /\ FrameFits(Top(run), run.invocation)
      BY FittedTop DEF DocInv, Sound
    <3> QED BY <2>2, <3>1, ActiveNode DEF RetryPending, FrameFits, AttemptFits
  <2> QED BY <2>1, <2>2 DEF RetryWorthWaiting
<1> QED BY <1>1, SoundDocuments, PTL

-----------------------------------------------------------------------------
(* The node code started so far, against a document r that may be resumed  *)
(* or replayed: w is the history.                                          *)

(* The latest code under the attempt of fr, the frame at depth i, is this  *)
(* attempt or the one before.                                              *)
AttemptTraced(fr, i, w) ==
    LET a == At(fr) IN
    /\ a.inv \in DOMAIN w =>
          /\ w[a.inv].site = <<i, fr.flow, fr.node>>
          /\ w[a.inv].attempt \in {a.count, a.count - 1}
          /\ w[a.inv].attempt = a.count => w[a.inv].starts <= 1 + a.interruptions
    /\ a.count = 0 => a.inv \notin DOMAIN w

AttemptRan(fr, w) == At(fr).inv \in DOMAIN w /\ w[At(fr).inv].attempt = At(fr).count

(* The id after r's is free, or a node without retries runs under it; a    *)
(* suspended input has run under r's id.                                   *)
Traced(r, w) ==
    /\ DOMAIN w \subseteq 1..(r.invocation + 1)
    /\ r.invocation + 1 \in DOMAIN w =>
          /\ DefOf(Top(r)).kind \notin RetryKinds /\ r.pending = None
          /\ w[r.invocation + 1].site = Site(r) /\ w[r.invocation + 1].attempt = 1
    /\ r.pending # None /\ r.pending.reason = "suspend" =>
          /\ r.invocation \in DOMAIN w
          /\ w[r.invocation].site = Site(r) /\ w[r.invocation].attempt = 1
    /\ \A i \in 1..Depth(r) : At(r.frames[i]) # None =>
          /\ AttemptTraced(r.frames[i], i, w)
          /\ i < Depth(r) \/ At(r.frames[i]).retryAt # None => AttemptRan(r.frames[i], w)

(* The attempts of a stack that inherits are traced. *)
LEMMA InheritedTraced ==
    ASSUME NEW r, Fitted(r), NEW w, Traced(r, w), NEW q, Fitted(q), NEW started,
           Inherits(r.frames, q.frames, started),
           started /\ At(Top(r)) # None => AttemptRan(Top(r), w)
    PROVE  \A i \in 1..Depth(q) : At(q.frames[i]) # None =>
               /\ AttemptTraced(q.frames[i], i, w)
               /\ i < Depth(q) \/ At(q.frames[i]).retryAt # None => AttemptRan(q.frames[i], w)
<1> SUFFICES ASSUME NEW i \in 1..Depth(q), At(q.frames[i]) # None
             PROVE  /\ AttemptTraced(q.frames[i], i, w)
                    /\ i < Depth(q) \/ At(q.frames[i]).retryAt # None
                          => AttemptRan(q.frames[i], w)
  OBVIOUS
<1> DEFINE x == q.frames[i]
           y == r.frames[i]
<1>1. /\ i \in 1..Depth(r) /\ At(y) # None
      /\ x.flow = y.flow /\ x.node = y.node
      /\ At(x).inv = At(y).inv /\ At(x).count = At(y).count
      /\ At(x).interruptions = At(y).interruptions
      /\ i < Depth(q) \/ At(x).retryAt # None =>
            i < Depth(r) \/ At(y).retryAt # None \/ started
  BY FittedTop DEF Inherits
<1>2. AttemptTraced(y, i, w) /\ (i < Depth(r) \/ At(y).retryAt # None => AttemptRan(y, w))
  BY <1>1 DEF Traced
<1>3. i = Depth(r) => y = Top(r)
  BY DEF Top
<1>4. i \in Nat /\ Depth(r) \in Nat /\ i <= Depth(r)
  BY <1>1, FittedTop
<1> HIDE DEF x, y
<1>5. AttemptTraced(x, i, w)
  BY <1>1, <1>2 DEF AttemptTraced
<1>6. i < Depth(q) \/ At(x).retryAt # None => AttemptRan(y, w)
  BY <1>1, <1>2, <1>3, <1>4
<1>7. AttemptRan(y, w) => AttemptRan(x, w)
  BY <1>1 DEF AttemptRan
<1> QED BY <1>5, <1>6, <1>7 DEF x

LEMMA FollowsTraced ==
    ASSUME NEW r, Fitted(r), NEW w, Traced(r, w), NEW started, NEW q, Follows(r, q, started),
           started /\ At(Top(r)) # None => AttemptRan(Top(r), w)
    PROVE  Traced(q, w)
<1>1. Fitted(q) /\ Inherits(r.frames, q.frames, started) /\ r.invocation \in Nat
      /\ q.invocation \in {r.invocation, r.invocation + 1}
      /\ ~(q.pending # None /\ q.pending.reason = "suspend")
  BY FittedTop DEF Follows, Sound
<1>2. DOMAIN w \subseteq 1..(q.invocation + 1)
  BY <1>1 DEF Traced
<1>3. ASSUME q.invocation + 1 \in DOMAIN w
      PROVE  /\ DefOf(Top(q)).kind \notin RetryKinds /\ q.pending = None
             /\ w[q.invocation + 1].site = Site(q) /\ w[q.invocation + 1].attempt = 1
  <2>1. q.invocation = r.invocation
    BY <1>1, <1>3 DEF Traced
  <2>2. /\ DefOf(Top(r)).kind \notin RetryKinds /\ r.pending = None
        /\ w[q.invocation + 1].site = Site(r) /\ w[q.invocation + 1].attempt = 1
    BY <1>3, <2>1 DEF Traced
  <2>3. Site(q) = Site(r) /\ q.pending = None
    BY <2>1, <2>2 DEF Follows
  <2>4. DefOf(Top(q)) = DefOf(Top(r))
    BY <2>3 DEF Site, DefOf
  <2> QED BY <2>2, <2>3, <2>4
<1>4. \A i \in 1..Depth(q) : At(q.frames[i]) # None =>
          /\ AttemptTraced(q.frames[i], i, w)
          /\ i < Depth(q) \/ At(q.frames[i]).retryAt # None => AttemptRan(q.frames[i], w)
  BY <1>1, InheritedTraced
<1> QED BY <1>1, <1>2, <1>3, <1>4 DEF Traced

LEMMA SuspendsTraced ==
    ASSUME NEW r, Fitted(r), NEW w, Traced(r, w), NEW q, Suspends(r, q),
           r.invocation + 1 \in DOMAIN w, At(Top(r)) = None
    PROVE  Traced(q, w)
<1>1. /\ Fitted(q) /\ Inherits(r.frames, q.frames, TRUE) /\ r.invocation \in Nat
      /\ q.invocation = r.invocation + 1 /\ Site(q) = Site(r)
  BY FittedTop DEF Suspends, Sound
<1>2. DOMAIN w \subseteq 1..(q.invocation + 1) /\ q.invocation + 1 \notin DOMAIN w
  BY <1>1 DEF Traced
<1>3. /\ q.invocation \in DOMAIN w
      /\ w[q.invocation].site = Site(q) /\ w[q.invocation].attempt = 1
  BY <1>1 DEF Traced
<1>4. \A i \in 1..Depth(q) : At(q.frames[i]) # None =>
          /\ AttemptTraced(q.frames[i], i, w)
          /\ i < Depth(q) \/ At(q.frames[i]).retryAt # None => AttemptRan(q.frames[i], w)
  BY <1>1, InheritedTraced
<1> QED BY <1>2, <1>3, <1>4 DEF Traced

(* A checkpoint changes the active attempt only. *)
LEMMA CheckpointTraced ==
    ASSUME NEW r, Fitted(r), NEW w, Traced(r, w), NEW q, Fitted(q), Checkpointed(r, q),
           DefOf(Top(r)).kind \in RetryKinds,
           q.invocation \in {r.invocation, r.invocation + 1}, q.pending = None,
           AttemptTraced(Top(q), Depth(q), w), At(Top(q)).retryAt = None
    PROVE  Traced(q, w)
<1>1. /\ r.frames \in Seq(Frame) /\ Linked(r.frames) /\ Depth(r) = Len(r.frames)
      /\ Depth(r) \in Nat /\ Depth(r) > 0 /\ r.invocation \in Nat /\ Top(q) \in Frame
      /\ Depth(q) = Depth(r) /\ Top(q) = q.frames[Depth(q)]
  BY FittedTop DEF Checkpointed
<1>2. \A i \in 1..Depth(r) : i # Depth(r) => q.frames[i] = r.frames[i]
  <2> DEFINE x == Top(q)
  <2>1. q.frames = [r.frames EXCEPT ![Len(r.frames)] = x]
    BY DEF Checkpointed
  <2> HIDE DEF x
  <2> QED BY <1>1, <2>1
<1>3. r.invocation + 1 \notin DOMAIN w
  BY DEF Traced
<1>4. DOMAIN w \subseteq 1..r.invocation
  BY <1>1, <1>3 DEF Traced
<1>5. DOMAIN w \subseteq 1..(q.invocation + 1) /\ q.invocation + 1 \notin DOMAIN w
  BY <1>1, <1>4
<1>6. ASSUME NEW i \in 1..Depth(q), At(q.frames[i]) # None
      PROVE  /\ AttemptTraced(q.frames[i], i, w)
             /\ i < Depth(q) \/ At(q.frames[i]).retryAt # None => AttemptRan(q.frames[i], w)
  <2>1. CASE i = Depth(q)
    BY <1>1, <2>1
  <2>2. CASE i # Depth(q)
    BY <1>1, <1>2, <1>6, <2>2 DEF Traced
  <2> QED BY <2>1, <2>2
<1> QED BY <1>5, <1>6 DEF Traced

-----------------------------------------------------------------------------
(* Node code starts under the id inv: w2 is the history after it. *)
Started(w, w2, inv, site, attempt) ==
    /\ DOMAIN w2 = DOMAIN w \cup {inv}
    /\ \A i \in DOMAIN w : i # inv => w2[i] = w[i]
    /\ w2[inv].site = site /\ w2[inv].attempt = attempt
    /\ w2[inv].starts = IF inv \in DOMAIN w /\ w[inv].attempt = attempt
                        THEN w[inv].starts + 1 ELSE 1

LEMMA StartRecorded ==
    ASSUME NEW inv, NEW attempt, Start(inv, attempt)
    PROVE  Started(work, work', inv, Site(run), attempt)
<1> DEFINE starts == IF inv \in DOMAIN work /\ work[inv].attempt = attempt
                     THEN work[inv].starts + 1 ELSE 1
           entry == [site |-> Site(run), attempt |-> attempt, starts |-> starts]
<1>1. work' = [i \in DOMAIN work \cup {inv} |-> IF i = inv THEN entry ELSE work[i]]
  BY DEF Start, Record, Site
<1>2. entry.site = Site(run) /\ entry.attempt = attempt /\ entry.starts = starts
  OBVIOUS
<1> HIDE DEF entry
<1> QED BY <1>1, <1>2 DEF Started

(* An id goes on naming its entry, and its attempts are counted up. *)
KeysKept(w, w2) ==
    \A i \in DOMAIN w :
        /\ i \in DOMAIN w2 /\ w2[i].site = w[i].site
        /\ w2[i].attempt \in {w[i].attempt, w[i].attempt + 1}

(* The ids of the attempts on a stack are those drawn so far. *)
LEMMA AttemptIds ==
    ASSUME NEW r, Fitted(r), NEW i \in 1..Depth(r), At(r.frames[i]) # None
    PROVE  /\ At(r.frames[i]).inv \in 1..r.invocation /\ At(r.frames[i]) \in Attempt
           /\ DefOf(r.frames[i]).kind \in RetryKinds
<1>1. /\ r.frames \in Seq(Frame) /\ Depth(r) = Len(r.frames)
      /\ Stacked(r.frames, r.invocation)
  BY FittedTop DEF Fitted
<1>2. r.frames[i] \in Frame /\ FrameFits(r.frames[i], r.invocation)
  BY <1>1, ElementOfSeq DEF Stacked
<1> QED BY <1>2, FrameTypes DEF FrameFits, AttemptFits

(* A node without retries starts under the next id. *)
LEMMA ExecuteTraced ==
    ASSUME NEW r, Fitted(r), NEW w, Traced(r, w), NEW w2,
           Started(w, w2, r.invocation + 1, Site(r), 1),
           DefOf(Top(r)).kind \notin RetryKinds, r.pending = None
    PROVE  Traced(r, w2) /\ KeysKept(w, w2)
<1>1. r.invocation \in Nat /\ DOMAIN w \subseteq 1..(r.invocation + 1)
  BY FittedTop DEF Traced
<1>2. DOMAIN w2 \subseteq 1..(r.invocation + 1)
  BY <1>1 DEF Started
<1>3. ASSUME NEW i \in 1..Depth(r), At(r.frames[i]) # None
      PROVE  /\ AttemptTraced(r.frames[i], i, w2)
             /\ i < Depth(r) \/ At(r.frames[i]).retryAt # None => AttemptRan(r.frames[i], w2)
  <2> DEFINE inv == At(r.frames[i]).inv
  <2>1. inv \in 1..r.invocation
    BY <1>3, AttemptIds
  <2>2. inv # r.invocation + 1
    BY <1>1, <2>1
  <2>3. /\ inv \in DOMAIN w2 <=> inv \in DOMAIN w
        /\ inv \in DOMAIN w => w2[inv] = w[inv]
    BY <2>2 DEF Started
  <2>4. /\ AttemptTraced(r.frames[i], i, w)
        /\ i < Depth(r) \/ At(r.frames[i]).retryAt # None => AttemptRan(r.frames[i], w)
    BY <1>3 DEF Traced
  <2> QED BY <2>3, <2>4 DEF AttemptTraced, AttemptRan
<1>4. Traced(r, w2)
  BY <1>2, <1>3 DEF Traced, Started
<1>5. KeysKept(w, w2)
  <2> SUFFICES ASSUME NEW i \in DOMAIN w
               PROVE  /\ i \in DOMAIN w2 /\ w2[i].site = w[i].site
                      /\ w2[i].attempt \in {w[i].attempt, w[i].attempt + 1}
    BY DEF KeysKept
  <2>1. CASE i = r.invocation + 1
    BY <2>1 DEF Traced, Started
  <2>2. CASE i # r.invocation + 1
    BY <2>2 DEF Started
  <2> QED BY <2>1, <2>2
<1> QED BY <1>4, <1>5

(* A suspended input starts again under the id it suspended with. *)
LEMMA ResumedTraced ==
    ASSUME NEW r, Fitted(r), NEW w, Traced(r, w), NEW w2,
           Started(w, w2, r.invocation, Site(r), 1),
           r.pending # None, r.pending.reason = "suspend", At(Top(r)) = None
    PROVE  Traced(r, w2) /\ KeysKept(w, w2)
<1>1. /\ r.invocation \in DOMAIN w /\ r.invocation \in Nat
      /\ w[r.invocation].site = Site(r) /\ w[r.invocation].attempt = 1
      /\ r.invocation + 1 \notin DOMAIN w /\ DOMAIN w \subseteq 1..(r.invocation + 1)
  BY FittedTop DEF Traced
<1>2. DOMAIN w2 = DOMAIN w
  BY <1>1 DEF Started
<1>3. ASSUME NEW i \in 1..Depth(r), At(r.frames[i]) # None
      PROVE  /\ AttemptTraced(r.frames[i], i, w2)
             /\ i < Depth(r) \/ At(r.frames[i]).retryAt # None => AttemptRan(r.frames[i], w2)
  <2> DEFINE inv == At(r.frames[i]).inv
  <2>1. i < Depth(r)
    BY <1>3, FittedTop DEF Top
  <2>2. /\ AttemptTraced(r.frames[i], i, w) /\ AttemptRan(r.frames[i], w)
    BY <1>3, <2>1 DEF Traced
  <2>3. w[inv].site[1] = i /\ Site(r)[1] = Depth(r)
    BY <2>2 DEF AttemptTraced, AttemptRan, Site
  <2>4. inv # r.invocation
    BY <1>1, <2>1, <2>3, FittedTop
  <2>5. inv \in DOMAIN w /\ w2[inv] = w[inv]
    BY <2>2, <2>4 DEF AttemptRan, Started
  <2> QED BY <1>2, <2>2, <2>5 DEF AttemptTraced, AttemptRan
<1>4. Traced(r, w2)
  BY <1>1, <1>2, <1>3 DEF Traced, Started
<1>5. KeysKept(w, w2)
  <2> SUFFICES ASSUME NEW i \in DOMAIN w
               PROVE  /\ i \in DOMAIN w2 /\ w2[i].site = w[i].site
                      /\ w2[i].attempt \in {w[i].attempt, w[i].attempt + 1}
    BY DEF KeysKept
  <2>1. CASE i = r.invocation
    BY <1>1, <2>1 DEF Started
  <2>2. CASE i # r.invocation
    BY <2>2 DEF Started
  <2> QED BY <2>1, <2>2
<1> QED BY <1>4, <1>5

(* The attempt in flight starts: each start of it follows an interruption. *)
LEMMA LaunchTraced ==
    ASSUME NEW r, Sound(r), r.inFlight # None, NEW w, Traced(r, w), NEW w2,
           Started(w, w2, At(Top(r)).inv, Site(r), At(Top(r)).count),
           \A i \in DOMAIN w : w[i].starts \in Nat,
           AttemptRan(Top(r), w) => w[At(Top(r)).inv].starts <= At(Top(r)).interruptions
    PROVE  /\ Traced(r, w2) /\ KeysKept(w, w2) /\ AttemptRan(Top(r), w2)
           /\ w2[At(Top(r)).inv].starts <= 1 + At(Top(r)).interruptions
<1> DEFINE a == At(Top(r))
           inv == a.inv
<1>1. /\ Fitted(r) /\ r.pending = None /\ a # None /\ a.count > 0 /\ a.retryAt = None
      /\ Depth(r) \in 1..Depth(r) /\ Top(r) = r.frames[Depth(r)] /\ Depth(r) = Len(r.frames)
      /\ r.invocation \in Nat /\ Stacked(r.frames, r.invocation)
  BY FittedTop DEF Sound, StatusFits, Terminal, Fitted
<1>2. /\ DefOf(Top(r)).kind \in RetryKinds /\ inv \in 1..r.invocation /\ a \in Attempt
  BY <1>1, AttemptIds
<1>3. a.count \in Nat /\ a.interruptions \in Nat
  BY <1>2 DEF Attempt
<1>4. /\ r.invocation + 1 \notin DOMAIN w /\ inv # r.invocation + 1
      /\ DOMAIN w \subseteq 1..(r.invocation + 1) /\ AttemptTraced(Top(r), Depth(r), w)
  BY <1>1, <1>2 DEF Traced
<1>5. DOMAIN w2 = DOMAIN w \cup {inv} /\ DOMAIN w2 \subseteq 1..(r.invocation + 1)
      /\ r.invocation + 1 \notin DOMAIN w2
  BY SMTT(30), <1>1, <1>2, <1>4 DEF Started
<1>6. AttemptRan(Top(r), w2) /\ w2[inv].site = Site(r)
  BY DEF Started, AttemptRan
<1>7. w2[inv].starts <= 1 + a.interruptions
  <2>1. CASE AttemptRan(Top(r), w)
    <3>1. w2[inv].starts = w[inv].starts + 1 /\ w[inv].starts \in Nat
      BY <2>1 DEF Started, AttemptRan
    <3> QED BY <1>3, <2>1, <3>1
  <2>2. CASE ~AttemptRan(Top(r), w)
    <3>1. w2[inv].starts = 1
      BY <2>2 DEF Started, AttemptRan
    <3> QED BY <1>3, <3>1
  <2> QED BY <2>1, <2>2
<1>8. ASSUME NEW i \in 1..Depth(r), At(r.frames[i]) # None
      PROVE  /\ AttemptTraced(r.frames[i], i, w2)
             /\ i < Depth(r) \/ At(r.frames[i]).retryAt # None => AttemptRan(r.frames[i], w2)
  <2>1. CASE i = Depth(r)
    <3>1. AttemptTraced(Top(r), Depth(r), w2)
      <4>1. a.count # 0
        BY <1>1, <1>3
      <4>2. w2[inv].attempt = a.count /\ w2[inv].site = <<Depth(r), Top(r).flow, Top(r).node>>
        BY <1>6 DEF AttemptRan, Site
      <4> QED BY <4>1, <4>2, <1>7 DEF AttemptTraced
    <3> QED BY <1>1, <1>6, <2>1, <3>1
  <2>2. CASE i # Depth(r)
    <3>1. At(r.frames[i]).inv # inv
      BY <1>1, <1>8, <2>2 DEF Stacked
    <3>2. /\ At(r.frames[i]).inv \in DOMAIN w2 <=> At(r.frames[i]).inv \in DOMAIN w
          /\ At(r.frames[i]).inv \in DOMAIN w => w2[At(r.frames[i]).inv] = w[At(r.frames[i]).inv]
      BY <3>1 DEF Started
    <3>3. /\ AttemptTraced(r.frames[i], i, w)
          /\ i < Depth(r) \/ At(r.frames[i]).retryAt # None => AttemptRan(r.frames[i], w)
      BY <1>8 DEF Traced
    <3> QED BY <3>2, <3>3 DEF AttemptTraced, AttemptRan
  <2> QED BY <2>1, <2>2
<1>9. Traced(r, w2)
  BY <1>1, <1>5, <1>8 DEF Traced
<1>10. KeysKept(w, w2)
  <2> SUFFICES ASSUME NEW i \in DOMAIN w
               PROVE  /\ i \in DOMAIN w2 /\ w2[i].site = w[i].site
                      /\ w2[i].attempt \in {w[i].attempt, w[i].attempt + 1}
    BY DEF KeysKept
  <2>1. CASE i = inv
    <3>1. w[inv].site = Site(r) /\ w[inv].attempt \in {a.count, a.count - 1}
      BY <1>4, <2>1 DEF AttemptTraced, Site
    <3>2. a.count \in {w[inv].attempt, w[inv].attempt + 1}
      BY <1>3, <3>1
    <3> QED BY <2>1, <3>1, <3>2 DEF Started
  <2>2. CASE i # inv
    BY <2>2 DEF Started
  <2> QED BY <2>1, <2>2
<1> QED BY <1>6, <1>7, <1>9, <1>10

-----------------------------------------------------------------------------
(* The history fits the runner's document and the stored one. *)
WorkInv ==
    /\ DocInv
    /\ Traced(run, work) /\ Traced(store, work)
    /\ ReplaysBounded
    /\ pc \in {"launch", "yieldLaunch"} /\ AttemptRan(Top(run), work)
          => work[At(Top(run)).inv].starts <= At(Top(run)).interruptions
    /\ pc = "exec" =>
          IF DefOf(Top(run)).kind \in RetryKinds
          THEN AttemptRan(Top(run), work)
          ELSE run.pending = None => run.invocation + 1 \in DOMAIN work

LEMMA InitWork == Init => WorkInv
<1> SUFFICES ASSUME Init PROVE WorkInv
  OBVIOUS
<1>1. DocInv /\ DOMAIN work = {} /\ pc = "top" /\ store = run /\ run = InitialRun
  BY InitDoc DEF Init
<1>2. run.pending = None
  BY <1>1 DEF InitialRun
<1>3. ASSUME NEW i \in 1..Depth(run) PROVE At(run.frames[i]) = None
  <2> DEFINE x == NewFrame(Root, None)
  <2>1. run.frames = <<x>>
    BY <1>1 DEF InitialRun
  <2>2. At(x) = None
    BY FlowAssumption, BlankFrame
  <2> HIDE DEF x
  <2> QED BY <1>3, <2>1, <2>2 DEF Depth
<1>4. Traced(run, work)
  BY <1>1, <1>2, <1>3 DEF Traced
<1> QED BY <1>1, <1>4 DEF WorkInv, ReplaysBounded

LEMMA RoutesWork ==
    ASSUME WorkInv, DocInv', Routes
    PROVE  WorkInv'
<1>1. PICK q : \E started \in BOOLEAN :
         Commit(q) /\ Follows(run, q, started) /\ (started => pc = "exec")
  BY DEF Routes
<1>2. PICK started \in BOOLEAN : Follows(run, q, started) /\ (started => pc = "exec")
  BY <1>1
<1>3. run' = q /\ store' = store /\ work' = work /\ pc' = "yieldTop"
  BY <1>1 DEF Commit, Yield
<1>4. started /\ At(Top(run)) # None => AttemptRan(Top(run), work)
  <2>1. pc = "exec" /\ At(Top(run)) # None => DefOf(Top(run)).kind \in RetryKinds
    BY LiveRun DEF WorkInv
  <2> QED BY <1>2, <2>1 DEF WorkInv
<1>5. Traced(q, work)
  BY <1>2, <1>4, FollowsTraced DEF WorkInv, DocInv, Sound
<1> QED BY <1>3, <1>5 DEF WorkInv, ReplaysBounded

LEMMA SuspendsWork ==
    ASSUME WorkInv, DocInv', FinishInput
    PROVE  WorkInv'
<1>1. PICK q : Commit(q) /\ Suspends(run, q)
  BY InputSuspends DEF WorkInv
<1>2. run' = q /\ store' = store /\ work' = work /\ pc' = "yieldTop" /\ pc = "exec"
  BY <1>1 DEF Commit, Yield, FinishInput, Ran
<1>3. DefOf(Top(run)).kind \notin RetryKinds /\ run.pending = None
  BY <1>1 DEF Suspends, RetryKinds
<1>4. At(Top(run)) = None /\ Fitted(run)
  BY <1>2, <1>3, LiveRun DEF WorkInv
<1>5. Traced(q, work)
  BY <1>1, <1>2, <1>3, <1>4, SuspendsTraced DEF WorkInv
<1> QED BY <1>2, <1>5 DEF WorkInv, ReplaysBounded

LEMMA EnterWork ==
    ASSUME WorkInv, DocInv', DriveEnter
    PROVE  WorkInv'
<1> DEFINE q == Enter(run, now)
<1>1. /\ pc \in {"top", "sleep"} /\ At(Top(run)) = None /\ DefOf(Top(run)).kind \in RetryKinds
      /\ Commit(q)
  BY ActiveNode DEF DriveEnter, AtNode, Retries
<1>2. /\ Sound(q) /\ Checkpointed(run, q) /\ q.invocation = run.invocation + 1
      /\ q.pending = None
      /\ At(Top(q)).inv = run.invocation + 1 /\ At(Top(q)).count = 0
      /\ At(Top(q)).retryAt = None
  BY <1>1, LiveRun, EnterSound DEF WorkInv
<1> HIDE DEF q
<1>3. run' = q /\ store' = store /\ work' = work /\ pc' = "yieldTop"
  BY <1>1 DEF Commit, Yield
<1>4. AttemptTraced(Top(q), Depth(q), work)
  BY <1>1, <1>2 DEF WorkInv, Traced, AttemptTraced
<1>5. Traced(q, work)
  BY <1>1, <1>2, <1>4, LiveRun, CheckpointTraced DEF WorkInv, Sound
<1> QED BY <1>3, <1>5 DEF WorkInv, ReplaysBounded

LEMMA ReplayWork ==
    ASSUME WorkInv, DocInv', DriveReplay
    PROVE  WorkInv'
<1> DEFINE q == Interrupt(run)
           a == At(Top(run))
<1>1. /\ pc \in {"top", "sleep"} /\ run.inFlight # None /\ Yield(q, "yieldLaunch")
      /\ a.interruptions < DefOf(Top(run)).policy.maxInterruptions /\ work' = work
  BY ActiveNode DEF DriveReplay, AtNode, Replaying
<1>2. /\ Sound(q) /\ Checkpointed(run, q) /\ q.invocation = run.invocation
      /\ q.pending = None
      /\ At(Top(q)).inv = a.inv /\ At(Top(q)).count = a.count
      /\ At(Top(q)).interruptions = a.interruptions + 1
      /\ At(Top(q)).retryAt = None
  BY <1>1, LiveRun, InterruptSound DEF WorkInv
<1> HIDE DEF q
<1>3. run' = q /\ store' = store /\ pc' = "yieldLaunch"
  BY <1>1 DEF Yield
<1>4. /\ a # None /\ Fitted(run) /\ a \in Attempt /\ DefOf(Top(run)).kind \in RetryKinds
      /\ Depth(run) \in 1..Depth(run) /\ Top(run) = run.frames[Depth(run)]
  BY <1>1, LiveRun, FittedTop DEF WorkInv, Top
<1>5. a.interruptions \in Nat /\ AttemptTraced(Top(run), Depth(run), work)
  BY <1>4 DEF Attempt, WorkInv, Traced
<1>6. \A i \in DOMAIN work : work[i].starts \in Nat
  BY DEF WorkInv, DocInv, IInv, TypeOK
<1>7. AttemptTraced(Top(q), Depth(q), work)
  BY <1>2, <1>5, <1>6 DEF AttemptTraced, Checkpointed
<1>8. Traced(q, work)
  BY <1>2, <1>4, <1>7, CheckpointTraced DEF WorkInv, Sound
<1>9. AttemptRan(Top(q), work) => work[At(Top(q)).inv].starts <= At(Top(q)).interruptions
  BY <1>2, <1>5 DEF AttemptRan, AttemptTraced
<1> QED BY <1>1, <1>3, <1>8, <1>9 DEF WorkInv, ReplaysBounded

LEMMA AttemptWork ==
    ASSUME WorkInv, DocInv', DriveAttempt
    PROVE  WorkInv'
<1> DEFINE q == BeginAttempt(run)
           a == At(Top(run))
<1>1. /\ pc \in {"top", "sleep"} /\ a # None /\ Yield(q, "yieldLaunch")
      /\ a.count < DefOf(Top(run)).policy.maxAttempts /\ work' = work
  BY ActiveNode DEF DriveAttempt, AtNode, InTime
<1>2. /\ Sound(q) /\ Checkpointed(run, q) /\ q.invocation = run.invocation
      /\ q.pending = None
      /\ At(Top(q)).inv = a.inv /\ At(Top(q)).count = a.count + 1
      /\ At(Top(q)).retryAt = None
  BY <1>1, LiveRun, BeginAttemptSound DEF WorkInv
<1>3. a.retryAt # None \/ a.count = 0
  BY <1>1, AttemptIdle, ActiveNode DEF WorkInv, DriveAttempt
<1> HIDE DEF q
<1>4. run' = q /\ store' = store /\ pc' = "yieldLaunch"
  BY <1>1 DEF Yield
<1>5. /\ Fitted(run) /\ a \in Attempt /\ DefOf(Top(run)).kind \in RetryKinds
      /\ Depth(run) \in 1..Depth(run) /\ Top(run) = run.frames[Depth(run)]
  BY <1>1, LiveRun, FittedTop DEF WorkInv, Top
<1>6. /\ a.count \in Nat /\ AttemptTraced(Top(run), Depth(run), work)
      /\ a.inv \in DOMAIN work => work[a.inv].attempt = a.count
  BY <1>1, <1>3, <1>5 DEF Attempt, WorkInv, Traced, AttemptTraced, AttemptRan
<1>7. a.count + 1 # 0 /\ a.count + 1 # a.count /\ (a.count + 1) - 1 = a.count
  BY <1>6
<1>8. AttemptTraced(Top(q), Depth(q), work) /\ ~AttemptRan(Top(q), work)
  BY <1>2, <1>6, <1>7 DEF AttemptTraced, AttemptRan, Checkpointed
<1>9. Traced(q, work)
  BY <1>2, <1>5, <1>8, CheckpointTraced DEF WorkInv, Sound
<1> QED BY <1>1, <1>4, <1>8, <1>9 DEF WorkInv, ReplaysBounded

(* What is recorded of a start: within the active node's policy. *)
LEMMA StartBounded ==
    ASSUME WorkInv, NEW inv, NEW attempt, Start(inv, attempt),
           DefOf(Top(run)).kind \in RetryKinds =>
               /\ work'[inv].starts <= 1 + DefOf(Top(run)).policy.maxInterruptions
               /\ attempt <= DefOf(Top(run)).policy.maxAttempts
    PROVE  ReplaysBounded'
<1>1. Started(work, work', inv, Site(run), attempt)
  BY StartRecorded
<1>2. ASSUME NEW i \in DOMAIN work'
      PROVE  LET site == work'[i].site
                 def == Def[site[2]].node[site[3]]
             IN  def.kind \in RetryKinds =>
                     /\ work'[i].starts <= 1 + def.policy.maxInterruptions
                     /\ work'[i].attempt <= def.policy.maxAttempts
  <2>1. CASE i = inv
    <3>1. /\ work'[i].site[2] = Top(run).flow /\ work'[i].site[3] = Top(run).node
          /\ work'[i].attempt = attempt
      BY <1>1, <2>1 DEF Started, Site
    <3> QED BY <2>1, <3>1 DEF DefOf
  <2>2. CASE i # inv
    <3>1. i \in DOMAIN work /\ work'[i] = work[i]
      BY <1>1, <1>2, <2>2 DEF Started
    <3> QED BY <3>1 DEF WorkInv, ReplaysBounded
  <2> QED BY <2>1, <2>2
<1> QED BY <1>2 DEF ReplaysBounded

LEMMA StartWork ==
    ASSUME WorkInv, DocInv', NEW inv, NEW attempt, Start(inv, attempt),
           pc \in {"top", "sleep", "launch"}, Traced(run, work'), ReplaysBounded',
           IF DefOf(Top(run)).kind \in RetryKinds
           THEN AttemptRan(Top(run), work')
           ELSE run.pending = None => run.invocation + 1 \in DOMAIN work'
    PROVE  WorkInv'
BY DEF WorkInv, DocInv, Start

LEMMA ExecuteWork ==
    ASSUME WorkInv, DocInv', DriveExecute
    PROVE  WorkInv' /\ KeysKept(work, work') /\ pc # "exec"
<1>1. /\ pc \in {"top", "sleep"} /\ DefOf(Top(run)).kind \notin RetryKinds /\ ~Waiting
      /\ Start(run.invocation + 1, 1)
  BY ActiveNode DEF DriveExecute, AtNode, Retries
<1>2. run.pending = None /\ Fitted(run)
  <2>1. Sound(run) /\ run.status \notin Terminal /\ Fitted(run)
    BY <1>1, LiveRun DEF WorkInv
  <2>2. run.pending # None => run.pending.reason = "suspend"
    BY <1>1, <2>1, LiveStatus
  <2>3. run.pending # None => run.status = "suspended"
    BY <2>1 DEF Sound, StatusFits
  <2> QED BY <1>1, <2>1, <2>2, <2>3 DEF Waiting
<1>3. Started(work, work', run.invocation + 1, Site(run), 1)
  BY <1>1, StartRecorded
<1>4. Traced(run, work') /\ KeysKept(work, work')
  BY <1>1, <1>2, <1>3, ExecuteTraced DEF WorkInv
<1>5. ReplaysBounded'
  BY <1>1, StartBounded
<1>6. run.invocation + 1 \in DOMAIN work'
  BY <1>3 DEF Started
<1> QED BY <1>1, <1>4, <1>5, <1>6, StartWork

LEMMA ResumedWork ==
    ASSUME WorkInv, DocInv', DriveResumed
    PROVE  WorkInv' /\ KeysKept(work, work') /\ pc # "exec"
<1>1. pc = "top" /\ Waiting /\ Start(run.invocation, 1)
  BY DEF DriveResumed
<1>2. /\ run.pending # None /\ run.pending.reason = "suspend" /\ Fitted(run)
      /\ DefOf(Top(run)).kind \notin RetryKinds /\ At(Top(run)) = None
  <2>1. Sound(run) /\ run.status \notin Terminal /\ Fitted(run)
    BY <1>1, LiveRun DEF WorkInv
  <2>2. run.pending # None /\ run.pending.reason = "suspend"
    BY <1>1, <2>1 DEF Waiting, Sound, StatusFits
  <2> QED BY <2>1, <2>2, LiveStatus DEF RetryKinds
<1>3. Started(work, work', run.invocation, Site(run), 1)
  BY <1>1, StartRecorded
<1>4. Traced(run, work') /\ KeysKept(work, work')
  BY <1>2, <1>3, ResumedTraced DEF WorkInv
<1>5. ReplaysBounded'
  BY <1>1, <1>2, StartBounded
<1> QED BY <1>1, <1>2, <1>4, <1>5, StartWork

LEMMA LaunchWork ==
    ASSUME WorkInv, DocInv', Launch
    PROVE  WorkInv' /\ KeysKept(work, work') /\ pc # "exec"
<1> DEFINE a == At(Top(run))
<1>1. pc = "launch" /\ Start(a.inv, a.count)
  BY ActiveNode DEF Launch
<1>2. Sound(run) /\ run.inFlight # None /\ a # None /\ DefOf(Top(run)).kind \in RetryKinds
      /\ FrameFits(Top(run), run.invocation) /\ a \in Attempt
      /\ DefOf(Top(run)).policy \in Policy
  BY <1>1, LiveRun, FittedTop DEF WorkInv, DocInv, NodeDefs
<1>3. Started(work, work', a.inv, Site(run), a.count)
  BY <1>1, StartRecorded
<1>4. \A i \in DOMAIN work : work[i].starts \in Nat
  BY DEF WorkInv, DocInv, IInv, TypeOK
<1>5. AttemptRan(Top(run), work) => work[a.inv].starts <= a.interruptions
  BY <1>1 DEF WorkInv
<1>6. /\ Traced(run, work') /\ KeysKept(work, work') /\ AttemptRan(Top(run), work')
      /\ work'[a.inv].starts <= 1 + a.interruptions
  BY <1>2, <1>3, <1>4, <1>5, LaunchTraced DEF WorkInv
<1>7. work'[a.inv].starts \in Nat
  <2>1. a.inv \in DOMAIN work'
    BY <1>3 DEF Started
  <2> QED BY <2>1 DEF DocInv, IInv, TypeOK
<1>8. work'[a.inv].starts <= 1 + DefOf(Top(run)).policy.maxInterruptions
      /\ a.count <= DefOf(Top(run)).policy.maxAttempts
  <2>1. /\ a.interruptions <= DefOf(Top(run)).policy.maxInterruptions
        /\ a.count <= DefOf(Top(run)).policy.maxAttempts
    BY <1>2 DEF FrameFits, AttemptFits
  <2>2. a.interruptions \in Nat /\ DefOf(Top(run)).policy.maxInterruptions \in Nat
    BY <1>2 DEF Attempt, Policy
  <2> QED BY <1>6, <1>7, <2>1, <2>2
<1>9. ReplaysBounded'
  BY <1>1, <1>8, StartBounded
<1> QED BY <1>1, <1>2, <1>6, <1>9, StartWork

LEMMA HostWork ==
    ASSUME WorkInv, DocInv', \/ Persist \/ Crash \/ Recover \/ AbortRequest \/ Tick
                             \/ \E e \in Events : Resume(e)
    PROVE  WorkInv' /\ work' = work
<1>1. CASE Persist
  <2>1. /\ store' = run /\ run' = run /\ work' = work
        /\ pc' \in {"down", "top", "launch"} /\ (pc' = "launch" => pc = "yieldLaunch")
    BY <1>1 DEF Persist
  <2> QED BY <2>1 DEF WorkInv, ReplaysBounded
<1>2. CASE Crash
  BY <1>2 DEF WorkInv, Crash, ReplaysBounded
<1>3. CASE Recover
  BY <1>3 DEF WorkInv, Recover, ReplaysBounded
<1>4. CASE AbortRequest
  BY <1>4 DEF WorkInv, AbortRequest, ReplaysBounded
<1>5. CASE Tick
  BY <1>5 DEF WorkInv, Tick, ReplaysBounded
<1>6. CASE \E e \in Events : Resume(e)
  BY <1>6 DEF WorkInv, Resume, ReplaysBounded
<1> QED BY <1>1, <1>2, <1>3, <1>4, <1>5, <1>6

(* Every step keeps the history and the documents together, and the keys.  *)
LEMMA NextWork == WorkInv /\ [Next]_vars => WorkInv' /\ KeysKept(work, work')
<1> SUFFICES ASSUME WorkInv, [Next]_vars PROVE WorkInv' /\ KeysKept(work, work')
  OBVIOUS
<1>1. DocInv'
  BY NextDoc DEF WorkInv
<1>2. CASE DriveExecute \/ DriveResumed \/ Launch
  BY <1>1, <1>2, ExecuteWork, ResumedWork, LaunchWork
<1>3. ASSUME WorkInv', work' = work PROVE WorkInv' /\ KeysKept(work, work')
  <2>1. \A i \in DOMAIN work : work[i].attempt \in {work[i].attempt, work[i].attempt + 1}
    OBVIOUS
  <2> QED BY <1>3, <2>1 DEF KeysKept
<1>4. CASE Routes
  BY <1>1, <1>3, <1>4, RoutesWork DEF Routes, Commit
<1>5. CASE FinishInput
  BY <1>1, <1>3, <1>5, SuspendsWork DEF FinishInput, Completes, Commit
<1>6. CASE DriveSleep
  BY <1>1, <1>3, <1>6 DEF DriveSleep, WorkInv, ReplaysBounded
<1>7. CASE DriveEnter \/ DriveReplay \/ DriveAttempt
  BY <1>1, <1>3, <1>7, EnterWork, ReplayWork, AttemptWork
     DEF DriveEnter, DriveReplay, DriveAttempt, Commit
<1>8. CASE \/ Persist \/ Crash \/ Recover \/ AbortRequest \/ Tick
           \/ \E e \in Events : Resume(e)
  BY <1>1, <1>3, <1>8, HostWork
<1>9. CASE Stopped \/ UNCHANGED vars
  BY <1>1, <1>3, <1>9 DEF Stopped, vars, WorkInv, ReplaysBounded
<1> QED BY <1>2, <1>4, <1>5, <1>6, <1>7, <1>8, <1>9, DriveRoutes, FinishRoutes
        DEF Next, Drive, Finish, WorkInv

LEMMA TracedWork == Spec => []WorkInv
BY InitWork, NextWork, PTL DEF Spec

(* Node code only runs for what the host has stored: a retried attempt     *)
(* under the stored inFlight record, any other node as the active node of  *)
(* the stored document.                                                    *)
THEOREM StoredBeforeRun == Spec => []WriteAhead
<1>1. DocInv => WriteAhead
  <2> SUFFICES ASSUME DocInv, pc = "exec"
               PROVE  /\ store = run
                      /\ Retries => store.inFlight =
                           [node |-> Top(store).node, attempt |-> Progress.count,
                            inv |-> Progress.inv]
    BY DEF WriteAhead
  <2>1. store = run /\ (Retries => run.inFlight # None) /\ StatusFits(run)
    BY ActiveNode DEF DocInv, Sound, Retries
  <2> QED BY <2>1, ActiveNode DEF StatusFits
<1> QED BY <1>1, SoundDocuments, PTL

(* A crash replays one attempt at most maxInterruptions times, and no more *)
(* than maxAttempts attempts run under one id.                             *)
THEOREM ReplaysStayBounded == Spec => []ReplaysBounded
<1>1. WorkInv => ReplaysBounded
  BY DEF WorkInv
<1> QED BY <1>1, TracedWork, PTL

(* The idempotency key: an invocation id names one entry of one node, and  *)
(* its attempts are counted up by one, whatever crashes, replays, retries  *)
(* and unwinding happen.                                                   *)
THEOREM KeysNameEntries == Spec => KeysNameOneEntry
<1>1. WorkInv /\ [Next]_vars => [KeyStep]_vars
  BY NextWork DEF KeyStep, KeysKept
<1> QED BY <1>1, TracedWork, PTL DEF Spec, KeysNameOneEntry

(* No attempt starts once its deadline has passed or its segment aborted.  *)
THEOREM StartsOnTime == Spec => StartsInTime
<1>1. DocInv /\ [Next]_vars => [StartStep]_vars
  <2> SUFFICES ASSUME DocInv, Next, pc # "exec", pc' = "exec"
               PROVE  ~aborted /\ (Progress # None => ~Expired(Progress.deadline, now, 0))
    BY DEF StartStep, vars
  <2>1. DriveExecute \/ DriveResumed \/ Launch
    <3>1. ~Routes /\ ~FinishInput
      BY DEF Routes, FinishInput, Completes, Commit, Yield
    <3>2. ~DriveSleep /\ ~DriveEnter /\ ~DriveReplay /\ ~DriveAttempt
      BY DEF DriveSleep, DriveEnter, DriveReplay, DriveAttempt, Commit, Yield
    <3>3. ~(\/ Persist \/ Crash \/ Recover \/ AbortRequest \/ Tick
            \/ \E e \in Events : Resume(e))
      BY DEF Persist, Crash, Recover, AbortRequest, Tick, Resume
    <3>4. ~Stopped
      BY DEF Stopped, vars
    <3> QED BY <3>1, <3>2, <3>3, <3>4, DriveRoutes, FinishRoutes DEF Next, Drive
  <2>2. CASE DriveExecute
    <3>1. pc \in {"top", "sleep"} /\ ~aborted /\ DefOf(Top(run)).kind \notin RetryKinds
      BY <2>2, ActiveNode DEF DriveExecute, AtNode, Retries
    <3> QED BY <3>1, LiveRun, ActiveNode
  <2>3. CASE DriveResumed
    <3>1. pc = "top" /\ ~aborted /\ Waiting
      BY <2>3 DEF DriveResumed
    <3>2. run.pending # None /\ run.pending.reason = "suspend"
      BY <3>1, LiveRun DEF Waiting, Sound, StatusFits
    <3> QED BY <3>1, <3>2, LiveRun, LiveStatus, ActiveNode
  <2>4. CASE Launch
    <3>1. pc = "launch" /\ ~aborted /\ ~Expired(Progress.deadline, now, 0)
      BY <2>4 DEF Launch
    <3> QED BY <3>1
  <2> QED BY <2>1, <2>2, <2>3, <2>4
<1> QED BY <1>1, SoundDocuments, PTL DEF Spec, StartsInTime

(* Both together: a call is retried only while its deadline leaves time    *)
(* for it, and a crash in the middle of nested calls loses nothing.        *)
THEOREM NestedCalls == Spec => []CallsRight
BY Continuable, RetriesHaveRoom, PTL DEF CallsRight
=============================================================================
