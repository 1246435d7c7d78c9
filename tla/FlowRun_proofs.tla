--------------------------- MODULE FlowRun_proofs ---------------------------
(***************************************************************************)
(* Proofs about FlowRun, for all flow definitions, bounds and delays.      *)
(***************************************************************************)
EXTENDS FlowProps, SequenceTheorems, WellFoundedInduction, TLAPS

(* The nodes of the frames exist, and each continuation belongs to the     *)
(* node its caller is parked on.                                           *)
NodeIn(f, n) == n \in DOMAIN Def[f].node

LinkOK(below, cont) ==
    /\ cont \in Continuation
    /\ cont.caller = below.node
    /\ NodeIn(below.flow, cont.returnTo)
    /\ cont.onError = None \/ NodeIn(below.flow, cont.onError)

Linked(s) ==
    /\ s # <<>>
    /\ \A i \in 1..Len(s) : NodeIn(s[i].flow, s[i].node)
    /\ \A i \in 1..(Len(s) - 1) : LinkOK(s[i], s[i + 1].cont)

Good(r) == r \in RunState /\ Linked(r.frames)

-----------------------------------------------------------------------------
(* Sequences of frames. *)

LEMMA NoneDistinct == None \notin Nat /\ None \notin Node /\ None \notin Flow
BY FlowAssumption

(* A linked stack with its top frame replaced by one with the same         *)
(* continuation is linked.                                                 *)
LEMMA ReplaceTop ==
    ASSUME NEW s \in Seq(Frame), Linked(s), NEW x \in Frame,
           NodeIn(x.flow, x.node), x.cont = s[Len(s)].cont
    PROVE  LET e == [s EXCEPT ![Len(s)] = x]
           IN  /\ e \in Seq(Frame) /\ Linked(e)
               /\ Len(e) = Len(s) /\ e[Len(s)] = x
               /\ \A i \in 1..Len(s) : i # Len(s) => e[i] = s[i]
<1> DEFINE e == [s EXCEPT ![Len(s)] = x]
<1>1. Len(s) \in Nat /\ Len(s) \in 1..Len(s)
  BY EmptySeq, LenProperties DEF Linked
<1>2. /\ e \in Seq(Frame) /\ Len(e) = Len(s) /\ e[Len(s)] = x
      /\ \A i \in 1..Len(s) : i # Len(s) => e[i] = s[i]
  BY <1>1, ExceptSeq
<1> HIDE DEF e
<1>3. e # <<>>
  BY <1>1, <1>2, EmptySeq
<1>4. \A i \in 1..Len(e) : NodeIn(e[i].flow, e[i].node)
  BY <1>2 DEF Linked
<1>5. \A i \in 1..(Len(e) - 1) : LinkOK(e[i], e[i + 1].cont)
  <2> TAKE i \in 1..(Len(e) - 1)
  <2>1. LinkOK(s[i], s[i + 1].cont) /\ e[i] = s[i] /\ i + 1 \in 1..Len(s)
    BY <1>1, <1>2 DEF Linked
  <2>2. e[i + 1].cont = s[i + 1].cont
    BY <1>2, <2>1
  <2> QED BY <2>1, <2>2
<1>6. Linked(e)
  BY <1>3, <1>4, <1>5 DEF Linked
<1> QED BY <1>2, <1>6 DEF e

(* The lower part of a linked stack is linked. *)
LEMMA Below ==
    ASSUME NEW s \in Seq(Frame), Linked(s), NEW i \in 1..Len(s)
    PROVE  /\ SubSeq(s, 1, i) \in Seq(Frame) /\ Linked(SubSeq(s, 1, i))
           /\ Len(SubSeq(s, 1, i)) = i
           /\ \A j \in 1..i : SubSeq(s, 1, i)[j] = s[j]
<1> DEFINE e == SubSeq(s, 1, i)
<1>1. \A j \in 1..i : s[j] \in Frame
  BY ElementOfSeq
<1>2. e \in Seq(Frame) /\ Len(e) = i /\ \A j \in 1..i : e[j] = s[j]
  BY <1>1, SubSeqProperties
<1> HIDE DEF e
<1>3. e # <<>>
  BY <1>2, EmptySeq
<1>4. Linked(e)
  BY SMTT(30), <1>2, <1>3, LenProperties DEF Linked
<1> QED BY <1>2, <1>4 DEF e

(* A frame on top of a linked stack, whose continuation fits. *)
LEMMA Above ==
    ASSUME NEW s \in Seq(Frame), Linked(s), NEW x \in Frame,
           NodeIn(x.flow, x.node), LinkOK(s[Len(s)], x.cont)
    PROVE  Append(s, x) \in Seq(Frame) /\ Linked(Append(s, x))
<1> DEFINE e == Append(s, x)
<1>1. /\ e \in Seq(Frame) /\ e # <<>> /\ Len(e) = Len(s) + 1 /\ Len(s) \in Nat
      /\ \A i \in 1..Len(s) : e[i] = s[i]
      /\ e[Len(s) + 1] = x
  BY AppendProperties, LenProperties
<1> HIDE DEF e
<1>2. Len(s) > 0
  BY EmptySeq, LenProperties DEF Linked
<1>3. \A i \in 1..Len(e) : NodeIn(e[i].flow, e[i].node)
  BY <1>1 DEF Linked
<1>4. \A i \in 1..(Len(e) - 1) : LinkOK(e[i], e[i + 1].cont)
  <2> TAKE i \in 1..(Len(e) - 1)
  <2>1. CASE i = Len(s)
    BY <1>1, <1>2, <2>1
  <2>2. CASE i # Len(s)
    BY <1>1, <2>2 DEF Linked
  <2> QED BY <2>1, <2>2
<1> QED BY <1>1, <1>3, <1>4 DEF Linked, e

-----------------------------------------------------------------------------
(* The active frame and its definition. *)

LEMMA TopFrame ==
    ASSUME NEW r, Good(r)
    PROVE  /\ Depth(r) \in Nat /\ Depth(r) > 0
           /\ \A i \in 1..Depth(r) : r.frames[i] \in Frame
           /\ Top(r) \in Frame /\ NodeIn(Top(r).flow, Top(r).node)
<1>1. r.frames \in Seq(Frame)
  BY DEF Good, RunState
<1>2. Depth(r) \in Nat /\ Depth(r) > 0
  BY <1>1, EmptySeq, LenProperties DEF Good, Linked, Depth
<1> QED BY <1>1, <1>2, ElementOfSeq DEF Good, Linked, Depth, Top

(* The definition of a node of a linked stack is well formed. *)
LEMMA DefWellFormed ==
    ASSUME NEW f \in Flow, NEW n, NodeIn(f, n)
    PROVE  Def[f].node[n] \in NodeDefs /\ WellFormed(f, Def[f].node[n]) /\ n \in Node
BY FlowAssumption DEF NodeIn

LEMMA TopDef ==
    ASSUME NEW r, Good(r)
    PROVE  /\ DefOf(Top(r)) \in NodeDefs /\ WellFormed(Top(r).flow, DefOf(Top(r)))
           /\ Top(r).flow \in Flow /\ Top(r).node \in Node
           /\ Top(r).attempts \in [Node -> Attempt \cup {None}]
BY TopFrame, DefWellFormed DEF DefOf, Frame

(* A document with the same stack and fields of their types is good. *)
LEMMA SameFrames ==
    ASSUME NEW r, Good(r), NEW q \in RunState, q.frames = r.frames
    PROVE  Good(q) /\ Top(q) = Top(r) /\ Depth(q) = Depth(r)
BY DEF Good, Top, Depth

LEMMA SetTopGood ==
    ASSUME NEW r, Good(r), NEW x \in Frame,
           NodeIn(x.flow, x.node), x.cont = Top(r).cont
    PROVE  /\ Good(SetTop(r, x)) /\ Top(SetTop(r, x)) = x /\ Depth(SetTop(r, x)) = Depth(r)
           /\ SetTop(r, x) = [r EXCEPT !.frames = [r.frames EXCEPT ![Depth(r)] = x]]
<1> DEFINE e == [r.frames EXCEPT ![Depth(r)] = x]
<1>1. r.frames \in Seq(Frame) /\ Linked(r.frames)
  BY DEF Good, RunState
<1>2. e \in Seq(Frame) /\ Linked(e) /\ Len(e) = Len(r.frames) /\ e[Len(r.frames)] = x
  BY <1>1, ReplaceTop DEF Top, Depth
<1>3. SetTop(r, x) = [r EXCEPT !.frames = e]
  BY DEF SetTop
<1>4. SetTop(r, x) \in RunState /\ SetTop(r, x).frames = e
  BY <1>2, <1>3 DEF Good, RunState
<1> QED BY <1>2, <1>3, <1>4 DEF Good, Top, Depth

-----------------------------------------------------------------------------
(* Each transition of FlowCommit takes good documents to good documents.   *)

LEMMA TimeTypes ==
    /\ Time \subseteq Nat /\ OptTime = Time \cup {None} /\ Delays \subseteq Nat
    /\ \A t \in Time, d \in Nat : Later(t, d) \in Time
BY FlowAssumption DEF Time, OptTime, Later

LEMMA IdleGood ==
    ASSUME NEW r, Good(r), NEW status \in Status
    PROVE  /\ Good(Idle(r, status)) /\ Top(Idle(r, status)) = Top(r)
           /\ Depth(Idle(r, status)) = Depth(r) /\ Idle(r, status).frames = r.frames
<1>1. Idle(r, status) \in RunState /\ Idle(r, status).frames = r.frames
  BY DEF Good, Idle, RunState
<1> QED BY <1>1, SameFrames

LEMMA EnteredGood ==
    ASSUME NEW r, Good(r)
    PROVE  Good(Entered(r)) /\ Top(Entered(r)) = Top(r) /\ Depth(Entered(r)) = Depth(r)
<1> DEFINE u == r.steps + 1
           v == r.invocation + 1
<1>1. u \in Nat /\ v \in Nat
  BY DEF Good, RunState
<1>2. Entered(r) = [r EXCEPT !.steps = u, !.invocation = v]
  BY DEF Entered
<1> HIDE DEF u, v
<1>3. Entered(r) \in RunState /\ Entered(r).frames = r.frames
  BY <1>1, <1>2 DEF Good, RunState
<1> QED BY <1>3, SameFrames

(* The active frame with the attempt a of its node, or none. *)
LEMMA AttemptFrame ==
    ASSUME NEW fr \in Frame, NEW a \in Attempt \cup {None}, NodeIn(fr.flow, fr.node)
    PROVE  LET x == [fr EXCEPT !.attempts[fr.node] = a]
           IN  x \in Frame /\ x.flow = fr.flow /\ x.node = fr.node /\ x.cont = fr.cont
BY DEF Frame

LEMMA UnscheduledGood ==
    ASSUME NEW r, Good(r)
    PROVE  Good(Unscheduled(r)) /\ Depth(Unscheduled(r)) = Depth(r)
<1> DEFINE fr == Top(r)
           a == [Own(fr, fr.node) EXCEPT !.retryAt = None]
           x == [fr EXCEPT !.attempts[fr.node] = a]
<1>1. CASE Own(fr, fr.node) = None
  BY <1>1 DEF Unscheduled
<1>2. CASE Own(fr, fr.node) # None
  <2>1. fr \in Frame /\ NodeIn(fr.flow, fr.node) /\ fr.node \in Node
    BY TopFrame, TopDef
  <2>2. Own(fr, fr.node) \in Attempt
    BY <1>2, TopDef DEF Own
  <2>3. a \in Attempt
    BY <2>2 DEF Attempt, OptTime
  <2>4. x \in Frame /\ x.flow = fr.flow /\ x.node = fr.node /\ x.cont = fr.cont
    BY <2>1, <2>3, AttemptFrame
  <2>5. Unscheduled(r) = SetTop(r, x)
    BY <1>2 DEF Unscheduled, Own
  <2> HIDE DEF x, fr
  <2> QED BY <2>1, <2>4, <2>5, SetTopGood DEF fr
<1> QED BY <1>1, <1>2

LEMMA AbortGood ==
    ASSUME NEW r, Good(r)
    PROVE  Good(Abort(r))
BY IdleGood, UnscheduledGood DEF Abort, Status

LEMMA UnwindGood ==
    ASSUME NEW r, Good(r), NEW i \in 1..Depth(r)
    PROVE  /\ Good(UnwindTo(r, i)) /\ Top(UnwindTo(r, i)) = r.frames[i]
           /\ Depth(UnwindTo(r, i)) = i
<1> DEFINE s == SubSeq(r.frames, 1, i)
           q == [r EXCEPT !.frames = s]
<1>1. r.frames \in Seq(Frame) /\ Linked(r.frames) /\ r.status \in Status
  BY DEF Good, RunState
<1>2. s \in Seq(Frame) /\ Linked(s) /\ Len(s) = i /\ s[i] = r.frames[i]
  BY <1>1, Below DEF Depth
<1> HIDE DEF s
<1>3. q \in RunState /\ q.frames = s /\ q.status = r.status
  BY <1>2 DEF Good, RunState
<1>4. UnwindTo(r, i) = Idle(q, r.status)
  BY DEF UnwindTo, s
<1>5. Good(q) /\ Top(q) = r.frames[i] /\ Depth(q) = i
  BY <1>2, <1>3 DEF Good, Top, Depth
<1> HIDE DEF q
<1> QED BY <1>1, <1>4, <1>5, IdleGood

LEMMA NewFrameGood ==
    ASSUME NEW f \in Flow, NEW cont \in Continuation \cup {None}
    PROVE  /\ NewFrame(f, cont) \in Frame /\ NewFrame(f, cont).cont = cont
           /\ NewFrame(f, cont).flow = f
           /\ NodeIn(NewFrame(f, cont).flow, NewFrame(f, cont).node)
BY FlowAssumption DEF NewFrame, Frame, NodeIn

LEMMA ScheduleRetryGood ==
    ASSUME NEW r, Good(r), Own(Top(r), Top(r).node) # None,
           NEW t \in Time, NEW delay \in Nat
    PROVE  Good(ScheduleRetry(r, t, delay))
<1> DEFINE fr == Top(r)
           at == Later(t, delay)
           a == [Own(fr, fr.node) EXCEPT !.retryAt = at]
           x == [fr EXCEPT !.attempts[fr.node] = a]
           next == SetTop(r, x)
           pending == [node |-> fr.node, reason |-> "retry", deadline |-> None, resumeAt |-> at]
           waiting == [Idle(next, "suspended") EXCEPT !.pending = pending]
<1>1. at \in Time /\ at \in OptTime
  BY TimeTypes
<1>2. fr \in Frame /\ NodeIn(fr.flow, fr.node) /\ fr.node \in Node
  BY TopFrame, TopDef
<1>3. a \in Attempt
  <2>1. Own(fr, fr.node) \in Attempt
    BY TopDef DEF Own
  <2> QED BY <1>1, <2>1 DEF Attempt
<1>4. x \in Frame /\ x.flow = fr.flow /\ x.node = fr.node /\ x.cont = fr.cont
  BY <1>2, <1>3, AttemptFrame
<1>5. Good(next)
  <2> HIDE DEF x
  <2> QED BY <1>2, <1>4, SetTopGood
<1>6. Good(Idle(next, "running")) /\ Good(Idle(next, "suspended"))
  BY <1>5, IdleGood DEF Status
<1>7. pending \in Pending
  BY <1>1, <1>2 DEF Pending, OptTime
<1>8. Good(waiting)
  <2> DEFINE q == Idle(next, "suspended")
  <2> HIDE DEF pending, q
  <2>1. [q EXCEPT !.pending = pending] \in RunState
        /\ [q EXCEPT !.pending = pending].frames = q.frames
    BY <1>6, <1>7 DEF Good, RunState, q
  <2> QED BY <1>6, <2>1, SameFrames DEF q
<1>9. \/ ScheduleRetry(r, t, delay) = waiting
      \/ ScheduleRetry(r, t, delay) = Idle(next, "running")
  BY DEF ScheduleRetry, Own
<1> HIDE DEF waiting, next
<1> QED BY <1>6, <1>8, <1>9

LEMMA RouteGood ==
    ASSUME NEW r, Good(r), NEW target, NodeIn(Top(r).flow, target)
    PROVE  Good(RouteToOnError(r, target))
<1> DEFINE fr == Top(r)
           x == [fr EXCEPT !.node = target, !.attempts[fr.node] = None]
<1>1. fr \in Frame /\ fr.flow \in Flow
  BY TopFrame, TopDef
<1>2. target \in Node
  BY <1>1, DefWellFormed
<1>3. x \in Frame /\ x.flow = fr.flow /\ x.node = target /\ x.cont = fr.cont
  BY <1>1, <1>2 DEF Frame
<1>4. RouteToOnError(r, target) = Idle(SetTop(r, x), "running")
  BY DEF RouteToOnError
<1> HIDE DEF x
<1>5. Good(SetTop(r, x))
  BY <1>3, SetTopGood
<1> QED BY <1>4, <1>5, IdleGood DEF Status

LEMMA StopRunGood ==
    ASSUME NEW r, Good(r), NEW code \in Codes
    PROVE  Good(StopRun(r, code))
<1> DEFINE idle == Unscheduled(Idle(r, "error"))
           fr == Top(idle)
           x == [fr EXCEPT !.loops[fr.node] = 0]
           q == IF code = "loop_exhausted" THEN SetTop(idle, x) ELSE idle
<1>1. Good(idle)
  BY IdleGood, UnscheduledGood DEF Status
<1> HIDE DEF idle
<1>2. fr \in Frame /\ NodeIn(fr.flow, fr.node)
  BY <1>1, TopFrame
<1>3. x \in Frame /\ x.flow = fr.flow /\ x.node = fr.node /\ x.cont = fr.cont
  BY <1>2 DEF Frame
<1>4. Good(q)
  <2> HIDE DEF x
  <2>1. Good(SetTop(idle, x))
    BY <1>1, <1>2, <1>3, SetTopGood
  <2> QED BY <1>1, <2>1
<1>5. StopRun(r, code) = [q EXCEPT !.error = code]
  BY DEF StopRun, idle
<1> HIDE DEF q
<1>6. StopRun(r, code) \in RunState /\ StopRun(r, code).frames = q.frames
  BY <1>4, <1>5 DEF Good, RunState
<1> QED BY <1>4, <1>6, SameFrames

(* The highest of some frames. *)
LEMMA HighestExists ==
    ASSUME NEW n \in Nat, NEW S, S \subseteq 1..n, S # {}
    PROVE  \E m \in S : \A o \in S : o <= m
<1> DEFINE T == {n - i : i \in S}
           R == OpToRel(<, Nat)
<1> HIDE DEF R
<1>1. T \subseteq Nat /\ T # {}
  <2>1. \A i \in S : n - i \in Nat
    OBVIOUS
  <2> QED BY <2>1
<1>2. PICK y \in T : \A z \in T : ~(<<z, y>> \in R)
  <2> HIDE DEF T
  <2> QED BY <1>1, WFMin, NatLessThanWellFounded DEF R
<1>3. PICK m \in S : y = n - m
  OBVIOUS
<1>4. \A o \in S : o <= m
  <2> TAKE o \in S
  <2>1. n - o \in T /\ n - o \in Nat /\ y \in Nat
    BY <1>1
  <2>2. ~(n - o < y)
    BY <1>2, <2>1 DEF OpToRel, R
  <2> QED BY <1>3, <2>2
<1> QED BY <1>4

LEMMA FailRunGood ==
    ASSUME NEW r, Good(r), NEW code \in Codes, NEW reason,
           NEW t \in Time, NEW d \in [1..Depth(r) -> Delays]
    PROVE  Good(FailRun(r, code, reason, t, d))
<1> DEFINE handlers == Handlers(r, code, reason, t, d)
           i == CHOOSE h \in handlers : \A o \in handlers : o <= h
           cont == r.frames[i + 1].cont
           below == UnwindTo(r, i)
<1>1. Depth(r) \in Nat /\ Depth(r) > 0 /\ r.frames \in Seq(Frame) /\ Linked(r.frames)
  BY TopFrame DEF Good, RunState
<1>2. CASE handlers = {}
  BY <1>2, StopRunGood DEF FailRun
<1>3. CASE handlers # {}
  <2>1. handlers \subseteq 1..(Depth(r) - 1)
    BY DEF Handlers
  <2>2. \E m \in handlers : \A o \in handlers : o <= m
    <3> HIDE DEF handlers
    <3>1. Depth(r) - 1 \in Nat
      BY <1>1
    <3> QED BY <3>1, <1>3, <2>1, HighestExists
  <2>3. i \in handlers
    BY <2>2
  <2>4. i \in 1..(Depth(r) - 1) /\ i \in 1..Depth(r) /\ i \in Nat
    BY <1>1, <2>1, <2>3
  <2>5. /\ CallerRetries(r, i, code, reason, t, d[i]) \/ cont.onError # None
        /\ LinkOK(r.frames[i], cont)
    BY <1>1, <2>3, <2>4 DEF Handlers, Linked, Depth
  <2> HIDE DEF i
  <2>6. Good(below) /\ Top(below) = r.frames[i]
    BY <2>4, UnwindGood
  <2>7. CASE CallerRetries(r, i, code, reason, t, d[i])
    <3>1. Own(Top(below), Top(below).node) # None
      BY <2>5, <2>6, <2>7 DEF CallerRetries, LinkOK
    <3>2. d[i] \in Nat
      BY <2>4, TimeTypes
    <3>3. FailRun(r, code, reason, t, d) = ScheduleRetry(below, t, d[i])
      BY <1>3, <2>7 DEF FailRun, i
    <3> HIDE DEF below
    <3> QED BY <2>6, <3>1, <3>2, <3>3, ScheduleRetryGood
  <2>8. CASE ~CallerRetries(r, i, code, reason, t, d[i])
    <3>1. NodeIn(Top(below).flow, cont.onError)
      BY <2>5, <2>6, <2>8 DEF LinkOK
    <3>2. FailRun(r, code, reason, t, d) = RouteToOnError(below, cont.onError)
      BY <1>3, <2>8 DEF FailRun, i
    <3> HIDE DEF below
    <3> QED BY <2>6, <3>1, <3>2, RouteGood
  <2> QED BY <2>7, <2>8
<1> QED BY <1>2, <1>3

(* The node's own onError, or the callers. *)
LEMMA OnErrorTarget ==
    ASSUME NEW r, Good(r), DefOf(Top(r)).onError # None
    PROVE  NodeIn(Top(r).flow, DefOf(Top(r)).onError)
BY TopDef DEF WellFormed, NodeIn

LEMMA FailNodeGood ==
    ASSUME NEW r, Good(r), NEW reason,
           NEW t \in Time, NEW d \in [1..Depth(r) -> Delays]
    PROVE  Good(FailNode(r, reason, t, d))
<1>1. CASE DefOf(Top(r)).onError # None
  BY <1>1, OnErrorTarget, RouteGood DEF FailNode
<1>2. CASE DefOf(Top(r)).onError = None
  BY <1>2, FailRunGood DEF FailNode, Codes, WalkCodes
<1> QED BY <1>1, <1>2

LEMMA FailReferenceGood ==
    ASSUME NEW r, Good(r), NEW code \in ReferenceCodes,
           NEW t \in Time, NEW d \in [1..Depth(r) -> Delays]
    PROVE  Good(FailReference(r, code, t, d))
<1>0. code \in Codes
  BY DEF ReferenceCodes, Codes, WalkCodes
<1>1. CASE DefOf(Top(r)).onError # None
  BY <1>1, OnErrorTarget, RouteGood DEF FailReference
<1>2. CASE DefOf(Top(r)).onError = None
  BY <1>0, <1>2, FailRunGood DEF FailReference
<1> QED BY <1>1, <1>2

LEMMA HandleNodeErrorGood ==
    ASSUME NEW r0, Good(r0), NEW resumed \in BOOLEAN, NEW err \in Errors,
           NEW t \in Time, NEW d \in [1..Depth(r0) -> Delays]
    PROVE  Good(HandleNodeError(r0, resumed, err, t, d))
<1> DEFINE def == DefOf(Top(r0))
           r == IF def.kind \in RetryKinds \/ resumed THEN r0 ELSE Entered(r0)
           a == Own(Top(r), Top(r).node)
           delay == d[Depth(r)]
           reason == StopReason(a, def.policy, err = "retryable", t, delay)
           idle == [r EXCEPT !.inFlight = None]
<1>1. Good(r) /\ Depth(r) = Depth(r0)
  BY EnteredGood
<1>2. HandleNodeError(r0, resumed, err, t, d) =
        IF err \in RunCodes THEN FailRun(r, err, None, t, d)
        ELSE IF err \in ReferenceCodes /\ IsReference(def) THEN FailReference(r, err, t, d)
        ELSE IF a = None THEN FailNode(r, "non_retryable", t, d)
        ELSE IF reason # None THEN FailNode(idle, reason, t, d)
        ELSE ScheduleRetry(r, t, delay)
  BY DEF HandleNodeError
<1> HIDE DEF r, def, reason
<1>3. delay \in Nat /\ d \in [1..Depth(r) -> Delays]
  <2>1. Depth(r) \in 1..Depth(r0)
    BY <1>1, TopFrame
  <2> QED BY <1>1, <2>1, TimeTypes
<1>4. Good(idle) /\ Depth(idle) = Depth(r)
  <2>1. idle \in RunState /\ idle.frames = r.frames
    BY <1>1 DEF Good, RunState
  <2> QED BY <1>1, <2>1, SameFrames
<1>5. err \in RunCodes => err \in Codes
  BY DEF RunCodes, Codes, WalkCodes
<1>6. CASE err \in RunCodes
  BY <1>1, <1>2, <1>3, <1>5, <1>6, FailRunGood
<1>7. CASE err \notin RunCodes /\ err \in ReferenceCodes /\ IsReference(def)
  BY <1>1, <1>2, <1>3, <1>7, FailReferenceGood
<1>8. CASE err \notin RunCodes /\ ~(err \in ReferenceCodes /\ IsReference(def))
  <2> HIDE DEF a, idle, delay
  <2>1. CASE a = None
    BY <1>1, <1>2, <1>3, <1>8, <2>1, FailNodeGood
  <2>2. CASE a # None /\ reason # None
    BY <1>1, <1>2, <1>3, <1>4, <1>8, <2>2, FailNodeGood
  <2>3. CASE a # None /\ reason = None
    BY <1>1, <1>2, <1>3, <1>8, <2>3, ScheduleRetryGood DEF a
  <2> QED BY <2>1, <2>2, <2>3
<1> QED BY <1>6, <1>7, <1>8

-----------------------------------------------------------------------------
(* Results. *)

LEMMA AppliedGood ==
    ASSUME NEW r, Good(r), NEW resumed \in BOOLEAN, NEW loops \in [Node -> Nat]
    PROVE  LET q == Applied(r, resumed, loops)
           IN  /\ Good(q) /\ Depth(q) = Depth(r)
               /\ Top(q).flow = Top(r).flow /\ Top(q).node = Top(r).node
               /\ Top(q).cont = Top(r).cont
<1> DEFINE fr == Top(r)
           e == IF DefOf(fr).kind \in RetryKinds \/ resumed THEN r ELSE Entered(r)
           x == [fr EXCEPT !.loops = loops]
<1>1. Good(e) /\ Top(e) = fr /\ Depth(e) = Depth(r)
  BY EnteredGood
<1>2. fr \in Frame /\ NodeIn(fr.flow, fr.node)
  BY TopFrame
<1>3. x \in Frame /\ x.flow = fr.flow /\ x.node = fr.node /\ x.cont = fr.cont
  BY <1>2 DEF Frame
<1>4. Applied(r, resumed, loops) = Idle(SetTop(e, x), "running")
  BY DEF Applied
<1> HIDE DEF x, e
<1>5. Good(SetTop(e, x)) /\ Top(SetTop(e, x)) = x /\ Depth(SetTop(e, x)) = Depth(r)
  BY <1>1, <1>2, <1>3, SetTopGood
<1> QED BY <1>3, <1>4, <1>5, IdleGood DEF Status

LEMMA MoveGood ==
    ASSUME NEW r, Good(r), NEW n, NodeIn(Top(r).flow, n)
    PROVE  Good(Move(r, n))
<1> DEFINE fr == Top(r)
           x == [fr EXCEPT !.node = n, !.attempts[fr.node] = None]
<1>1. fr \in Frame /\ fr.flow \in Flow
  BY TopFrame, TopDef
<1>2. n \in Node
  BY <1>1, DefWellFormed
<1>3. x \in Frame /\ x.flow = fr.flow /\ x.node = n /\ x.cont = fr.cont
  BY <1>1, <1>2 DEF Frame
<1>4. Move(r, n) = SetTop(r, x)
  BY DEF Move
<1> HIDE DEF x
<1> QED BY <1>3, <1>4, SetTopGood

LEMMA PushGood ==
    ASSUME NEW r, Good(r), NEW f \in Flow, NEW cont, LinkOK(Top(r), cont)
    PROVE  Good(Push(r, f, cont))
<1> DEFINE x == NewFrame(f, cont)
           e == Append(r.frames, x)
<1>1. x \in Frame /\ x.cont = cont /\ NodeIn(x.flow, x.node)
  BY NewFrameGood DEF LinkOK
<1>2. r.frames \in Seq(Frame) /\ Linked(r.frames)
  BY DEF Good, RunState
<1> HIDE DEF x
<1>3. e \in Seq(Frame) /\ Linked(e)
  BY <1>1, <1>2, Above DEF Top, Depth
<1>4. Push(r, f, cont) = [r EXCEPT !.frames = e]
  BY DEF Push, x
<1> HIDE DEF e
<1> QED BY <1>3, <1>4 DEF Good, RunState

LEMMA ReplaceGood ==
    ASSUME NEW r, Good(r), NEW f \in Flow
    PROVE  Good(Replace(r, f))
<1>1. Top(r).cont \in Continuation \cup {None}
  BY TopFrame DEF Frame
<1> QED BY <1>1, NewFrameGood, SetTopGood DEF Replace

LEMMA PopGood ==
    ASSUME NEW r, Good(r), Depth(r) > 1
    PROVE  Good(Pop(r))
<1> DEFINE i == Depth(r) - 1
           s == SubSeq(r.frames, 1, i)
           below == [r EXCEPT !.frames = s]
           cont == Top(r).cont
           fr == Top(below)
           x == [fr EXCEPT !.node = cont.returnTo, !.attempts[cont.caller] = None]
<1>1. Depth(r) \in Nat /\ i \in Nat /\ i \in 1..Depth(r) /\ i + 1 = Depth(r)
  BY TopFrame
<1>2. r.frames \in Seq(Frame) /\ Linked(r.frames)
  BY DEF Good, RunState
<1> HIDE DEF i
<1>3. s \in Seq(Frame) /\ Linked(s) /\ Len(s) = i /\ s[i] = r.frames[i]
  BY <1>1, <1>2, Below DEF Depth
<1>4. LinkOK(r.frames[i], cont)
  <2>1. i \in 1..(Len(r.frames) - 1)
    BY <1>1 DEF Depth
  <2> QED BY <1>1, <1>2, <2>1 DEF Linked, Depth, Top
<1> HIDE DEF s
<1>5. Good(below) /\ fr = r.frames[i]
  BY <1>3 DEF Good, RunState, Top, Depth
<1> HIDE DEF below, cont
<1>6. fr \in Frame /\ NodeIn(fr.flow, cont.returnTo) /\ cont.caller \in Node
      /\ cont.returnTo \in Node
  BY <1>4, <1>5, TopFrame DEF LinkOK, Continuation
<1>7. x \in Frame /\ x.flow = fr.flow /\ x.node = cont.returnTo /\ x.cont = fr.cont
  BY <1>6 DEF Frame
<1>8. Pop(r) = SetTop(below, x)
  BY DEF Pop, below, s, i, cont
<1> HIDE DEF x
<1> QED BY <1>5, <1>6, <1>7, <1>8, SetTopGood

LEMMA EndGood ==
    ASSUME NEW r, Good(r)
    PROVE  Good(End(r))
<1>1. CASE Depth(r) > 1
  BY <1>1, PopGood DEF End
<1>2. CASE ~(Depth(r) > 1)
  <2>1. End(r) \in RunState /\ End(r).frames = r.frames
    BY <1>2 DEF End, Good, RunState, Status
  <2> QED BY <2>1, SameFrames
<1> QED BY <1>1, <1>2

LEMMA SuspendGood ==
    ASSUME NEW r, Good(r), NEW deadline \in OptTime
    PROVE  Good(Suspend(r, deadline))
<1> DEFINE pending == [node |-> Top(r).node, reason |-> "suspend",
                       deadline |-> deadline, resumeAt |-> None]
<1>1. pending \in Pending
  BY TopDef DEF Pending, OptTime
<1>2. Suspend(r, deadline) = [r EXCEPT !.status = "suspended", !.pending = pending]
  BY DEF Suspend
<1> HIDE DEF pending
<1>3. Suspend(r, deadline) \in RunState /\ Suspend(r, deadline).frames = r.frames
  BY <1>1, <1>2 DEF Good, RunState, Status
<1> QED BY <1>3, SameFrames

(* Checkpoints.  The active node has an attempt after them. *)

LEMMA EnterGood ==
    ASSUME NEW r, Good(r), NEW t \in Time
    PROVE  Good(Enter(r, t))
<1> DEFINE fr == Top(r)
           total == DefOf(fr).policy.total
           deadline == IF total = None THEN None ELSE Later(t, total)
           inv == r.invocation + 1
           a == [inv |-> inv, count |-> 0, interruptions |-> 0,
                 deadline |-> deadline, retryAt |-> None]
           x == [fr EXCEPT !.attempts[fr.node] = a]
<1>1. fr \in Frame /\ NodeIn(fr.flow, fr.node)
  BY TopFrame
<1>2. total \in Nat \cup {None}
  BY TopDef DEF NodeDefs, Policy
<1>3. deadline \in OptTime
  <2> HIDE DEF total
  <2> QED BY <1>2, TimeTypes
<1>4. inv \in Nat
  BY DEF Good, RunState
<1>5. a \in Attempt
  <2> HIDE DEF deadline, inv
  <2> QED BY <1>3, <1>4 DEF Attempt, OptTime
<1>6. x \in Frame /\ x.flow = fr.flow /\ x.node = fr.node /\ x.cont = fr.cont
  <2> HIDE DEF a
  <2> QED BY <1>1, <1>5, AttemptFrame
<1>7. Enter(r, t) = Entered(SetTop(r, x))
  BY DEF Enter
<1> HIDE DEF x
<1> QED BY <1>1, <1>6, <1>7, SetTopGood, EnteredGood

LEMMA InterruptGood ==
    ASSUME NEW r, Good(r), Own(Top(r), Top(r).node) # None
    PROVE  Good(Interrupt(r)) /\ Own(Top(Interrupt(r)), Top(Interrupt(r)).node) # None
<1> DEFINE fr == Top(r)
           n == Own(fr, fr.node).interruptions + 1
           a == [Own(fr, fr.node) EXCEPT !.interruptions = n]
           x == [fr EXCEPT !.attempts[fr.node] = a]
<1>1. fr \in Frame /\ NodeIn(fr.flow, fr.node) /\ fr.node \in Node
  BY TopFrame, TopDef
<1>2. a \in Attempt
  <2>1. Own(fr, fr.node) \in Attempt
    BY TopDef DEF Own
  <2>2. n \in Nat
    BY <2>1 DEF Attempt
  <2> HIDE DEF n
  <2> QED BY <2>1, <2>2 DEF Attempt
<1>3. Interrupt(r) = SetTop(r, x)
  BY DEF Interrupt, Own
<1> HIDE DEF a
<1>4. x \in Frame /\ x.flow = fr.flow /\ x.node = fr.node /\ x.cont = fr.cont
  BY <1>1, <1>2, AttemptFrame
<1>5. Own(x, x.node) = a
  BY <1>1, <1>4 DEF Own, Frame
<1> HIDE DEF x
<1>6. Good(SetTop(r, x)) /\ Top(SetTop(r, x)) = x
  BY <1>1, <1>4, SetTopGood
<1>7. a # None
  BY <1>2, AbsentAssumption
<1> QED BY <1>3, <1>5, <1>6, <1>7

LEMMA BeginAttemptGood ==
    ASSUME NEW r, Good(r), Own(Top(r), Top(r).node) # None
    PROVE  Good(BeginAttempt(r)) /\ Own(Top(BeginAttempt(r)), Top(BeginAttempt(r)).node) # None
<1> DEFINE fr == Top(r)
           a == Own(fr, fr.node)
           count == a.count + 1
           next == [a EXCEPT !.count = count, !.interruptions = 0, !.retryAt = None]
           x == [fr EXCEPT !.attempts[fr.node] = next]
           inFlight == [node |-> fr.node, attempt |-> next.count, inv |-> a.inv]
           q == SetTop(r, x)
<1>1. fr \in Frame /\ NodeIn(fr.flow, fr.node) /\ fr.node \in Node
  BY TopFrame, TopDef
<1>2. a \in Attempt
  BY TopDef DEF Own
<1>3. next \in Attempt /\ next.count \in Nat /\ a.inv \in Nat
  <2>1. count \in Nat
    BY <1>2 DEF Attempt
  <2> HIDE DEF count, a
  <2> QED BY <1>2, <2>1 DEF Attempt, OptTime
<1>4. BeginAttempt(r) = [q EXCEPT !.status = "running", !.pending = None, !.inFlight = inFlight]
  BY DEF BeginAttempt
<1>5. inFlight \in InFlight
  <2> HIDE DEF next, a
  <2> QED BY <1>1, <1>3 DEF InFlight
<1> HIDE DEF next, inFlight
<1>6. x \in Frame /\ x.flow = fr.flow /\ x.node = fr.node /\ x.cont = fr.cont
  BY <1>1, <1>3, AttemptFrame
<1>7. Own(x, x.node) = next
  BY <1>1, <1>6 DEF Own, Frame
<1> HIDE DEF x
<1>8. Good(q) /\ Top(q) = x
  BY <1>1, <1>6, SetTopGood
<1> HIDE DEF q
<1>9. BeginAttempt(r) \in RunState /\ BeginAttempt(r).frames = q.frames
  BY <1>4, <1>5, <1>8 DEF Good, RunState, Status
<1>10. Good(BeginAttempt(r)) /\ Top(BeginAttempt(r)) = x
  BY <1>8, <1>9, SameFrames
<1>11. next # None
  BY <1>3, AbsentAssumption
<1> QED BY <1>7, <1>10, <1>11

LEMMA ResuspendGood ==
    ASSUME NEW r, Good(r), Own(Top(r), Top(r).node) # None
    PROVE  Good(Resuspend(r))
<1> DEFINE fr == Top(r)
           pending == [node |-> fr.node, reason |-> "retry", deadline |-> None,
                       resumeAt |-> Own(fr, fr.node).retryAt]
<1>1. Own(fr, fr.node) \in Attempt
  BY TopDef DEF Own
<1>2. pending \in Pending
  BY <1>1, TopDef DEF Pending, OptTime, Attempt
<1>3. Resuspend(r) = [r EXCEPT !.status = "suspended", !.pending = pending]
  BY DEF Resuspend
<1> HIDE DEF pending
<1>4. Resuspend(r) \in RunState /\ Resuspend(r).frames = r.frames
  BY <1>2, <1>3 DEF Good, RunState, Status
<1> QED BY <1>4, SameFrames

-----------------------------------------------------------------------------
(* The inductive invariant: TypeOK, with stacks whose frames fit together, *)
(* and an attempt to launch wherever the loop is about to launch one.      *)
IInv ==
    /\ TypeOK
    /\ Good(run) /\ Good(store)
    /\ pc \in {"launch", "yieldLaunch"} => Progress # None

LEMMA InitInv == Init => IInv
<1> SUFFICES ASSUME Init PROVE IInv
  OBVIOUS
<1> DEFINE x == NewFrame(Root, None)
<1>1. x \in Frame /\ x.cont = None /\ NodeIn(x.flow, x.node)
  BY FlowAssumption, NewFrameGood
<1> HIDE DEF x
<1>2. <<x>> \in Seq(Frame) /\ Linked(<<x>>)
  BY <1>1 DEF Linked
<1>3. InitialRun \in RunState /\ InitialRun.frames = <<x>>
  <2>1. InitialRun = [status |-> "running", frames |-> <<x>>, steps |-> 0, invocation |-> 0,
                      inFlight |-> None, pending |-> None, error |-> None]
    BY DEF InitialRun, x
  <2> DEFINE s == <<x>>
  <2>2. s \in Seq(Frame)
    BY <1>2
  <2> HIDE DEF s
  <2>3. [status |-> "running", frames |-> s, steps |-> 0, invocation |-> 0,
         inFlight |-> None, pending |-> None, error |-> None] \in RunState
    BY <2>2 DEF RunState, Status
  <2> QED BY <2>1, <2>3 DEF s
<1>4. Good(InitialRun)
  BY <1>2, <1>3 DEF Good
<1>5. 0 \in Time
  BY FlowAssumption DEF Time
<1>6. DOMAIN work = {}
  BY DEF Init
<1>7. Good(run) /\ Good(store) /\ pc = "top"
  BY <1>4 DEF Init
<1>8. TypeOK
  BY <1>5, <1>6, <1>7, TopFrame DEF Init, TypeOK, Good, Pcs
<1> QED BY <1>7, <1>8 DEF IInv

(* A good document committed by the loop. *)
LEMMA CommitInv ==
    ASSUME IInv, NEW q, Good(q), Commit(q)
    PROVE  IInv'
<1>1. /\ run' = q /\ pc' = "yieldTop" /\ store' = store
      /\ UNCHANGED <<event, aborted, now, crashes, recovering, work>>
  BY DEF Commit, Yield
<1>2. Good(run') /\ Good(store')
  BY <1>1 DEF IInv
<1>3. TypeOK'
  BY <1>1, <1>2, TopFrame DEF IInv, TypeOK, Good, Pcs
<1> QED BY <1>1, <1>2, <1>3 DEF IInv

(* A checkpoint committed before an attempt. *)
LEMMA CheckpointInv ==
    ASSUME IInv, NEW q, Good(q), Own(Top(q), Top(q).node) # None,
           Yield(q, "yieldLaunch"), recovering' = FALSE, UNCHANGED work
    PROVE  IInv'
<1>1. /\ run' = q /\ pc' = "yieldLaunch" /\ store' = store
      /\ UNCHANGED <<event, aborted, now, crashes>>
  BY DEF Yield
<1>2. Good(run') /\ Good(store')
  BY <1>1 DEF IInv
<1>3. TypeOK'
  BY <1>1, <1>2, TopFrame DEF IInv, TypeOK, Good, Pcs
<1>4. Progress' # None
  BY <1>1 DEF Progress
<1> QED BY <1>2, <1>3, <1>4 DEF IInv

(* Node code is started under a number. *)
LEMMA StartInv ==
    ASSUME IInv, NEW inv \in Nat, NEW attempt \in Nat, Start(inv, attempt)
    PROVE  IInv'
<1> DEFINE site == <<Depth(run), Top(run).flow, Top(run).node>>
           again == inv \in DOMAIN work /\ work[inv].attempt = attempt
           starts == IF again THEN work[inv].starts + 1 ELSE 1
           entry == [site |-> site, attempt |-> attempt, starts |-> starts]
           E == [site : Nat \X Flow \X Node, attempt : Nat, starts : Nat]
<1>1. site \in Nat \X Flow \X Node
  BY TopFrame, TopDef DEF IInv
<1>2. starts \in Nat
  BY DEF IInv, TypeOK
<1>3. entry \in E
  <2> HIDE DEF site, starts
  <2> QED BY <1>1, <1>2
<1>4. work' = [i \in DOMAIN work \cup {inv} |-> IF i = inv THEN entry ELSE work[i]]
  BY DEF Start, Record
<1> HIDE DEF entry
<1>5. DOMAIN work' \subseteq Nat /\ \A i \in DOMAIN work' : work'[i] \in E
  BY <1>3, <1>4 DEF IInv, TypeOK
<1>6. pc' = "exec" /\ UNCHANGED <<run, store, recovering, event, aborted, now, crashes>>
  BY DEF Start
<1> HIDE DEF E
<1>7. TypeOK'
  BY <1>5, <1>6 DEF IInv, TypeOK, Pcs, E
<1> QED BY <1>6, <1>7 DEF IInv

LEMMA HostInv ==
    ASSUME IInv, \/ Persist \/ Crash \/ Recover \/ AbortRequest \/ Tick
                 \/ \E e \in Events : Resume(e)
    PROVE  IInv'
<1>1. CASE Persist
  <2>1. /\ store' = run /\ UNCHANGED <<run, now, crashes, work>>
        /\ pc' \in {"down", "top", "launch"} /\ (pc' = "launch" => pc = "yieldLaunch")
        /\ recovering' \in BOOLEAN /\ aborted' \in BOOLEAN /\ event' \in Events \cup {None}
    BY <1>1 DEF Persist, IInv, TypeOK, Pcs
  <2>2. Progress' = Progress
    BY <2>1 DEF Progress
  <2> QED BY <2>1, <2>2 DEF IInv, TypeOK, Pcs
<1>2. CASE Crash
  <2>1. crashes' \in Nat
    BY <1>2 DEF Crash, IInv, TypeOK
  <2> QED BY <1>2, <2>1 DEF Crash, IInv, TypeOK, Pcs
<1>3. CASE Recover
  BY <1>3 DEF Recover, NextClock, IInv, TypeOK, Pcs
<1>4. CASE AbortRequest
  <2>1. Progress' = Progress
    BY <1>4 DEF AbortRequest, Progress
  <2> QED BY <1>4, <2>1 DEF AbortRequest, IInv, TypeOK, Pcs
<1>5. CASE Tick
  <2>1. now' \in Time
    BY <1>5, FlowAssumption DEF Tick, IInv, TypeOK, Time
  <2>2. Progress' = Progress
    BY <1>5 DEF Tick, Progress
  <2> QED BY <1>5, <2>1, <2>2 DEF Tick, IInv, TypeOK, Pcs
<1>6. CASE \E e \in Events : Resume(e)
  <2>1. PICK e \in Events : Resume(e)
    BY <1>6
  <2> QED BY <2>1 DEF Resume, NextClock, IInv, TypeOK, Pcs
<1> QED BY <1>1, <1>2, <1>3, <1>4, <1>5, <1>6

LEMMA InvTypes ==
    ASSUME IInv
    PROVE  /\ Good(run) /\ now \in Time /\ run.invocation \in Nat
           /\ \A d \in DelayChoices : d \in [1..Depth(run) -> Delays]
           /\ Progress # None => Progress.inv \in Nat /\ Progress.count \in Nat
<1>1. Good(run) /\ now \in Time /\ run.invocation \in Nat
  BY DEF IInv, TypeOK, RunState
<1>2. Progress # None => Progress \in Attempt
  BY <1>1, TopDef DEF Progress, Own
<1> QED BY <1>1, <1>2 DEF DelayChoices, Attempt

LEMMA DriveInv ==
    ASSUME IInv, Drive
    PROVE  IInv'
<1> USE InvTypes
<1>1. CASE DriveAbort
  BY <1>1, AbortGood, CommitInv DEF DriveAbort
<1>2. CASE DriveResuspend
  <2>1. Own(Top(run), Top(run).node) # None /\ Commit(Resuspend(run))
    BY <1>2 DEF DriveResuspend, RetryPending, Progress
  <2> QED BY <2>1, ResuspendGood, CommitInv
<1>3. CASE DriveSleep
  <2>1. /\ pc' = "sleep" /\ recovering' = FALSE
        /\ UNCHANGED <<run, store, event, aborted, now, crashes, work>>
    BY <1>3 DEF DriveSleep
  <2> QED BY <2>1 DEF IInv, TypeOK, Pcs
<1>4. CASE DriveExpire
  <2>1. PICK d \in DelayChoices : Commit(FailNode(run, "total_timeout", now, d))
    BY <1>4 DEF DriveExpire
  <2> QED BY <2>1, FailNodeGood, CommitInv
<1>5. CASE DriveMaxSteps
  <2>1. PICK d \in DelayChoices : Commit(FailRun(run, "max_steps", None, now, d))
    BY <1>5 DEF DriveMaxSteps
  <2>2. "max_steps" \in Codes
    BY DEF Codes
  <2> QED BY <2>1, <2>2, FailRunGood, CommitInv
<1>6. CASE DriveEnter
  BY <1>6, EnterGood, CommitInv DEF DriveEnter
<1>7. CASE DriveInterrupted
  <2>1. PICK d \in DelayChoices : Commit(FailNode(run, "interrupted", now, d))
    BY <1>7 DEF DriveInterrupted
  <2> QED BY <2>1, FailNodeGood, CommitInv
<1>8. CASE DriveReplay
  <2>1. /\ Own(Top(run), Top(run).node) # None
        /\ Yield(Interrupt(run), "yieldLaunch") /\ recovering' = FALSE /\ UNCHANGED work
    BY <1>8 DEF DriveReplay, InTime, Progress
  <2> QED BY <2>1, InterruptGood, CheckpointInv
<1>9. CASE DriveAttempt
  <2>1. /\ Own(Top(run), Top(run).node) # None
        /\ Yield(BeginAttempt(run), "yieldLaunch") /\ recovering' = FALSE /\ UNCHANGED work
    BY <1>9 DEF DriveAttempt, InTime, Progress
  <2> QED BY <2>1, BeginAttemptGood, CheckpointInv
<1>10. CASE DriveExecute
  <2>1. run.invocation + 1 \in Nat /\ Start(run.invocation + 1, 1)
    BY <1>10 DEF DriveExecute
  <2> QED BY <2>1, StartInv
<1>11. CASE DriveResumed
  BY <1>11, StartInv DEF DriveResumed
<1>12. CASE LaunchAborted
  BY <1>12, AbortGood, CommitInv DEF LaunchAborted
<1>13. CASE LaunchLate
  <2>1. PICK d \in DelayChoices : Commit(HandleNodeError(run, FALSE, "plain", now, d))
    BY <1>13 DEF LaunchLate
  <2>2. "plain" \in Errors
    BY DEF Errors
  <2> QED BY <2>1, <2>2, HandleNodeErrorGood, CommitInv
<1>14. CASE Launch
  <2>1. Progress # None /\ Start(Progress.inv, Progress.count)
    BY <1>14 DEF Launch, IInv
  <2> QED BY <2>1, StartInv
<1> QED BY <1>1, <1>2, <1>3, <1>4, <1>5, <1>6, <1>7, <1>8, <1>9, <1>10, <1>11,
           <1>12, <1>13, <1>14 DEF Drive

-----------------------------------------------------------------------------
(* The outcomes of node code. *)

LEMMA FailsInv ==
    ASSUME IInv, NEW resumed \in BOOLEAN, NEW err \in Errors, Fails(resumed, err)
    PROVE  IInv'
<1>1. PICK d \in DelayChoices : Commit(HandleNodeError(run, resumed, err, now, d))
  BY DEF Fails
<1> QED BY <1>1, InvTypes, HandleNodeErrorGood, CommitInv

LEMMA CompletesInv ==
    ASSUME IInv, NEW q, Good(q), Completes(q)
    PROVE  IInv'
BY CommitInv DEF Completes

LEMMA ErrorNames ==
    {"invalid_value", "plain", "retryable", "loop_exhausted", "invalid_suspend",
     "missing_flow", "invalid_flow", "invalid_input", "max_depth"} \subseteq Errors
BY DEF Errors, RunCodes, ReferenceCodes

(* What a finished node leaves: the same place, with its loop counters. *)
LEMMA DoneGood ==
    ASSUME IInv, NEW loops \in [Node -> Nat]
    PROVE  /\ Good(Done(loops)) /\ Top(Done(loops)).flow = Top(run).flow
           /\ Top(Done(loops)).node = Top(run).node
           /\ Top(run).flow \in Flow /\ Top(run).node \in Node
           /\ Active \in NodeDefs /\ WellFormed(Top(run).flow, Active)
BY InvTypes, AppliedGood, TopDef DEF Done, Active

LEMMA LoopsType ==
    ASSUME IInv
    PROVE  /\ Loops \in [Node -> Nat]
           /\ \A n \in Node : [Loops EXCEPT ![n] = 0] \in [Node -> Nat]
           /\ \A n \in Node : [Loops EXCEPT ![n] = @ + 1] \in [Node -> Nat]
<1>1. Loops \in [Node -> Nat]
  BY InvTypes, TopFrame DEF Loops, Frame
<1> HIDE DEF Loops
<1> QED BY <1>1

(* A move to a target of the definition. *)
LEMMA MoveInv ==
    ASSUME IInv, NEW loops \in [Node -> Nat], NEW n, NodeIn(Top(run).flow, n),
           Completes(Move(Done(loops), n))
    PROVE  IInv'
BY DoneGood, MoveGood, CompletesInv

LEMMA UnpreparedInv ==
    ASSUME IInv, Unprepared
    PROVE  IInv'
<1>1. PICK err \in {"missing_flow", "invalid_flow", "invalid_input"} : Fails(FALSE, err)
  BY DEF Unprepared
<1> QED BY <1>1, ErrorNames, FailsInv

LEMMA LoopInv ==
    ASSUME IInv, LoopExit \/ LoopExhausted \/ LoopBody
    PROVE  IInv'
<1> DEFINE n == Top(run).node
           reset == [Loops EXCEPT ![n] = 0]
           bump == [Loops EXCEPT ![n] = @ + 1]
           cont == [kind |-> "loopBody", caller |-> n, returnTo |-> n, onError |-> None]
<1>1. reset \in [Node -> Nat] /\ bump \in [Node -> Nat] /\ n \in Node
  BY DoneGood, LoopsType
<1> HIDE DEF reset, bump
<1>2. CASE LoopExit
  <2>1. Active.kind = "loop" /\ Completes(Move(Done(reset), Active.exit))
    BY <1>2 DEF LoopExit, Ran, reset
  <2>2. NodeIn(Top(run).flow, Active.exit)
    BY <1>1, <2>1, DoneGood DEF WellFormed, NodeIn
  <2> QED BY <1>1, <2>1, <2>2, MoveInv
<1>3. CASE LoopExhausted
  <2>1. CASE Active.exhausted = None
    BY <1>3, <2>1, ErrorNames, FailsInv DEF LoopExhausted
  <2>2. CASE Active.exhausted # None
    <3>1. Completes(Move(Done(reset), Active.exhausted))
      BY <1>3, <2>2 DEF LoopExhausted, reset
    <3>2. NodeIn(Top(run).flow, Active.exhausted)
      BY <1>1, <2>2, DoneGood DEF WellFormed, NodeIn
    <3> QED BY <1>1, <3>1, <3>2, MoveInv
  <2> QED BY <2>1, <2>2
<1>4. CASE LoopBody
  <2>1. Active.kind = "loop"
    BY <1>4 DEF LoopBody, Ran
  <2>2. CASE Active.flow = None /\ Completes(Move(Done(bump), Active.body))
    <3>1. NodeIn(Top(run).flow, Active.body)
      BY <1>1, <2>1, <2>2, DoneGood DEF WellFormed, NodeIn
    <3> QED BY <1>1, <2>2, <3>1, MoveInv
  <2>3. CASE Fails(FALSE, "max_depth")
    BY <2>3, ErrorNames, FailsInv
  <2>4. CASE Unprepared
    BY <2>4, UnpreparedInv
  <2>5. CASE Active.flow # None /\ Completes(Push(Done(bump), Active.flow, cont))
    <3>1. Active.flow \in Flow
      BY <1>1, <2>5, DoneGood DEF NodeDefs
    <3>2. Good(Done(bump)) /\ LinkOK(Top(Done(bump)), cont)
      <4>1. Good(Done(bump)) /\ Top(Done(bump)).node = n
        BY <1>1, DoneGood
      <4>2. NodeIn(Top(Done(bump)).flow, n)
        BY <4>1, TopFrame
      <4>3. cont \in Continuation
        BY <1>1 DEF Continuation, OptNode
      <4> QED BY <4>1, <4>2, <4>3 DEF LinkOK
    <3> HIDE DEF cont
    <3> QED BY <2>5, <3>1, <3>2, PushGood, CompletesInv
  <2> QED BY <1>4, <2>2, <2>3, <2>4, <2>5 DEF LoopBody, bump
<1> QED BY <1>2, <1>3, <1>4

LEMMA CallInv ==
    ASSUME IInv, FinishCall
    PROVE  IInv'
<1> DEFINE cont == [kind |-> "call", caller |-> Top(run).node,
                    returnTo |-> Active.next, onError |-> Active.onError]
<1>1. CASE Fails(FALSE, "max_depth") \/ Fails(FALSE, "plain")
  BY <1>1, ErrorNames, FailsInv
<1>2. CASE Unprepared
  BY <1>2, UnpreparedInv
<1>3. CASE Completes(Push(Done(Loops), Active.flow, cont))
  <2>1. Active.kind = "call"
    BY DEF FinishCall, Ran
  <2>2. /\ Good(Done(Loops)) /\ Top(Done(Loops)).flow = Top(run).flow
        /\ Top(Done(Loops)).node = Top(run).node /\ Top(run).node \in Node
        /\ Active \in NodeDefs /\ WellFormed(Top(run).flow, Active)
        /\ Top(run).flow \in Flow
    BY LoopsType, DoneGood
  <2>3. Active.flow \in Flow /\ NodeIn(Top(run).flow, Active.next)
    BY <2>1, <2>2 DEF WellFormed, NodeIn
  <2>4. Active.onError = None \/ NodeIn(Top(run).flow, Active.onError)
    BY <2>2 DEF WellFormed, NodeIn
  <2>5. Active.next \in Node /\ Active.onError \in OptNode
    BY <2>2, <2>3, DefWellFormed DEF NodeDefs
  <2>6. LinkOK(Top(Done(Loops)), cont)
    <3>1. cont \in Continuation
      BY <2>2, <2>5 DEF Continuation
    <3> QED BY <2>2, <2>3, <2>4, <3>1 DEF LinkOK
  <2> HIDE DEF cont
  <2> QED BY <1>3, <2>2, <2>3, <2>6, PushGood, CompletesInv
<1> QED BY <1>1, <1>2, <1>3 DEF FinishCall

LEMMA InputInv ==
    ASSUME IInv, FinishInput \/ FinishResume
    PROVE  IInv'
<1>1. CASE FinishInput
  <2> DEFINE deadline == IF Active.timeout = None THEN None ELSE Later(now, Active.timeout)
  <2>1. Active.timeout \in Nat \cup {None} /\ Good(Done(Loops))
    BY LoopsType, DoneGood DEF NodeDefs
  <2>2. deadline \in OptTime
    BY <2>1, InvTypes, TimeTypes
  <2>3. Completes(Suspend(Done(Loops), deadline))
    BY <1>1 DEF FinishInput
  <2> HIDE DEF deadline
  <2> QED BY <2>1, <2>2, <2>3, SuspendGood, CompletesInv
<1>2. CASE FinishResume
  <2> DEFINE target == CASE event = "timeout" -> Active.timeoutTo
                         [] event = "decline" -> Active.decline
                         [] OTHER -> Active.next
             q == Applied(run, TRUE, Loops)
  <2>1. /\ Active.kind = "input"
        /\ IF target = None THEN Fails(TRUE, "invalid_suspend") ELSE Completes(Move(q, target))
    BY <1>2 DEF FinishResume, Ran
  <2>2. CASE target = None
    BY <2>1, <2>2, ErrorNames, FailsInv
  <2>3. CASE target # None
    <3>1. NodeIn(Top(run).flow, target)
      <4>1. target \in {Active.timeoutTo, Active.decline, Active.next}
        OBVIOUS
      <4> HIDE DEF target
      <4> QED BY <2>1, <2>3, <4>1, LoopsType, DoneGood DEF WellFormed, NodeIn
    <3>2. Good(q) /\ Top(q).flow = Top(run).flow
      BY InvTypes, LoopsType, AppliedGood
    <3> HIDE DEF target, q
    <3> QED BY <2>1, <2>3, <3>1, <3>2, MoveGood, CompletesInv
  <2> QED BY <2>2, <2>3
<1> QED BY <1>1, <1>2

LEMMA FinishInv ==
    ASSUME IInv, Finish
    PROVE  IInv'
<1>1. CASE ExecAborted
  BY <1>1, InvTypes, AbortGood, CommitInv DEF ExecAborted
<1>2. CASE FinishStep
  <2>1. CASE \E n \in Active.targets : Completes(Move(Done(Loops), n))
    <3>1. PICK n \in Active.targets : Completes(Move(Done(Loops), n))
      BY <2>1
    <3>2. NodeIn(Top(run).flow, n)
      BY LoopsType, DoneGood DEF WellFormed, NodeIn
    <3> QED BY <3>1, <3>2, LoopsType, MoveInv
  <2>2. CASE \E err \in {"invalid_value", "plain"} : Fails(FALSE, err)
    BY <2>2, ErrorNames, FailsInv
  <2> QED BY <1>2, <2>1, <2>2 DEF FinishStep
<1>3. CASE FinishAction
  <2>1. CASE Completes(Move(Done(Loops), Active.next))
    <3>1. NodeIn(Top(run).flow, Active.next)
      BY <1>3, LoopsType, DoneGood DEF FinishAction, Ran, WellFormed, NodeIn
    <3> QED BY <2>1, <3>1, LoopsType, MoveInv
  <2>2. CASE \E err \in {"invalid_value", "retryable", "plain"} : Fails(FALSE, err)
    BY <2>2, ErrorNames, FailsInv
  <2> QED BY <1>3, <2>1, <2>2 DEF FinishAction
<1>4. CASE LoopExit \/ LoopExhausted \/ LoopBody
  BY <1>4, LoopInv
<1>5. CASE FinishCall
  BY <1>5, CallInv
<1>6. CASE FinishGoto
  <2>1. CASE Unprepared
    BY <2>1, UnpreparedInv
  <2>2. CASE Completes(Replace(Done(Loops), Active.flow))
    <3>1. Active.flow \in Flow /\ Good(Done(Loops))
      BY <1>6, LoopsType, DoneGood DEF FinishGoto, Ran, WellFormed
    <3> QED BY <2>2, <3>1, ReplaceGood, CompletesInv
  <2> QED BY <1>6, <2>1, <2>2 DEF FinishGoto
<1>7. CASE FinishInput \/ FinishResume
  BY <1>7, InputInv
<1>8. CASE FinishEnd
  <2>1. CASE Completes(End(Done(Loops)))
    BY <2>1, LoopsType, DoneGood, EndGood, CompletesInv
  <2>2. CASE Fails(FALSE, "invalid_value")
    BY <2>2, ErrorNames, FailsInv
  <2> QED BY <1>8, <2>1, <2>2 DEF FinishEnd
<1> QED BY <1>1, <1>2, <1>3, <1>4, <1>5, <1>6, <1>7, <1>8 DEF Finish

-----------------------------------------------------------------------------

LEMMA NextInv == IInv /\ [Next]_vars => IInv'
<1> SUFFICES ASSUME IInv, [Next]_vars PROVE IInv'
  OBVIOUS
<1>1. CASE Drive
  BY <1>1, DriveInv
<1>2. CASE Finish
  BY <1>2, FinishInv
<1>3. CASE Stopped \/ UNCHANGED vars
  <2>1. UNCHANGED vars
    BY <1>3 DEF Stopped
  <2>2. Progress' = Progress
    BY <2>1 DEF vars, Progress
  <2> QED BY <2>1, <2>2 DEF vars, IInv, TypeOK
<1>4. CASE \/ Persist \/ Crash \/ Recover \/ AbortRequest \/ Tick
           \/ \E e \in Events : Resume(e)
  BY <1>4, HostInv
<1> QED BY <1>1, <1>2, <1>3, <1>4 DEF Next

(* The documents the runner and the host hold are run states, and the      *)
(* history is well formed, for every set of flow definitions that check()  *)
(* accepts, all policies, delays and bounds.                               *)
THEOREM TypeCorrect == Spec => []TypeOK
<1>1. Init => IInv
  BY InitInv
<1>2. IInv /\ [Next]_vars => IInv'
  BY NextInv
<1>3. IInv => TypeOK
  BY DEF IInv
<1> QED BY <1>1, <1>2, <1>3, PTL DEF Spec
=============================================================================
