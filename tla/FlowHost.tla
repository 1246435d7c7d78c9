------------------------------ MODULE FlowHost ------------------------------
(***************************************************************************)
(* Segments of one run in several processes: the FlowRun handle that       *)
(* graph.resume() and graph.recover() give (run.ts 564-624), its lazy      *)
(* preparation, and hosts that persist what it yields with a compare and   *)
(* set of the revision, as the README asks of them.                        *)
(*                                                                         *)
(* The run's document is reduced to what hosts can quarrel over: whether   *)
(* an attempt is in flight, under which invocation id, and how many        *)
(* results are in it.  FlowRun has the document, and one host; here entry  *)
(* and checkpoint of a node are one commit.                                *)
(***************************************************************************)
EXTENDS Naturals, FiniteSets

CONSTANTS
    Hosts,
    MaxKey,       \* bound: invocation ids drawn
    MaxOpen       \* bound: segments opened

ASSUME HostAssumption == MaxKey \in Nat /\ MaxOpen \in Nat

Document == [revision : Nat, status : {"running", "suspended", "ended", "aborted"},
             key : 0..MaxKey, inFlight : BOOLEAN]

Final(d) == d.status \in {"ended", "aborted"}

(* A segment.  call: the call of next() in progress, if there is one.      *)
(* held: a yielded state that the host has not persisted.  read: the       *)
(* revision it read before the segment or wrote last.                      *)
Segment == [doc : Document, prepared : BOOLEAN, recovering : BOOLEAN, aborted : BOOLEAN,
            call : {"none", "preparing", "driving", "effect"},
            generator : {"live", "finished"}, closed : BOOLEAN,
            span : {"open", "failed", "ended"}, held : BOOLEAN, read : Nat]

VARIABLES
    store,      \* the document as it is persisted
    open,       \* hosts that have a segment
    segment,    \* their segments
    opened,     \* number of segments opened
    starts,     \* history: how often the effect of each invocation was started
    replays,    \* history: how often a segment found it in flight when it opened
    results     \* history: how often a result of it was persisted

host == <<store, open, segment, opened, starts, replays, results>>
histories == <<starts, replays, results>>

Invocations == 1..MaxKey

Blank(doc) == [doc |-> doc, prepared |-> FALSE, recovering |-> doc.status = "running",
               aborted |-> FALSE, call |-> "none", generator |-> "live", closed |-> FALSE,
               span |-> "open", held |-> FALSE, read |-> doc.revision]

First == [revision |-> 1, status |-> "suspended", key |-> 0, inFlight |-> FALSE]

HostInit ==
    /\ store = First
    /\ open = {} /\ segment = [h \in Hosts |-> Blank(First)] /\ opened = 0
    /\ starts = [k \in Invocations |-> 0] /\ replays = starts /\ results = starts

-----------------------------------------------------------------------------
(* The host reads the document and calls resume or recover, by its status. *)
Open(h) ==
    /\ h \notin open /\ ~Final(store) /\ opened < MaxOpen
    /\ open' = open \cup {h} /\ opened' = opened + 1
    /\ segment' = [segment EXCEPT ![h] = Blank(store)]
    /\ replays' = IF store.inFlight THEN [replays EXCEPT ![store.key] = @ + 1] ELSE replays
    /\ UNCHANGED <<store, starts, results>>

Set(h, s) ==
    /\ segment' = [segment EXCEPT ![h] = s]
    /\ UNCHANGED <<store, open, opened>>

Quiet(h, s) == Set(h, s) /\ UNCHANGED histories

(* next().  While one is in progress, another one throws, and return()     *)
(* too; after the end it gives the state again.                            *)
Pull(h) ==
    LET s == segment[h]
    IN  /\ h \in open /\ s.call = "none" /\ ~s.closed /\ s.generator = "live" /\ ~s.held
        /\ Quiet(h, [s EXCEPT !.call = IF s.prepared \/ s.aborted THEN "driving" ELSE "preparing"])

(* Every frame's definition is resolved, compared with its pin and checked.*)
Prepared(h) ==
    LET s == segment[h]
    IN  /\ h \in open /\ s.call = "preparing"
        /\ Quiet(h, [s EXCEPT !.prepared = TRUE, !.call = "driving", !.span = "open"])

(* A rejection leaves the handle as it was, to be pulled again, unless the *)
(* run was aborted meanwhile.                                              *)
PrepareFails(h) ==
    LET s == segment[h]
    IN  /\ h \in open /\ s.call = "preparing"
        /\ Quiet(h, IF s.aborted THEN [s EXCEPT !.call = "driving"]
                                 ELSE [s EXCEPT !.call = "none", !.span = "failed"])

(* commit(): one revision further; a final state ends the segment.         *)
Committed(s, doc) ==
    LET next == [doc EXCEPT !.revision = s.doc.revision + 1]
    IN  [s EXCEPT !.doc = next, !.call = "none", !.held = TRUE,
                  !.generator = IF Final(next) THEN "finished" ELSE @,
                  !.span = IF Final(next) THEN "ended" ELSE @]

Driving(h) == h \in open /\ segment[h].call = "driving"

CommitAbort(h) ==
    LET s == segment[h]
    IN  /\ Driving(h) /\ s.aborted
        /\ Quiet(h, Committed(s, [s.doc EXCEPT !.status = "aborted", !.inFlight = FALSE]))

(* A node is entered, or an attempt found in flight is counted as an       *)
(* interruption.                                                           *)
Checkpoint(h) ==
    LET s == segment[h]
    IN  /\ Driving(h) /\ ~s.aborted /\ (s.doc.inFlight => s.recovering)
        /\ s.doc.inFlight \/ s.doc.key < MaxKey
        /\ Quiet(h, [Committed(s, [s.doc EXCEPT !.inFlight = TRUE, !.status = "running",
                                     !.key = IF s.doc.inFlight THEN @ ELSE @ + 1])
                     EXCEPT !.recovering = FALSE])

(* The attempt starts when the host pulls again after the checkpoint.      *)
StartEffect(h) ==
    LET s == segment[h]
    IN  /\ Driving(h) /\ ~s.aborted /\ s.doc.inFlight /\ ~s.recovering
        /\ Set(h, [s EXCEPT !.call = "effect"])
        /\ starts' = [starts EXCEPT ![s.doc.key] = @ + 1]
        /\ UNCHANGED <<replays, results>>

Finish(h) ==
    LET s == segment[h]
    IN  /\ h \in open /\ s.call = "effect"
        /\ \E status \in {"running", "suspended", "ended"} :
             Quiet(h, Committed(s, [s.doc EXCEPT !.inFlight = FALSE, !.status = status]))

AbortEffect(h) ==
    LET s == segment[h]
    IN  /\ h \in open /\ s.call = "effect" /\ s.aborted
        /\ Quiet(h, Committed(s, [s.doc EXCEPT !.inFlight = FALSE, !.status = "aborted"]))

(* The validators were disposed: the step rejects, nothing is committed.   *)
Interrupt(h) ==
    LET s == segment[h]
    IN  /\ h \in open /\ s.call = "effect" /\ ~s.aborted
        /\ Quiet(h, [s EXCEPT !.call = "none", !.generator = "finished", !.span = "ended"])

AbortSignal(h) ==
    /\ h \in open /\ ~segment[h].aborted
    /\ Quiet(h, [segment[h] EXCEPT !.aborted = TRUE])

\* Mutant: return() closes the handle while a call is in progress.
ReturnAnyTime(h) ==
    LET s == segment[h]
    IN  /\ h \in open /\ ~s.closed
        /\ Quiet(h, [s EXCEPT !.closed = TRUE, !.generator = "finished", !.span = "ended",
                              !.held = FALSE])

(* return(): ends the span, and the generator where it stands.             *)
Return(h) ==
    LET s == segment[h]
    IN  /\ h \in open /\ s.call = "none" /\ ~s.closed
        /\ Quiet(h, [s EXCEPT !.closed = TRUE, !.generator = "finished", !.span = "ended",
                              !.held = FALSE])

-----------------------------------------------------------------------------
\* Mutant: the host writes whatever it has.
WriteBlindly(h) ==
    LET s == segment[h]
    IN  /\ h \in open /\ s.held
        /\ store' = s.doc
        /\ segment' = [segment EXCEPT ![h].held = FALSE, ![h].read = s.doc.revision]
        /\ results' = IF store.inFlight /\ ~s.doc.inFlight /\ s.doc.status # "aborted"
                      THEN [results EXCEPT ![s.doc.key] = @ + 1] ELSE results
        /\ UNCHANGED <<open, opened, starts, replays>>

(* The host compares the revision; when another one was faster it lets go  *)
(* of the segment (Return or Crash).                                       *)
Write(h) ==
    LET s == segment[h]
    IN  /\ h \in open /\ s.held /\ store.revision = s.read
        /\ store' = s.doc
        /\ segment' = [segment EXCEPT ![h].held = FALSE, ![h].read = s.doc.revision]
        /\ results' = IF store.inFlight /\ ~s.doc.inFlight /\ s.doc.status # "aborted"
                      THEN [results EXCEPT ![s.doc.key] = @ + 1] ELSE results
        /\ UNCHANGED <<open, opened, starts, replays>>

(* The process dies, or the host drops a handle it is done with.           *)
Crash(h) ==
    /\ h \in open /\ open' = open \ {h}
    /\ segment' = [segment EXCEPT ![h] = Blank(First)]
    /\ UNCHANGED <<store, opened, histories>>

HostNext == \E h \in Hosts :
    \/ Open(h) \/ Pull(h) \/ Prepared(h) \/ PrepareFails(h) \/ CommitAbort(h) \/ Checkpoint(h)
    \/ StartEffect(h) \/ Finish(h) \/ AbortEffect(h) \/ Interrupt(h) \/ AbortSignal(h)
    \/ Return(h) \/ Write(h) \/ Crash(h)

HostSpec == HostInit /\ [][HostNext]_host

-----------------------------------------------------------------------------
HostTypeOK ==
    /\ store \in Document /\ open \subseteq Hosts /\ segment \in [Hosts -> Segment]
    /\ opened \in Nat /\ {starts, replays, results} \subseteq [Invocations -> Nat]

(* Two hosts never both get through with one invocation: its result is     *)
(* persisted once, and its effect starts once, and once more for each      *)
(* segment that found it in flight.                                        *)
EffectsAccounted ==
    \A k \in Invocations : results[k] <= 1 /\ starts[k] <= 1 + replays[k]

(* A handle that is over has ended its span and is in no call; one that is *)
(* not over can be pulled again, whatever its preparation did.             *)
HandleSettled ==
    \A h \in open : LET s == segment[h] IN
        /\ s.closed \/ s.generator = "finished" <=> s.span = "ended"
        /\ s.span = "ended" => s.call = "none"
        /\ s.span = "failed" => ~s.prepared /\ s.doc.revision = s.read

(* Nothing is committed in a segment whose span has ended, and no effect   *)
(* starts before the definitions are prepared.                             *)
SilentStep ==
    \A h \in open \cap open' : LET s == segment[h] IN
        /\ s.span = "ended" => segment'[h].doc = s.doc /\ segment'[h].span = "ended"
        /\ segment'[h].call = "effect" => s.prepared

(* Calls of next() and return(), a preparation that fails, an abort and a  *)
(* rejected step in any order (run.ts 274-309 and 564-624).                *)
SegmentRight == [][HandleSettled' /\ SilentStep]_host
=============================================================================
