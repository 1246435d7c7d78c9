------------------------------ MODULE Channel ------------------------------
(***************************************************************************)
(* createChannel of @sozai/stream: a WritableStream that feeds a           *)
(* ReadableStream, with an optional bound on what is buffered.             *)
(*                                                                         *)
(* The two platform streams are modelled as far as the channel sees them:  *)
(* the writable runs one sink operation at a time, the readable calls pull *)
(* when it wants more.  A write parked on capacity is settled by a         *)
(* callback and goes on in a later step; whatever the reader, the writer   *)
(* or a drain do in between is interleaved.                                *)
(***************************************************************************)
EXTENDS Naturals, Sequences

CONSTANTS HighWaters,   \* values of the highWaterMark option
          Unbounded,    \* the option left out
          MaxWrites     \* bound: messages written

VARIABLES
    highWater,
    \* the readable
    rstate, queue,
    reading,    \* a read is pending
    pulls,      \* pull is due
    \* the writable
    wstate,
    waiting,    \* writes queued behind the one in flight
    closing,    \* writer.close() is queued behind them
    signalled,  \* the controller's signal: writer.abort() was called
    \* the channel
    closed,
    failure,    \* the readable was cancelled
    current,    \* the write in flight, 0 when there is none
    pc,         \* where it stands: parked, or its capacity settled
    \* history
    fate,       \* what became of each write
    got         \* messages the reader has

readable == <<rstate, queue, reading, pulls>>
writable == <<wstate, waiting, closing, signalled>>
vars == <<highWater, readable, writable, closed, failure, current, pc, fate, got>>

Message == 1..MaxWrites

TypeOK ==
    /\ highWater \in HighWaters
    /\ rstate \in {"readable", "closing", "closed", "errored"}
    /\ queue \in Seq(Message) /\ waiting \in Seq(Message) /\ got \in Seq(Message)
    /\ wstate \in {"writable", "erroring", "errored", "closed"}
    /\ {reading, pulls, closing, signalled, closed, failure} \subseteq BOOLEAN
    /\ current \in Message \cup {0}
    /\ pc \in {"idle", "parked", "woken", "refused"} /\ (current = 0) = (pc = "idle")
    /\ fate \in [Message -> {"none", "pending", "written", "rejected"}]

Init ==
    /\ highWater \in HighWaters
    /\ rstate = "readable" /\ queue = <<>> /\ reading = FALSE /\ pulls = TRUE
    /\ wstate = "writable" /\ waiting = <<>> /\ closing = FALSE /\ signalled = FALSE
    /\ closed = FALSE /\ failure = FALSE /\ current = 0 /\ pc = "idle"
    /\ fate = [m \in Message |-> "none"] /\ got = <<>>

-----------------------------------------------------------------------------
(* The readable. *)

(* desiredSize > 0; the platform's own mark is 1. *)
HasRoom ==
    /\ rstate \in {"readable", "closing"}
    /\ Len(queue) < IF highWater = Unbounded THEN 1 ELSE highWater

WantsMore == rstate = "readable" /\ (reading \/ HasRoom)

(* Mutant: what is queued is lost. *)
CloseReadableDropping ==
    /\ rstate' = IF rstate # "readable" THEN rstate ELSE "closed"
    /\ queue' = <<>>
    /\ reading' = (reading /\ rstate' = "readable")
    /\ UNCHANGED pulls

(* controller.close(): what is queued can still be read. *)
CloseReadable ==
    /\ rstate' = IF rstate # "readable" THEN rstate
                 ELSE IF queue = <<>> THEN "closed" ELSE "closing"
    /\ reading' = (reading /\ rstate' = "readable")
    /\ UNCHANGED <<queue, pulls>>

(* A cancel, or an error. *)
StopReadable(how) ==
    /\ rstate' = IF rstate \in {"readable", "closing"} THEN how ELSE rstate
    /\ queue' = <<>> /\ reading' = FALSE /\ pulls' = FALSE

-----------------------------------------------------------------------------
(* capacity: there is one while the write in flight is parked on it. *)
RejectCapacity == pc' = IF pc = "parked" THEN "refused" ELSE pc

ReleaseCapacity == pc' = IF pc = "parked" THEN "woken" ELSE pc

(* The writable is errored: all that is queued is rejected, and an abort   *)
(* that waited for the write in flight reaches the sink.                   *)
Settled(f, m, how) == [f EXCEPT ![m] = how]

RejectQueued(f) == [m \in Message |-> IF f[m] = "pending" THEN "rejected" ELSE f[m]]

(* The sink's abort. *)
SinkAbort ==
    IF ~closed THEN closed' = TRUE /\ StopReadable("errored")
    ELSE UNCHANGED <<closed, readable>>

ErrorWritable == wstate' = "errored" /\ waiting' = <<>> /\ closing' = FALSE

(* The write in flight rejects. *)
Refuse(m) ==
    /\ current' = 0 /\ pc' = "idle"
    /\ fate' = RejectQueued(Settled(fate, m, "rejected"))
    /\ ErrorWritable
    /\ IF wstate = "erroring" THEN SinkAbort ELSE UNCHANGED <<closed, readable>>
    /\ UNCHANGED <<signalled, failure, got>>

(* controller.enqueue: a pending read takes the message. *)
Enqueued(m) ==
    /\ IF reading THEN got' = Append(got, m) /\ UNCHANGED queue
                  ELSE queue' = Append(queue, m) /\ UNCHANGED got
    /\ reading' = FALSE /\ pulls' = TRUE /\ UNCHANGED rstate

(* The write in flight resolves; an abort may have waited for it. *)
Accept(m, rest) ==
    /\ current' = 0 /\ pc' = "idle"
    /\ IF wstate = "erroring"
       THEN /\ fate' = RejectQueued(Settled(fate, m, "written"))
            /\ ErrorWritable
            /\ got' = IF reading THEN Append(got, m) ELSE got
            /\ SinkAbort
       ELSE /\ fate' = Settled(fate, m, "written")
            /\ Enqueued(m) /\ waiting' = rest
            /\ UNCHANGED <<wstate, closing, closed>>
    /\ UNCHANGED <<signalled, failure>>

Park(m, rest) ==
    /\ current' = m /\ pc' = "parked" /\ waiting' = rest
    /\ UNCHANGED <<readable, wstate, closing, signalled, closed, failure, fate, got>>

(* The sink's write, from its start or from the end of a wait. *)
Attempt(m, rest) ==
    IF failure THEN Refuse(m)
    ELSE IF highWater # Unbounded /\ ~HasRoom
         THEN IF signalled THEN Refuse(m) ELSE Park(m, rest)
    ELSE IF rstate # "readable" THEN Refuse(m)
    ELSE Accept(m, rest)

-----------------------------------------------------------------------------
(* The reader. *)
Read ==
    /\ ~reading
    /\ \/ /\ queue # <<>>
          /\ got' = Append(got, Head(queue)) /\ queue' = Tail(queue)
          /\ rstate' = IF rstate = "closing" /\ queue' = <<>> THEN "closed" ELSE rstate
          /\ UNCHANGED reading
       \/ /\ queue = <<>> /\ rstate = "readable"
          /\ reading' = TRUE
          /\ UNCHANGED <<queue, rstate, got>>
    /\ pulls' = TRUE
    /\ UNCHANGED <<highWater, writable, closed, failure, current, pc, fate>>

Pull ==
    /\ pulls /\ pulls' = FALSE
    /\ IF WantsMore THEN ReleaseCapacity ELSE UNCHANGED pc
    /\ UNCHANGED <<highWater, rstate, queue, reading, writable, closed, failure, current, fate, got>>

Cancel ==
    /\ rstate \in {"readable", "closing"}
    /\ StopReadable("closed")
    /\ closed' = TRUE /\ failure' = TRUE
    /\ RejectCapacity
    /\ UNCHANGED <<highWater, writable, current, fate, got>>

-----------------------------------------------------------------------------
(* The writer.  Messages are written in the order of their numbers. *)
Write(m) ==
    /\ fate[m] = "none" /\ \A o \in 1..(m - 1) : fate[o] # "none"
    /\ IF wstate = "writable" /\ ~closing
       THEN fate' = Settled(fate, m, "pending") /\ waiting' = Append(waiting, m)
       ELSE fate' = Settled(fate, m, "rejected") /\ UNCHANGED waiting
    /\ UNCHANGED <<highWater, readable, wstate, closing, signalled, closed, failure,
                   current, pc, got>>

CloseWriter ==
    /\ wstate = "writable" /\ ~closing /\ closing' = TRUE
    /\ UNCHANGED <<highWater, readable, wstate, waiting, signalled, closed, failure,
                   current, pc, fate, got>>

(* writer.abort(): the signal first, which a parked write listens to; the  *)
(* sink's abort waits for the write in flight.                             *)
AbortWriter ==
    /\ wstate = "writable" /\ signalled' = TRUE
    /\ IF current # 0
       THEN /\ wstate' = "erroring" /\ RejectCapacity
            /\ UNCHANGED <<waiting, closing, readable, closed, fate>>
       ELSE /\ ErrorWritable /\ SinkAbort
            /\ fate' = RejectQueued(fate) /\ UNCHANGED pc
    /\ UNCHANGED <<highWater, failure, current, got>>

(* The sink's operations, one at a time. *)
SinkWrite ==
    /\ wstate = "writable" /\ current = 0 /\ waiting # <<>>
    /\ Attempt(Head(waiting), Tail(waiting))
    /\ UNCHANGED highWater

Continue ==
    /\ \/ pc = "woken" /\ Attempt(current, waiting)
       \/ pc = "refused" /\ Refuse(current)
    /\ UNCHANGED highWater

SinkClose ==
    /\ wstate = "writable" /\ current = 0 /\ waiting = <<>> /\ closing
    /\ closing' = FALSE
    /\ wstate' = IF failure THEN "errored" ELSE "closed"
    /\ IF ~closed THEN closed' = TRUE /\ CloseReadable ELSE UNCHANGED <<closed, readable>>
    /\ UNCHANGED <<highWater, waiting, signalled, failure, current, pc, fate, got>>

(* close(), called by drain past the writer. *)
Drain ==
    /\ ~closed /\ closed' = TRUE
    /\ RejectCapacity
    /\ CloseReadable
    /\ UNCHANGED <<highWater, writable, failure, current, fate, got>>

Step == Pull \/ SinkWrite \/ Continue \/ SinkClose

Next ==
    \/ Read \/ Cancel \/ CloseWriter \/ AbortWriter \/ Drain \/ Step
    \/ \E m \in Message : Write(m)

Spec == Init /\ [][Next]_vars

(* The streams go on, and the reader reads. *)
Fairness ==
    /\ WF_vars(Pull) /\ WF_vars(SinkWrite) /\ WF_vars(Continue)
    /\ WF_vars(SinkClose) /\ WF_vars(Read)

FairSpec == Spec /\ Fairness

-----------------------------------------------------------------------------
(* No more than highWaterMark messages are buffered. *)
Bounded == highWater # Unbounded => Len(queue) <= highWater

(* The reader gets the written messages in order, each once, and unless    *)
(* the channel was cancelled or aborted, every one of them.                *)
Delivered ==
    LET out == got \o queue
        sent == {m \in Message : fate[m] = "written"}
    IN  /\ \A i \in 1..(Len(out) - 1) : out[i] < out[i + 1]
        /\ {out[i] : i \in DOMAIN out} \subseteq sent
        /\ ~failure /\ rstate # "errored" => sent = {out[i] : i \in DOMAIN out}

(* A writer that is closed or errored has not left the reader waiting. *)
ReaderToldSo == wstate \in {"closed", "errored"} => rstate # "readable" /\ ~reading

(* The channel keeps to its mark, delivers what was written, in order, and *)
(* does not leave its reader waiting when the writer is over.              *)
ChannelRight == TypeOK /\ Bounded /\ Delivered /\ ReaderToldSo

(* A write settles while its reader reads, in time also for an abort and a *)
(* cancel; a drain is another matter, see ParkedSettles.                   *)
Drained == closed /\ ~failure /\ rstate # "errored"

Quiet == \A m \in Message : fate[m] = "pending" => Drained

(* A comment of channel.ts: closing the channel settles a write that is    *)
(* parked on back-pressure.                                                *)
ParkedSettles ==
    \A m \in Message : (current = m /\ ~closed) ~> (current # m)
=============================================================================
