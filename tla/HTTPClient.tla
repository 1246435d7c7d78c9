----------------------------- MODULE HTTPClient -----------------------------
(***************************************************************************)
(* The requests of one client of @sozai/http-client: attempts, redirects,  *)
(* the attempt timer, the caller's signal, back-off, and the token bucket  *)
(* that all requests to a host share.  Servers, lookups and auth appliers  *)
(* answer whenever they like, or never.                                    *)
(***************************************************************************)
EXTENDS Integers, FiniteSets

CONSTANTS Calls,         \* the requests
          Idempotent,    \* the ones that may be tried again
          Attempts,      \* policy.retry.attempts
          MaxRedirects,
          Timeout,       \* policy.timeoutMS
          Delays,        \* the delays of back-off and Retry-After
          Rate, Per,     \* the rate limit: Rate requests per Per ticks
          Horizon        \* bound: the clock stops there, and all timers are due

VARIABLES
    now,
    tokens, updated,     \* the bucket; a token is Per units, a tick gives Rate
    call                 \* the state of each request

vars == <<now, tokens, updated, call>>

Capacity == Rate * Per

None == -1

(* What is noted down: that this request, that this attempt has started a  *)
(* fetch (an attempt takes over what the request knows), and what the      *)
(* error says.                                                             *)
Sent == [request : BOOLEAN, attempt : BOOLEAN, error : BOOLEAN]

NotSent == [request |-> FALSE, attempt |-> FALSE, error |-> FALSE]

Min2(a, b) == IF a < b THEN a ELSE b

TypeOK ==
    /\ now \in 0..Horizon /\ updated \in 0..now /\ tokens \in Int /\ tokens <= Capacity
    /\ call \in [Calls -> [
            pc : {"idle", "hop", "limited", "check", "auth", "fetch", "body", "backoff", "done"},
            attempt : 1..Attempts, redirects : 0..MaxRedirects,
            sent : Sent,
            fetches : 0..(Attempts * (MaxRedirects + 1)),  \* what really happened
            linked : {"none", "live", "timedOut", "aborted"}, timer : Int,
            due : Int, aborted : BOOLEAN,
            outcome : {"none", "response", "thrown", "REFUSED", "TOO_MANY_REDIRECTS",
                       "RESPONSE_TOO_LARGE", "TIMEOUT", "ABORTED", "NETWORK"}]]

Init ==
    /\ now = 0 /\ tokens = Capacity /\ updated = 0
    /\ call = [r \in Calls |->
            [pc |-> "idle", attempt |-> 1, redirects |-> 0, sent |-> NotSent, fetches |-> 0,
             linked |-> "none", timer |-> None, due |-> None, aborted |-> FALSE,
             outcome |-> "none"]]

(* The signal a hop looks at: the linked one, once the timer is started. *)
Signalled(r) ==
    IF call[r].linked = "none" THEN call[r].aborted
                               ELSE call[r].linked \in {"timedOut", "aborted"}

(* failure(): the timer decides first. *)
CodeOf(r) ==
    IF call[r].linked = "timedOut" THEN "TIMEOUT"
    ELSE IF Signalled(r) THEN "ABORTED" ELSE "NETWORK"

CanRetry(r) == r \in Idempotent /\ call[r].attempt < Attempts

DueAt(t) == now >= t \/ now = Horizon

-----------------------------------------------------------------------------
Finish(r, outcome, sent) ==
    call' = [call EXCEPT ![r].pc = "done", ![r].outcome = outcome, ![r].sent.error = sent,
                         ![r].linked = "none", ![r].timer = None, ![r].due = None]

(* The wait before the next attempt, outside of the attempt timer. *)
Wait(r) ==
    IF call[r].aborted THEN Finish(r, "ABORTED", call[r].sent.request)
    ELSE \E d \in Delays :
            call' = [call EXCEPT ![r].pc = "backoff", ![r].due = now + d,
                                 ![r].linked = "none", ![r].timer = None]

(* What request() does with the error of an attempt. *)
Fail(r, code, sent) ==
    IF CanRetry(r) /\ code \in {"NETWORK", "TIMEOUT"} THEN Wait(r) ELSE Finish(r, code, sent)

Failure(r) == Fail(r, CodeOf(r), call[r].sent.attempt)

BeginAttempt(r) ==
    call' = [call EXCEPT ![r].pc = "hop", ![r].redirects = 0,
                         ![r].sent.attempt = call[r].sent.request,
                         ![r].attempt = IF call[r].pc = "backoff" THEN @ + 1 ELSE @,
                         ![r].due = None]

Request(r) ==
    /\ call[r].pc = "idle" /\ BeginAttempt(r)
    /\ UNCHANGED <<now, tokens, updated>>

(* startTimer and the look at the signal behind it. *)
StartTimer(r) ==
    LET linked == IF call[r].linked # "none" THEN call[r].linked
                  ELSE IF call[r].aborted THEN "aborted" ELSE "live"
        timer == IF call[r].linked = "none" THEN now + Timeout ELSE call[r].timer IN
    IF linked = "live"
    THEN call' = [call EXCEPT ![r].pc = "check", ![r].linked = linked, ![r].timer = timer,
                              ![r].due = None]
    ELSE Fail(r, IF linked = "timedOut" THEN "TIMEOUT" ELSE "ABORTED", call[r].sent.attempt)

(* acquire: the reservation is made before the wait. *)
Hop(r) ==
    LET left == Min2(Capacity, tokens + (now - updated) * Rate) - Per
        delay == (Rate - 1 - left) \div Rate IN
    /\ call[r].pc = "hop"
    /\ IF Signalled(r) THEN Failure(r) /\ UNCHANGED <<tokens, updated>>
       ELSE /\ tokens' = left /\ updated' = now
            /\ IF delay <= 0 THEN StartTimer(r)
               ELSE call' = [call EXCEPT ![r].pc = "limited", ![r].due = now + delay]
    /\ UNCHANGED now

Granted(r) ==
    /\ call[r].pc = "limited" /\ DueAt(call[r].due) /\ ~Signalled(r)
    /\ StartTimer(r) /\ UNCHANGED <<now, tokens, updated>>

(* Mutant: an aborted wait refills the bucket. *)
RefundAll == Capacity

(* A wait that is aborted gives its reservation back. *)
Refund == Min2(Capacity, tokens + Per)

LimitedAborted(r) ==
    /\ call[r].pc = "limited" /\ Signalled(r)
    /\ tokens' = Refund /\ Failure(r) /\ UNCHANGED <<now, updated>>

-----------------------------------------------------------------------------
(* checkTarget: the address is refused, or its lookup fails. *)
Checked(r) ==
    /\ call[r].pc = "check" /\ ~Signalled(r)
    /\ \/ Finish(r, "REFUSED", call[r].sent.attempt)
       \/ Failure(r)
       \/ call' = [call EXCEPT ![r].pc = "auth"]
    /\ UNCHANGED <<now, tokens, updated>>

(* The applier throws, or the fetch starts. *)
Authorised(r) ==
    /\ call[r].pc = "auth" /\ ~Signalled(r)
    /\ \/ Finish(r, "thrown", FALSE)
       \/ call' = [call EXCEPT ![r].pc = "fetch", ![r].fetches = @ + 1,
                               ![r].sent.request = TRUE, ![r].sent.attempt = TRUE]
    /\ UNCHANGED <<now, tokens, updated>>

(* A redirect without an end, a refused one, or one more hop. *)
Redirected(r) ==
    IF call[r].redirects >= MaxRedirects THEN Finish(r, "TOO_MANY_REDIRECTS", TRUE)
    ELSE call' = [call EXCEPT ![r].pc = "hop", ![r].redirects = @ + 1]

(* A network error; an opaque answer; a final origin that is undeclared;   *)
(* a redirect; a status worth a retry; or an answer with a body to read.   *)
Fetched(r) ==
    /\ call[r].pc = "fetch" /\ ~Signalled(r)
    /\ \/ Failure(r)
       \/ Fail(r, "NETWORK", TRUE)
       \/ Finish(r, "REFUSED", TRUE)
       \/ Redirected(r)
       \/ CanRetry(r) /\ Wait(r)
       \/ call' = [call EXCEPT ![r].pc = "body"]
    /\ UNCHANGED <<now, tokens, updated>>

BodyRead(r) ==
    /\ call[r].pc = "body" /\ ~Signalled(r)
    /\ \/ Finish(r, "response", FALSE)
       \/ Finish(r, "RESPONSE_TOO_LARGE", TRUE)
       \/ Failure(r)
    /\ UNCHANGED <<now, tokens, updated>>

(* Mutant: an applier is waited for, whatever the signal says. *)
InterruptedButAuth(r) ==
    /\ call[r].pc \in {"check", "fetch", "body"} /\ Signalled(r)
    /\ Failure(r) /\ UNCHANGED <<now, tokens, updated>>

(* Everything behind startTimer is raced against the linked signal. *)
Interrupted(r) ==
    /\ call[r].pc \in {"check", "auth", "fetch", "body"} /\ Signalled(r)
    /\ Failure(r) /\ UNCHANGED <<now, tokens, updated>>

BackoffOver(r) ==
    /\ call[r].pc = "backoff"
    /\ IF call[r].aborted THEN Finish(r, "ABORTED", call[r].sent.request)
       ELSE DueAt(call[r].due) /\ BeginAttempt(r)
    /\ UNCHANGED <<now, tokens, updated>>

-----------------------------------------------------------------------------
(* The attempt timer, and the caller's abort. *)
TimerFires(r) ==
    /\ call[r].linked = "live" /\ DueAt(call[r].timer)
    /\ call' = [call EXCEPT ![r].linked = "timedOut"]
    /\ UNCHANGED <<now, tokens, updated>>

Abort(r) ==
    /\ ~call[r].aborted /\ call[r].pc # "done"
    /\ call' = [call EXCEPT ![r].aborted = TRUE,
                            ![r].linked = IF @ = "live" THEN "aborted" ELSE @]
    /\ UNCHANGED <<now, tokens, updated>>

(* Timers fire in the tick they are due in. *)
Tick ==
    /\ now < Horizon
    /\ \A r \in Calls :
          /\ call[r].pc \in {"limited", "backoff"} => now < call[r].due
          /\ call[r].linked = "live" => now < call[r].timer
    /\ now' = now + 1 /\ UNCHANGED <<tokens, updated, call>>

Answers(r) == Checked(r) \/ Authorised(r) \/ Fetched(r) \/ BodyRead(r)

Runs(r) ==
    Hop(r) \/ Granted(r) \/ LimitedAborted(r) \/ Interrupted(r) \/ BackoffOver(r) \/ TimerFires(r)

Next ==
    \/ Tick
    \/ \E r \in Calls : Request(r) \/ Answers(r) \/ Runs(r) \/ Abort(r)

(* The client runs, and time passes; nobody has to answer. *)
Fairness == WF_vars(Tick) /\ \A r \in Calls : WF_vars(Runs(r))

Spec == Init /\ [][Next]_vars /\ Fairness

-----------------------------------------------------------------------------
Done(r) == call[r].pc = "done"

(* The errors of the client itself; an applier's is thrown as it is.       *)
Errors ==
    {"REFUSED", "TOO_MANY_REDIRECTS", "RESPONSE_TOO_LARGE", "TIMEOUT", "ABORTED", "NETWORK"}

(* An error says sent: false if no fetch of the request has started, in    *)
(* whatever attempt, and sent: true if one has.                            *)
SentHonest ==
    \A r \in Calls : call[r].outcome \in Errors
                        => (call[r].sent.error <=> call[r].fetches > 0)

(* Each fetch that has started: the first of a request, its second, ...    *)
Fetches == {f \in Calls \X (1..(Attempts * (MaxRedirects + 1))) : f[2] <= call[f[1]].fetches}

(* Over any time since the client was made, the host sees no more fetches  *)
(* than a full bucket and what has dripped in since, whatever was aborted. *)
RateKept == now < Horizon => Cardinality(Fetches) * Per <= Capacity + now * Rate

(* What is not idempotent is fetched once for each redirect, never again.  *)
TriedOnce ==
    \A r \in Calls \ Idempotent : call[r].fetches <= call[r].redirects + 1

ClientRight == SentHonest /\ RateKept /\ TriedOnce

(* No fetch starts once the caller has aborted or the attempt timed out.   *)
NoLateFetch ==
    \A r \in Calls : call'[r].fetches > call[r].fetches
                        => ~call[r].aborted /\ call[r].linked = "live"

(* Every request ends, though no server, lookup or applier ever answers.   *)
Quiet == \A r \in Calls : call[r].pc # "idle" => Done(r)
=============================================================================
