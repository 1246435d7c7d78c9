# Formal models of sozai

TLA+ models of the stateful parts of the sozai packages, the TLC runs that check
them on small instances, and theorems that TLAPS checks for every value of the
constants. Line numbers in this file are those of the sources under
`src/packages/`.

- `PROJECT.json` lists components, runs, hazards and theorems, and maps every
  definition of a model to the lines it stands for.
- One module per component; `MC*.tla` and `*.cfg` are instances for TLC;
  `*_proofs.tla` hold theorems.
- Definitions named in a comment `Mutant:` are plausible bugs. They are used by no
  specification; each is put in place of the definition that follows it to see that
  a property notices.

## 1. Inventory

| Package | State it keeps | Operations | Hard behaviours | What makes it correct |
| --- | --- | --- | --- | --- |
| `flow-graph` (6.4k lines): durable run | one JSON document per run: a stack of frames pinned to flow definitions, attempts, the record of the attempt in flight, pending work; a handle per segment | `start`, `resume`, `recover`, the pull loop (`next`), `return`, `abort`; per node: enter, attempt, retry, fail, unwind, suspend, pop | crashes between checkpoint, side effect and commit; aborts and deadlines racing node code and the host's awaits; failures through parked frames; clocks that differ between hosts; several hosts on one document | each committed document can be recovered; an invocation id names one entry; bounded replays; no late start; a running run settles; one invocation is accounted for once |
| `flow-graph`: checker | none (pure) | `check`, cross-flow checks, digests | graph algorithms (dominators, strongly connected components) | what the runner takes for granted of an accepted definition holds in every run |
| `flow-graph`: values, filters, registry | none / a table | resolving paths and templates | none | pure functions |
| `async`: keyed queue | a map from key to the tail of a promise chain and a count | `enter`, `release`, `run`, a clean-up callback | callbacks of settled tails running after later callers came; release before turn | FIFO and mutual exclusion per key, exact count, no leaked key |
| `async`: concurrency | workers, slots, windows of promises | `mapConcurrent`, `firstInOrder`, `prefetchOrdered` | results that come after the decision; aborts | the documented result, the limit, no work left behind |
| `async`: retry | attempt number, timer | `retry`, `raceAttempt` | abort against result against timeout; abandoned attempts that run on | the outcome's reason holds, abandoned attempts are told, bounded runs end |
| `async`: disposer | a signal, a latched reason, a promise | `dispose`, `abort`, an outside signal | disposal during construction, by two parties | the callback runs once, the first reason stands |
| `async`: yielder | waiters, two timers, a budget | `maybeYield` | callers resumed in one turn call again | first come first served, no lost wake-up, the budget |
| `lock` | a lock file (pid, boot id, nonce, inode), a queue per process, exit hook | `acquireFileLock`, try-lock, reap, release; the verdict on a record | several processes, system calls interleaved, crashes, recycled pids and inode numbers, deadlines; clocks, names and boots that change | one holder; dead holders reaped, live ones not; slots handed on; every call answered |
| `event`, `generator` | listener sets, buffered values and waiting reads | `on`, `once`, `readable`, `emit`; `consume`, `fromEmitter` | listeners that emit, leave or come while an event is delivered; aborts between value and callback | each listener once per event; no lost or doubled value; an iterator closed once |
| `flow` | status and state of an in-memory generator | handlers, `next`, `return`, `throw` | aborts of a step or of the flow while a handler runs | over stays over; an aborted step changes nothing |
| `execution` | a chain of links with controllers and timers | `execute`, `next`, `abort` | abort and timers of a chain in the middle | an abort reaches back; every link is cleaned up |
| `hlc` | wall time and counter | `now`, `receive`, `serialize` | clocks that go back; the counter at its ceiling | stamps respect happened-before; text order is numeric order |
| `stream` | a channel: queue, capacity deferred, failure | read, write, close, abort, cancel | a write parked on back-pressure against close, abort, cancel | every write settles, order, bound |
| `http-client` | token buckets, the attempt and hop of each request, its timer | a request with retries and redirects | abort and timer between any two awaits; reservations given back | honest errors, the rate, what is not idempotent is sent once, every request ends |
| `http-server` | setup, bound socket, open responses, shutdown report | `createServer`, `listen`, `dispose` | disposal in the middle of setup or listen; hooks and responses that never end | hooks close last and in order, nothing stays bound, the report is exact |
| `schema` | least recently used map of validators, a factory | `get`, `clear`, `dispose` | a factory that is replaced | bounded, what was used last, no validator of a disposed factory |
| `patch` | none | `createPatches`, `applyPatches` | shifting indices, inherited names | apply inverts create |
| `json`, `codec`, `http-util` | none | conversions | none | - |
| `result`, `log`, `otel`, `runtime`, `runtime-expo` | wrappers | - | - | - |

How they interact: `flow-graph` runs node code through `async`'s `raceAttempt`
and `getRetryDelay`, and checks signals through `on-abort`; `lock` orders the
calls of one process with `async`'s keyed queue; `stream`, `event`, `generator`
and `execution` build on `async`'s deferreds and disposers; `http-client` has a
retry loop of its own and takes only `raceSignal`, `onAbort` and `sleep` from
`async`; `http-server` is a `Disposer`. Nothing else in the repository shares
state between packages.

## 2. Modules

```
FlowTypes  <- FlowCommit <- FlowRun <- FlowProps <- MCFlow
                                                 <- FlowRun_proofs <- FlowProps_proofs
Reaching <- FlowChecker <- MCChecker <- MCDocuments (with FlowHost; FlowSets by INSTANCE)
         <- FlowSets                              <- Documents_proofs
FileLock <- MCLocks
         <- FileLock_proofs
LockLiveness <- MCLockWaits (with FileLock by INSTANCE)
             <- LockLiveness_proofs
KeyedFifo <= KeyedQueue <- KeyedQueue_proofs            (<= : implements)
ConcurrentBounds <- FirstInOrder, MapConcurrent, PrefetchOrdered
    MCConcurrent (the three by INSTANCE)
    MCAsync (MCConcurrent, Retry, Yielder, Disposer, Channel, Execution, Events, Consume,
             FlowGenerator by INSTANCE) <- Async_proofs
HLC <- MCServices (with HTTPClient, HTTPServer, Patch, SchemaCache by INSTANCE)
           <- Services_proofs
```

`MCDocuments`, `MCLocks`, `MCLockWaits`, `MCAsync` and `MCServices` put components
side by side that share no state. In each behaviour one of them runs and the
others rest, so the states of a run are the union of those of its components, and
not their product. A property of such a run is the conjunction of properties that
the components define, and each component's part of it was broken by a bug of its own in that
component, besides the one that `PROJECT.json` names.

### FlowTypes, FlowCommit, FlowRun, FlowProps: the durable run

`FlowTypes` declares flow definitions as data (`Def`) and the run state document
with the fields of `RunState`. Payloads are left out: whatever reads one is a
nondeterministic choice. `WellFormed` is what `check()` enforces and the runner
relies on. The node kind `"step"` stands for `branch`, `set` and custom kinds
that move to one of their targets.

`FlowCommit` holds the transitions of the document as pure operators, one for
each function that builds the next state: `HandleNodeError`, `FailNode`,
`FailRun`, `CallerRetries` (unwind.ts), `ScheduleRetry`, `Applied`, `Push`,
`Pop`, `Replace`, `Suspend`, `Abort`.

`FlowRun` is the machine: one runner process and its host.

| Variable | In the code |
| --- | --- |
| `run` | the runner's `#state` |
| `store` | the last document the host persisted |
| `pc` | where the drive loop is: `top`, `yield` (the host holds a yielded state), `yieldLaunch`, `launch` (the attempt is about to start), `exec` (node code runs), `down` |
| `recovering`, `event` | how the segment was entered (`recover`, `resume`) |
| `aborted` | the segment's signal |
| `now` | the host's clock |
| `work`, `crashes` | history of starts per invocation id; bound of crashes |

Each action of `Drive` is one turn of the loop in run-drive.ts, in the order of
its checks; each of `Finish` is the outcome of one kind's `execute`, with the
commit that follows. `Crash` may come between any two actions and folds in what
ends a segment in the same way: `return()` on the generator and a validator that
throws. `Recover` may set the clock back by at most `MaxSkew`, for a host whose
clock is behind. The policy is read from the pinned definition; the code copies
it when it enters the node, and a pinned definition does not change.

Time is `0..Horizon` and saturates: instants past `Horizon` are one instant. A
definition's deadlines and delays fit below it, so everything the guards compare
is told apart.

What the code takes from outside the model: the host persists every yielded
state before it pulls again (flow-graph README, "Persistence and delivery").
`Persist` is that step, and `WriteAhead`, `KeysNameOneEntry` and
`ReplaysBounded` depend on it.

### FlowHost: handles of segments, and several hosts

`FlowRun` has one host. `FlowHost` has several, which open segments of one stored
document with `resume` or `recover` and persist with a compare-and-set of the
revision, as the flow-graph README asks. The document is reduced to what they can
quarrel over: whether an attempt is in flight, and under which id. What is
complete instead is the handle (run.ts 564-624): its lazy preparation, which may
fail and be tried again; calls of `next`, `return` and `abort` in every order; the
span. `starts`, `replays` and `results` are history: how often an effect began,
how often a segment found it in flight, and how often a result of it was stored.

### FlowChecker, FlowSets: what is checked before a run

`FlowChecker` is the graph analysis of checker.ts and the walk of a run through a
definition that passed it, in one behaviour: `Dominate` and `Pass` are the
iteration of `computeDominators`, one node at a time in the order of the source,
`Check` the verdict (`Issues`), and `Step`, `LoopExit`, `LoopBody`,
`LoopExhausted`, `Stop` the walk. So what the check claims is compared with what
runs do, and not with a second analysis alone. A `"step"` is any kind that moves
to one of its named targets; a read is any pair of a reader and a producer.

`FlowSets` is check-flows.ts in the same way: references are resolved breadth
first, components are found by Tarjan's algorithm with its stack and its recursion
as variables, output keys are collected over gotos, and then a run calls, hands
over and ends. A flow is a number that stands for an id and a version. The
list of a flow's targets is a set of link numbers, taken from the least up. What
both modules need of reachability (a recursive `visit` in checker.ts, a queue in
check-flows.ts, and the reference definitions of the properties) is `Reaching`.

### KeyedFifo, KeyedQueue

`KeyedFifo` is the promise of the queue: on a key one caller at a time is inside,
in the order of entry; a caller may leave without getting in. `KeyedQueue` is
keyed-queue.ts: the map with tails and counts, the chain of promises with a
settlement apart from the release, and the clean-up callback, each a step of its
own, because the microtasks between them let other callers in. Its property
`ImplementsFifo` is the refinement: what a slot is ahead of is `before` less
`released`, which the code keeps only implicitly, in the chain.

### FileLock

One path, several processes, at the granularity of system calls: writing the
record, linking it, reading the file in the way, probing the pid, checking and
unlinking. A call is a value of `Call`, made once by `Owner[c]`. Inode numbers
are reused as soon as they are free. `Restart` gives a dead pid to a new process.
Here the verdict on a holder is right at once: one host, boot ids readable. A
process dies with or without its exit hook: the hook is a release followed by the
crash. The corrupt file (a record that does not parse) may be there at the start;
no call writes one.

file.ts 172-176 documents a window between the check and the unlink of a reap
that it cannot close. The history variable `raced` tells whether it was hit;
`HoldersOwnTheFile` says that it is the only way to lose exclusion, and
`OneHolderPerProcess` what still holds after it.

### LockLiveness

The other half of the lock: what a waiter makes of a record (liveness.ts,
record.ts). One file, written at time 0 by a process here, elsewhere, or by nobody
legible; true time, which nobody can read, beside a wall clock that steps and an
uptime that starts with the boot and, on darwin, may run backwards. The machine may
be renamed and reboot; the pid may go to another process; waiters read the boot id
with failures and cache it as the code does. `CheckLiveness` and `Stale` are the
two functions of liveness.ts, branch by branch. Verdicts are functions of the state,
and each state is a moment at which a waiter may ask.

### FirstInOrder, MapConcurrent, PrefetchOrdered: concurrent.ts

One module for each of the three functions. A step is one reaction of the event
loop: a call that settles, with everything its callback does up to the next
await (record, advance, pump, finish), or the caller's abort. A call settles
whether or not its signal is aborted, as the code makes no assumption on it. Two
details that the tests do not reach are in the models: a call may abort the
caller's signal while it is being started, in the middle of the loop that starts
calls (`Pump`, `Init`, `Turn`, `Yield`), and the abort may come between the
settlement of an awaited fetch and the continuation of the generator (`got`
against `cut` in `PrefetchOrdered`). Values are left out; an error is named by the
call it came from, so "the first error" can be told from a later one. History
variables (`result`, `lost`, `yielded`) keep what the calls gave apart from what
the code recorded, and the properties are stated on those.

### Retry

`retry` with `raceAttempt` inlined. `pc` is where the loop stands: `race` lies
between its two readings of the clock, `racing` is the await of the race,
`waiting` the sleep, `cut` and `woken` its two ends. Calls settle at any time or
never; the settlement of the present one reaches the race a step later
(`Deliver`), in which an abort may overtake it. An abandoned call goes on beside
the next attempt (`gave`, `told`). A policy is chosen at the start from all
combinations of bounds; delays are any of `Delays`, in place of the arithmetic of
`getRetryDelay`. Clock and timers run on one time that saturates at `Horizon`.

### Yielder, Disposer

`Yielder` has an event loop: microtasks in order until there are none, then the
first timer. A caller's turn is one unit of work, which takes some time, and its
next `maybeYield`. `Disposer` builds an object whose constructor may dispose of
it, in one turn with that of its class; the microtask that an aborted outside
signal queues comes after it.

### Channel: channel.ts and pipe.ts

The two platform streams are modelled as far as the channel sees them: the
writable runs one sink operation at a time, rejects what is queued when it is
errored, and defers the sink's abort until the write in flight has settled; the
readable calls `pull` when a read or room makes it want more. `current` and `pc`
are the write in flight: parked on `capacity`, or its capacity resolved
(`woken`) or rejected (`refused`) and the continuation not yet run. Whatever the
reader and the writer do comes in between. `capacity` itself needs no variable:
it is set exactly while `pc` is `parked`.

### Execution, FlowGenerator

`Execution` is a chain of links: the first has the signal and the timeout of the
chain, each later one a function of the link before that gives an executable,
`null` or an error. Anybody may await or abort any link. `Signalled` is the signal of
a link, put together from what is its own and what it inherits: a link takes the
signals of the chain and of all executables before it, but the controller and the timer
of another link only if a `null` or an error came behind that one, which takes its whole
signal (execution.ts 238-250) and hands it on (258-263) as a signal of the chain
(`Heeds`). So an `ifError` behind an `ifOK` that a link's timeout passed over is
interrupted, too, and never called; directly behind the link it would be.
`Strike` is what an abort or a timer does to the link that runs. The call of an
executable is queued in `Start` and made in `Call`, a microtask later, when its link may
have been aborted already. `FlowGenerator` is the generator of
`flow`: a call of `next` with an action, a state or an aborted signal, validators
that may refuse, a handler that the flow's abort, the step's abort, `return` or
`throw` may overtake.

### Events, Consume

`Events` is one event of an emitter with a listener of each kind; an emission calls
a copy of the set, one after the other in the order in which they were put in
(`place`), and the user's listener may emit again, subscribe, unsubscribe, abort a
readable or a `once`, and read from an iterator of `fromEmitter` in the middle of it
(`stack`). `Consume` is `consume`: between the
iterator's answer and the reaction to it, and between a callback's, there is a step
for the abort.

### HTTPClient, HTTPServer

`HTTPClient` runs requests through the attempt loop: a hop takes a token or waits
for one, then passes the address check, the auth applier and the fetch, and a
redirect starts the next hop. Whoever is awaited answers at any time or never.
The attempt timer starts after the rate limit, as in the code, and covers all hops
of the attempt. `linked` is the state of the linked signal. What the code calls `sent`
is a variable of the request, one of the attempt, which starts with that of the request,
and a field of each error; `sent` has the three, each written where the code
writes it, and `fetches` counts beside them what really happened.

`HTTPServer` sets plugins up in order, chooses a port, binds, serves, and shuts
down: hooks all at once against the grace period, drain, then close hooks one by
one. Disposal, also by the parent's signal, comes at any point of setup and listen.
A setup is decided on in one step (`ContinueSetup`, `setup = "starting"`) and called in
another (`SetupStarts`), since `toPromise` calls it in a microtask of its own; a disposal
that comes between the two waits for it. After `server.close()` a request may still come
over a connection that is open: one with a response, or one that had sent a part of it.

### HLC

One clock per node, wall clocks that show any instant at each event, and stamps
that reach another node any number of times at any later point. `cause` is
history: for each stamp the stamps that happened before it, so that
`CausalOrder` compares the code's order with happened-before. An object's clock
is never restarted or copied (nothing in the package is persisted, so a node that
restarts has to be fed its last stamp by its holder), and node ids differ, as the
package's users are expected to see to; `beforeMint` may veto an event, which
changes nothing. The text of a stamp is modelled as what `serialize` does to the
counter: its digits, padded, followed by a colon, which sorts after digits. The
base is a constant, so that the ceiling is in reach of TLC, and what the code's
ceiling has to do with base and width is the assumption `ClockAssumption`: the largest
counter has no digit beyond the padding. The wall time's text
has one width (ISO strings up to the year 9999).

### Patch, SchemaCache

`Patch` makes the patches from one small document to another, applies them one by
one to a clone, and commits. Documents are flat, or have one member of any shape;
keys may look like indices. A path goes through `parsePath`: it refuses the segments of
`Forbidden` and makes a number of what looks like an index, which is another key when no
double holds it (`Parsed`). `Differences` is what stands at one path in both documents,
given the operations for what stands one segment further. `SchemaCache` is the map
in order of insertion, the factory with its count of compiles, and failures that
are cached like validators; `used` and `made` are history.

## 3. Runs

| Run | Asks | Bounds |
| --- | --- | --- |
| `flow_retry` | an action with retries, deadline, replay bound and onError, under two crashes, aborts, a clock one behind: safety, and that a run settles and an abort ends its segment | 4 steps, delays 1-2, horizon 5: two attempts of one replay each fit, and so does the deadline in the middle of each |
| `flow_call` | retried calls, a loop with a flow body, a local loop over an input that is answered, declined, timed out or lost, recursion to the depth limit, goto | depth 3, 10 steps, horizon 4, 1 crash: the call's attempts are used up by two passes through the loop and the input |
| `flow_documents` | reads, warnings, ends of walks; cycles and output keys of sets; one invocation accounted for once; the handle of a segment | the definitions of 4 nodes that `MCChecker` lists, 2 iterations: up to two loops, nested or one after the other; 3 flows with 3 references, 3 keys, depth 3: a cycle with a flow hanging off it; 2 hosts, 1 id, 3 segments: one host takes over from another that comes back |
| `flow_check_cycles` | violated: an accepted definition with a cycle past a loop's bound | 3 nodes |
| `file_lock` | reaping by three processes with a recycled pid and recycled inodes; three calls of one process, one a try-lock, against another process | five calls in two settings, 3 and 4 of them made, 3 inodes; 1 restart in the first (reaper, slow reaper and new holder), deadlines and failures in the second (each exit of a call that others wait behind) |
| `file_lock_waits` | the verdict on a record; orphans are reaped, and deadlines answered | TTL 2, tolerance 1, clock steps of 2, drifts 1-2, horizon 4, 2 boots, 2 reads: steps and drifts on both sides of the tolerance and the TTL; 3 calls, 2 processes |
| `keyed_queue` | refinement, exactness; turns come | 4 slots, 2 keys: a chain of three with a late caller, and another key |
| `async` | the components of one event loop: their promises, nothing in vain, everything ends | below |
| `channel_drain` | violated: a drained channel leaves a write parked | mark 1, 2 writes |
| `services` | the components of services: order, accounting, results, nothing late, everything ends | below |
| `patch_inherited` | violated: patches for a document that loses an inherited name | keys `a`, `toString` |
| `execution_timeout` | violated: links that run past the timeout of their chain | 3 links |

`async`: 5 items, limit 3 (a hit with misses, hits and unstarted items on both
sides; each worker comes round again; the window moves before and after it is
full). 3 attempts, timeouts 0, 1, 2, 4 or none, delays 0-1 (attempt timeout before,
at and after the deadline). 3 callers of a yielder, 3 units of 0-2 against a budget
of 2. Marks 1, 2 and none, 4 writes (a full buffer of two, one parked, one queued).
Chains of 3 links. 2 events, nested to depth 2, 3 listeners, 2 reads. 3 values to
consume. 3 calls of `next`.

`services`: 2 nodes, 2 instants, ceiling and base 3 with one digit (overflow on both
sides of a receive). 2 requests, one of them idempotent, 2 attempts, 1 redirect, a
rate of 1 per 2 ticks, horizon 4 (both wait for a token, one is aborted). 2
plugins, 2 responses. 4 schemas for 2 entries, 3 compiles, 3 factories. Arrays of
at most 2 items, keys `1` and `9007199254740992`; paths of operations also name
`9007199254740993`, which `Number` makes the latter, and `prototype`.

Slots, calls, walks and most components are single-use, so their machines come to an
end and deadlock is not checked there; a flow run that is over stutters by
`Stopped`, so the deadlocks of both flow runs are checked. Symmetry is used for the
inode numbers of `file_lock`, in which nothing is asked about liveness. A `Write` in
`FileLock` waits when no inode is free, which is a bound and not a behaviour of file
systems.

Fairness:

- `FlowRun`: the event loop goes on (`Drive`), node code settles (`Finish`), the
  clock goes on (`Tick`), the host keeps pulling (`Persist`) and recovers what it
  lost (`Recover`). Aborts, answers and crashes are never obliged to come.
- `FlowChecker`: the check and the walk go on.
- `KeyedQueue`: promise reactions run, and who is inside releases (`run` does so
  in its `finally`). A caller that waits is not obliged to give up.
- `FirstInOrder`, `MapConcurrent`, `PrefetchOrdered`: every call settles, and the
  consumer of the generator pulls as long as it is there. An abort is never
  obliged to come.
- `Retry`: the event loop and the clock go on; calls may never settle.
- `Yielder`: the event loop goes on.
- `Disposer`: the constructor returns, its microtask runs and the callback settles.
- `Channel`: the streams run their operations and callbacks, and the reader reads;
  nobody is obliged to close, cancel, abort or drain.
- `Execution`: contexts resolve and timers fire; executables may never end.
- `Consume`: the iterator answers and `pull` goes on.
- `HTTPClient`: the client runs and time passes; servers, lookups and appliers may
  never answer.
- `HTTPServer`: a setup in progress settles, ports are found, timers fire; hooks and
  responses end only by the grace period. Such a setup holds the shutdown up: the
  code awaits it without a limit.
- `FileLock`: live calls go on (`PatientSpec`), and the corrupt file grows old.
  Holders may hold for ever, and neither a deadline nor a crash is obliged to come:
  a deadline that has come must be answered without any help of the holder.

`Settles` of `MCAsync` and the two properties `Ends` have the form `[]<>Quiet`:
whatever is under way comes to its end again and again. All the machines are
finite, so each that must end and does not is a counterexample.

## 4. What the checks show

Four runs are expected to be violated:

- `channel_drain`. Every write of a channel settles under cancel, abort and close
  (`Settles`), but for a drain: a write that a read has woken, and that `close()`
  overtakes before it goes on, finds the closed readable without room, goes round
  the loop of `waitForCapacity` and parks on a new capacity that nobody settles.
  channel.ts 73-75 means to exclude this. A check of `closed` next to the check of
  `failure` in the loop would do.
- `flow_check_cycles`. checker.ts 395-404 strips the edges of a loop by their target.
  When `exit` or `onExhausted` names the body as well, the cycle through them is
  accepted, though it leaves the loop and starts its count anew; only the limit of
  steps ends it. `Ends` holds for definitions whose loops keep the two apart.
- `patch_inherited`. create.ts 62 asks `key in toObj`, which inherited names such as
  `toString` satisfy. `Object.hasOwn` would do. Two more kinds of keys do not come
  through, and are excluded beside the inherited ones where `RoundTrip` is claimed: for
  `__proto__`, `constructor` and `prototype` createPatches writes paths that `applyPatches`
  refuses (apply.ts 28, 106-108), and one like `9007199254740993` is written to the key
  that `Number` makes of it (apply.ts 114).
- `execution_timeout`. The timeout of the context is cancelled when the first link
  settles (execution.ts 76-82, 102), so it does not bound the chain.

What holds, and what was learned on the way:

- Every document the runner commits passes the checks that `resume` and `recover`
  make (`Recoverable`), so a crash never leaves a run that cannot go on.
- The check of `maxAttempts` before an attempt (run-drive.ts 225-239) is
  unreachable (`AttemptAvailable`, a part of `RetryWorthWaiting`): the failure
  paths stop before.
- The branch that suspends a retry again when it is not due yet is reached only
  when a host's clock is behind the one that scheduled it (`MaxSkew` > 0).
- A compare-and-set of the revision is enough for hosts that share a document: a
  result is stored once, and an effect starts once more only for each segment that
  found it in flight.
- The iteration of `computeDominators` gives the dominators where every node can be
  reached; a node that cannot counts as a way to its targets, which adds warnings and
  takes none away.
- The keyed queue never drops a late caller's turn, and decides `free` rightly
  while the chain is still settling.
- The lock loses exclusion only through the documented window.
- Without a readable boot id a live holder is found stale only when the machine has
  another name or the two estimates of the boot time differ by more than the
  tolerance, on every platform. A record "from the future" (liveness.ts 101-104,
  and lock/test/liveness.test.ts 515-519: "a live holder cannot manufacture" it) does
  not need a dead holder: a wall clock that is set back while the uptime loses time
  gives one to a live holder whose boot id could not be read.
- A name that changes within one boot makes a live holder's liveness unknown on
  platforms other than darwin, also with readable ids, so that the TTL decides.
- `firstInOrder` signals exactly the calls that cannot win any more, also when it
  is aborted from within a call that is being started.
- A call that `retry` gives up is always told, and its late result never taken. When
  the clock reaches the deadline between the loop's check and that of
  `raceAttempt` (retry.ts 240 and 171), the error counts an attempt that was never
  called.
- With `highWaterMark: 0` `desiredSize` of a channel is never above 0, so a write
  waits for ever even while a read waits for it. The runs take marks of 1 and more.
- A readable that is closed while an event is being delivered makes that emission
  fail: its listener is still called and enqueues into a closed stream
  (event/src/index.ts 205).
- `return()` or `throw()` of a flow generator while a handler runs is overwritten by the
  handler's result, and a default action whose step is aborted is lost.
- Removing through `null` without strict mode throws a raw `TypeError` in
  `applyPatches`; createPatches never asks for it.
- The `sent` of an HTTP client's error is true exactly if a fetch of the request began, in
  that attempt or an earlier one, though it is kept in three places. An
  aborted wait gives its token back without the bucket ever giving too much. The
  model takes it that `fetch` heeds its signal and that cancelling a body settles; one
  bucket stands for one host.
- The setup of a plugin may be called after the server was disposed of: the signal is
  looked at (server.ts 225) a microtask before `toPromise` calls it (240), and a host
  that aborts its signal in the turn of `createServer` comes between the two. The
  shutdown waits for such a setup before its first hook (`NothingBegins`, `CloseLast`).
- A close hook comes after all shutdown hooks and the close hooks before it, but one
  that was given up at its timeout may still be running then, as http-server's README says (line 98).
- An executable whose link is aborted in the turn in which it started is called all the
  same, a microtask later, with a signal that is aborted.
- A clock at its ceiling moves its wall time on, and neither the order of stamps
  nor that of their text suffers.

## 5. Proofs

The theorems hold for every value of the constants that the assumptions of the
modules admit (`ASSUME`, each named in the module that declares the constants). They
say no more than what the code takes for granted: bounds are natural numbers, absent
values differ from present ones, definitions are well-formed. One keeps a bound of the
model: arrays of documents have at most four items, since paths count up to "3"
(`PatchAssumption`). TLC evaluates them on every run.

In each case the property is not inductive, and the invariant that is was checked
by TLC first, but for `PatchInv`, which quantifies over all functions; TLC checks what
it implies. What the invariant adds, and why:

`FlowRun_proofs`: `TypeCorrect`, for every set of well-formed definitions, any
bound, delays and skew. That each access to a frame, a node definition or a
caller's attempt is defined needs that frames stand on existing nodes and that
each parked frame's continuation names a caller in the frame below. The proof has a
lemma per operator of `FlowCommit` and a step per action.

`FlowProps_proofs`: the seven promises of `FlowProps` that are not liveness, in three
layers.

- `Stacked` is about the frames of any document the runner builds, complete or not:
  each parked frame stands on the node that its callee's continuation returns to,
  attempts keep to their policies, and no two frames share an invocation id.
- `Sound` adds what holds of a committed document: its status, its pending work, its
  error and its attempt fit each other (`Continuable`, `RetriesHaveRoom`,
  `StartsOnTime`, `NestedCalls`). Each operator of `FlowCommit` takes a sound document
  to a sound one, or to one that is `Stacked` and that its caller completes.
- `Traced` relates a document to the history of starts: an id beyond the document's
  counter is free or belongs to the node that would be run again, and an attempt
  that ran has the site and the number that the document has for it
  (`StoredBeforeRun`, `KeysNameEntries`, `ReplaysStayBounded`). It is kept for the
  stored document, too, because a crash goes back to that one.

`Documents_proofs`, about the specifications of `FlowChecker`, `MCDocuments` and
`FlowHost`:

- `Reads`, for every definition and any number of nodes. The argument does not need
  that the iteration computes the dominators: it is enough that it ends in a solution
  of their equation (`PassInv`: the nodes before the cursor are solved unless the pass
  has changed something), because a step along an edge then keeps "what dominates
  the node has run" (`WalkInv`).
- `Warnings`: that it does compute them. No step takes a dominator away (`NoneLost`, for
  which each node needs a predecessor, hence the condition that all can be reached),
  and a solution has no other (`NoneAdded`: the nodes that p does not dominate are a
  set that is closed under edges that avoid p). Both go by closed sets: what is reached
  is the least one (`ReachedLeast`), so no walk has to be spoken of and no induction
  over one is needed.
- `Cycles` and `RunsAreAsChecked`, for every set of flows. The invariant of Tarjan's search
  (`SearchInv`) says of the flows on the stack that each leads to those above it
  (`Up`) and to one that is still being visited at or below it (`Down`); that a low
  number is that of a flow on the stack which can be reached (`LowFits`); that each
  link that was looked at counts in the low number of its flow, or leads to what is
  closed off (`Seen`), and the low number of a flow whose visit is over in that of
  the visit below it (`Passed`); that nothing leads out of what is closed off
  (`NoneLeave`), and that its components are right (`Cut`). When the lowest flow of a
  component returns, no link leaves what is above it on the stack, by `Seen` and
  `Passed`, and it is one component by `Up` and `Down` (`ReturnCloses`). After the search the
  first link that lies on a cycle is the report of its component (`FirstExact`).
  A set that passed has no cycle of gotos, so a handover has more ancestors than what
  it is from, and the number of ancestors bounds that of handovers (`FramesFit`).
- `Accounted` and `Segments`, for any number of hosts, segments and invocations. The count
  of effects is exact because each start, and each segment that may yet make one, is
  paid for by the draw of the invocation or by a replay (`StartsOwed`): a segment that
  holds a commit the host has not stored may start its effect only while the store
  is at the revision that was read, so two such segments never both go on.

`FileLock_proofs`: `Reaps`, `OneHolder`, `Slots` and `OneHolderInProcess`, for any
calls, processes, inode numbers and restarts. The invariant says of a process's
calls that the later waits for the earlier and that only a queued call waits
(`QueueInv`), and of files that the unlink of a reap follows a check that found the
file judged stale, that what a call has seen was written by a call that was made,
and that a dead process has no call going (`EntryInv`). The theorems speak of what
happens outside the window of a reap, and `OneHolderInProcess` of what happens in it.

`KeyedQueue_proofs`: the inductive invariant says that the slots on a key form
one chain in order of entry, that the settled ones are a prefix of it, that the
tail is the last one, and that a key without an entry has only slots that
released. From it: `Exclusion`, `Holding` (the count is the number of holders),
`FreeIsExact`, `Refinement` (the chain implements `KeyedFifo`) and `TypeCorrect`.

`LockLiveness_proofs`: `Staleness`, for every TTL, tolerance, clock step, drift and
number of boots and reads. The verdict is arithmetic on three clocks; what has to be
known by induction is when the record was written, that the boot it names is
the present one while its holder lives, since only a reboot changes the boot and it
kills the holder, and that a waiter's cached id is none or that of the present boot.

`Services_proofs`: `Causality`, `OneEvent`, `Promises`, `NothingTooLate`, `RoundTrips` and
`Lenient`, about the specification of `MCServices`, and so for any nodes and clocks,
requests, rates, retries and redirects, plugins and responses, atoms and keys of
documents, schemas and bounds of the cache.
`ServicesInv` is again the conjunction of the components' invariants:

- `ClocksInv`: the clock of a node is that of its latest stamp and later than all its
  others, so a new stamp is later than the old ones and what they knew. That text
  sorts as stamps do (`SortsAsText`) is proved for all counters below the ceiling: of
  two of them the texts differ first at the place up to which as many digits have been
  dropped as leaves them different (`FirstPlace`). The library's theorems on recursive
  functions take an operator and cannot be used; that `Dropped` is the function of its
  equation follows from finite parts of it, whose existence is an induction by a
  least counterexample (`LeastOfNaturals`, `Upwards`, `DroppedDef`).
- `ClientInv`: why the bucket is never overdrawn is an argument about claims. A fetch
  that was made, and a request that holds a token or waits for one, are each a claim;
  `BucketFits` says that the claims that have come due by a time `t` cost no more than a
  full bucket and what drips in until `t`, for now and for every due time still to come.
  A refund frees one claim and puts one token back, and the cap of the bucket
  only ever loses tokens. What the request and what the attempt know of `sent` is, while
  an attempt is under way, whether a fetch was made.
- `ServerInv`: what has started and settled in each phase of the life of a server, so
  that a shutdown that goes on finds nothing running behind it.
- `CacheInv`: the entries are the last schemas used, in order of use, and are all of the
  present factory, which is young enough.

`Lenient` is about the operators of `Patch` and holds of every document and operation.
`RoundTrips` says that `PatchesRight` always holds, for a finite set of keys and arrays
of at most four items (`PatchAssumption`), and if no key is inherited, refused by
`parsePath` or changed by `Number`. None of the three can be done without:
`patch_inherited` shows it of the first, and section 4 says it of the others. The invariant is
`PatchInv`: while patches are applied, those that are left lead (`Leads`) from the
working document to the one wanted. That it holds to begin with is `PatchesLead`, and
goes up from the leaves: operations *make* one value into another (`Makes`) if they do so
wherever it stands in any document (`Spot`). A replacement does; operations that make
the items of an array, then those that add or remove at its end, make the array
(`ItemsMake`, `AdditionsMake`, `RemovalsMake`); operations that make or remove the old
fields of an object and add the new ones make the object (`OldFieldsMake`,
`NewFieldsMake`). `Compare` is a recursive function of paths; that it is the function of
its equation (`CompareIs`) is shown without the library's theorems, from what stands two
segments down: it holds nothing that is compared further (`DeepDown`).

`Async_proofs`: `CallsOverLists`, `Turns`, `ChannelDelivers`, `Chains`, `EventsDelivered`
and `NothingInVain`, about the specification of `MCAsync`, and so with any number of
items, attempts, callers, writes, links, events, values and calls. `AsyncInv` is the conjunction of
an invariant of each component:

| Component | The invariant adds |
| --- | --- |
| `FirstInOrder` | the calls in flight are those below `next` that have given nothing; until the decision the slots are what the calls gave, and `bound` is the lowest hit |
| `MapConcurrent` | while nothing has failed, a worker is left as long as an item is; the recorded failure is the first one |
| `PrefetchOrdered` | where the generator stands: the fetch it awaits is the next to yield, has been started, and has settled once its race is decided |
| `Retry` | every attempt before the present one was called and, if it still runs, was told; what decided the race still holds when the loop reads it |
| `Yielder` | while `resumeNext` is due a turn is under way that has resumed somebody, and those it means to resume are waiting |
| `Disposer` | the callback runs for an aborted signal only; an early abort is latched until ours comes |
| `Channel` | what the reader has, followed by what is buffered, rises and holds what was written; writes in flight and waiting go in the order of their numbers; each side knows of the other's end |
| `Execution` | a link that has its turn has an executable, and what was called, timed or decided on has had its turn; an aborted link is preceded by aborted or settled ones; and `InterruptionLasts`, which is inductive only together with these |
| `Events` | emissions in progress are in the order in which they began, and one has been delivered exactly to who is off the rest of its list; an event that still has a closed readable to call was going on when that closed; the reads that were answered are the first ones, those that wait follow in the order of `pending`, and `queue` is what was delivered after the last answered one |
| `Consume` | `pull` has given all it took, but for the value at hand; an abort closes the iterator |
| `FlowGenerator` | a flow that was ended from outside is not in a handler |

A component's steps are shown to keep its own invariant, and the others rest. What
`NothingInVain` says of steps follows from the same lemmas, one for each action.

Left to TLC:

- liveness (`Settles`, `AbortStops`, `TurnComes`, `OrphansReaped`, `Answered`, `Ends`),
  which needs ENABLED.

## 6. Not modelled

- Payload evaluation, node schemas, the types of scopes and result paths, digests;
  what spans hold and emitted events.
- The order of plugins, middleware and limits of `http-server`; headers,
  credentials, address checks and the arithmetic of back-off of `http-client`.
- A call given to `retry` that rejects by itself with a `TimeoutInterruption` whose
  cause is `'deadline'`, which retry.ts 263 takes for its own deadline.
- The parts of a document that `recover` and `resume` check for shape alone
  (state.ts 31-47), such as whether a stored policy is valid: `Recoverable` compares
  what commits can get wrong.
- A timeout event and a late answer to one input brought by two hosts at once: the runs
  with inputs have one host, and `FlowHost` does not tell events apart.
- A restart of an HLC node: the package persists nothing.
- `writable` of `event`, `fromStream` of `generator`, `lazy` and `teardown` of `async`: one
  call, one latch or one promise each.
- Connections and adapters of `stream`: two channels crossed, and stateless
  transforms. JSON, codecs, wrappers, telemetry, platform bindings.
- The components listed as `not_modelled` in `PROJECT.json`, for the reasons there.

## 7. Plan

1. `FlowLifecycle`, the abstract life of a run, implemented by `FlowRun`.
2. The limits of `http-server`, the channels crossed in a connection, and the splitter
   of JSON lines.
