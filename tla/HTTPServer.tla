----------------------------- MODULE HTTPServer -----------------------------
(***************************************************************************)
(* The lifecycle of a server of @sozai/http-server: plugin setup, listen,  *)
(* and a shutdown (hooks, drain, close hooks) that may begin in any of     *)
(* them.  Plugins register one hook of each kind at most; hooks and        *)
(* responses need not end.                                                 *)
(***************************************************************************)
EXTENDS Naturals, FiniteSets

CONSTANTS Plugins,   \* how many, in the order of sortPlugins
          Responses  \* the responses that may be open

P == 1..Plugins

VARIABLES
    aborted,      \* the server's signal
    parent,       \* the parent signal was aborted before the server was made
    setup,        \* of createServer; the call of a plugin's is queued first
    at,           \* the plugin whose setup was decided on last
    onShutdown, onClose,   \* the plugins with a hook of the kind
    listening,    \* of the call of listen
    server,
    open, cut,    \* responses that are open, and that were destroyed
    phase,        \* of the shutdown
    grace,        \* the deadline of hooks and drain
    shutdownHook, closeHook,
    forced

created == <<aborted, parent, setup, at, onShutdown, onClose>>

serving == <<listening, server, open, cut>>

closing == <<phase, grace, shutdownHook, closeHook, forced>>

vars == <<created, serving, closing>>

Ended == {"completed", "failed", "timed-out"}

TypeOK ==
    /\ aborted \in BOOLEAN /\ parent \in BOOLEAN /\ at \in 0..Plugins
    /\ setup \in {"starting", "running", "done", "stopped", "failed"}
    /\ onShutdown \subseteq P /\ onClose \subseteq P
    /\ listening \in {"no", "port", "binding", "up", "failed"}
    /\ server \in {"none", "binding", "bound", "closed"}
    /\ open \subseteq Responses /\ cut \subseteq Responses
    /\ phase \in {"none", "setup", "hooks", "drain", "close", "over"}
    /\ grace \in {"off", "running", "passed"}
    /\ shutdownHook \in [P -> {"no", "running"} \cup Ended]
    /\ closeHook \in [P -> {"no", "running"} \cup Ended]
    /\ forced \in BOOLEAN

Init ==
    /\ aborted = FALSE /\ parent \in BOOLEAN
    /\ at = IF parent \/ Plugins = 0 THEN 0 ELSE 1
    /\ setup = IF parent THEN "stopped" ELSE IF Plugins = 0 THEN "done" ELSE "starting"
    /\ onShutdown = {} /\ onClose = {}
    /\ listening = "no" /\ server = "none" /\ open = {} /\ cut = {}
    /\ phase = "none" /\ grace = "off" /\ forced = FALSE
    /\ shutdownHook = [p \in P |-> "no"] /\ closeHook = [p \in P |-> "no"]

-----------------------------------------------------------------------------
(* Mutant: the signal is not looked at between two plugins. *)
ContinueSetupUnseen ==
    IF at = Plugins THEN setup' = "done" /\ at' = at
    ELSE setup' = "starting" /\ at' = at + 1

(* The head of the loop over the plugins, and the assembly behind it.      *)
(* toPromise calls the setup that was decided on in a later microtask.     *)
ContinueSetup ==
    IF at = Plugins THEN setup' = "done" /\ at' = at
    ELSE IF aborted THEN setup' = "stopped" /\ at' = at
    ELSE setup' = "starting" /\ at' = at + 1

SetupStarts ==
    /\ setup = "starting" /\ setup' = "running"
    /\ UNCHANGED <<aborted, parent, at, onShutdown, onClose, serving, closing>>

Register ==
    /\ setup = "running"
    /\ \/ onShutdown' = onShutdown \cup {at} /\ onClose' = onClose
       \/ onClose' = onClose \cup {at} /\ onShutdown' = onShutdown
    /\ UNCHANGED <<aborted, parent, setup, at, serving, closing>>

SetupSettles ==
    /\ setup = "running" /\ ContinueSetup
    /\ UNCHANGED <<aborted, parent, onShutdown, onClose, serving, closing>>

(* The abort listener of the Disposer, and the one of a listen that binds. *)
Abort ==
    /\ ~aborted /\ aborted' = TRUE /\ phase' = "setup"
    /\ IF server = "binding" THEN server' = "closed" /\ listening' = "failed"
                             ELSE UNCHANGED <<server, listening>>
    /\ UNCHANGED <<parent, onShutdown, onClose, open, cut, grace, shutdownHook, closeHook, forced>>

(* close(), a process signal, the parent signal, or a port that cannot be  *)
(* bound; an abort of the parent before construction is acted on later.    *)
Dispose == Abort /\ UNCHANGED <<setup, at>>

(* createServer disposes of a server whose plugin failed. *)
SetupFails ==
    /\ setup = "running" /\ setup' = "failed" /\ at' = at
    /\ IF aborted THEN UNCHANGED <<aborted, parent, onShutdown, onClose, serving, closing>>
                  ELSE Abort

-----------------------------------------------------------------------------
(* With a fixed port the server binds at once. *)
Listen ==
    /\ setup = "done" /\ ~aborted /\ listening = "no"
    /\ \/ listening' = "port" /\ server' = server
       \/ listening' = "binding" /\ server' = "binding"
    /\ UNCHANGED <<created, open, cut, closing>>

PortChosen ==
    /\ listening = "port"
    /\ IF aborted THEN listening' = "failed" /\ server' = server
                  ELSE listening' = "binding" /\ server' = "binding"
    /\ UNCHANGED <<created, open, cut, closing>>

Bound ==
    /\ server = "binding" /\ server' = "bound" /\ listening' = "up"
    /\ UNCHANGED <<created, open, cut, closing>>

(* Once the server is closed, a request still comes over a connection that *)
(* an open response or a part of this request keeps, until all are closed. *)
Arrives(q) ==
    /\ q \notin open \cup cut
    /\ \/ server = "bound"
       \/ server = "closed" /\ listening = "up" /\ phase \in {"hooks", "drain"}
    /\ open' = open \cup {q}
    /\ UNCHANGED <<created, listening, server, cut, closing>>

-----------------------------------------------------------------------------
(* The setup decided on has settled: server.close(), and all hooks start.  *)
StartHooks ==
    /\ phase = "setup" /\ setup \notin {"starting", "running"}
    /\ phase' = "hooks" /\ grace' = "running"
    /\ server' = IF server = "none" THEN "none" ELSE "closed"
    /\ shutdownHook' = [p \in P |-> IF p \in onShutdown THEN "running" ELSE "no"]
    /\ UNCHANGED <<created, listening, open, cut, closeHook, forced>>

(* Their timeouts are what is left of the grace. *)
ShutdownHookEnds(p) ==
    /\ shutdownHook[p] = "running"
    /\ \E how \in {"completed", "failed"} \cup (IF grace = "passed" THEN {"timed-out"} ELSE {}) :
          shutdownHook' = [shutdownHook EXCEPT ![p] = how]
    /\ UNCHANGED <<created, serving, phase, grace, closeHook, forced>>

(* The next close hook, in reverse order, or the report. *)
NextClose(hooks) ==
    LET left == {p \in onClose : hooks[p] = "no"} IN
    IF left = {} THEN phase' = "over" /\ closeHook' = hooks
    ELSE /\ phase' = "close"
         /\ closeHook' = [hooks EXCEPT ![CHOOSE p \in left : \A q \in left : q <= p] = "running"]

(* closeAllConnections, and the first close hook. *)
Conclude(force) ==
    /\ forced' = force /\ cut' = open /\ open' = {} /\ NextClose(closeHook)

StartDrain ==
    /\ phase = "hooks" /\ \A p \in P : shutdownHook[p] # "running"
    /\ IF open = {} THEN Conclude(FALSE)
       ELSE IF grace = "passed" THEN Conclude(TRUE)
       ELSE phase' = "drain" /\ UNCHANGED <<forced, cut, open, closeHook>>
    /\ UNCHANGED <<created, listening, server, grace, shutdownHook>>

(* The last response of a drain ends it. *)
Responds(q) ==
    /\ q \in open
    /\ IF phase = "drain" /\ open = {q}
       THEN /\ forced' = FALSE /\ open' = {} /\ cut' = cut /\ NextClose(closeHook)
       ELSE open' = open \ {q} /\ UNCHANGED <<cut, phase, closeHook, forced>>
    /\ UNCHANGED <<created, listening, server, grace, shutdownHook>>

GracePasses ==
    /\ grace = "running" /\ grace' = "passed" /\ phase \in {"hooks", "drain"}
    /\ IF phase = "drain" THEN Conclude(TRUE)
                          ELSE UNCHANGED <<forced, cut, open, phase, closeHook>>
    /\ UNCHANGED <<created, listening, server, shutdownHook>>

(* Each close hook has a timeout of its own. *)
CloseHookEnds ==
    /\ \E p \in P, how \in Ended :
          closeHook[p] = "running" /\ NextClose([closeHook EXCEPT ![p] = how])
    /\ UNCHANGED <<created, serving, grace, shutdownHook, forced>>

Next ==
    \/ SetupStarts \/ Register \/ SetupSettles \/ SetupFails \/ Dispose
    \/ Listen \/ PortChosen \/ Bound
    \/ \E q \in Responses : Arrives(q) \/ Responds(q)
    \/ StartHooks \/ StartDrain \/ GracePasses \/ CloseHookEnds
    \/ \E p \in P : ShutdownHookEnds(p)

(* A setup in progress settles, timers fire and ports are found; hooks and *)
(* responses end only by their timers.                                     *)
Fairness ==
    /\ WF_vars(SetupStarts) /\ WF_vars(SetupSettles \/ SetupFails)
    /\ WF_vars(parent /\ Dispose) /\ WF_vars(PortChosen)
    /\ WF_vars(StartHooks) /\ WF_vars(StartDrain) /\ WF_vars(GracePasses)
    /\ WF_vars(CloseHookEnds)
    /\ \A p \in P : WF_vars(grace = "passed" /\ ShutdownHookEnds(p))

Spec == Init /\ [][Next]_vars /\ Fairness

-----------------------------------------------------------------------------
(* A close hook starts when no setup runs and no response is open, and all *)
(* shutdown hooks and, in reverse order, the close hooks before it have    *)
(* ended or were given up at their timeouts: one given up may still run.   *)
CloseLast ==
    \A p \in P : closeHook[p] # "no" =>
        /\ open = {} /\ setup \notin {"starting", "running"}
        /\ \A q \in P : shutdownHook[q] # "running"
        /\ \A q \in onClose : q > p => closeHook[q] \in Ended

(* The report names every hook that was registered, and says forced if and *)
(* only if a response was cut.                                             *)
ReportExact ==
    phase = "over" =>
        /\ \A p \in P : shutdownHook[p] \in (IF p \in onShutdown THEN Ended ELSE {"no"})
        /\ \A p \in P : closeHook[p] \in (IF p \in onClose THEN Ended ELSE {"no"})
        /\ forced <=> cut # {}

(* No socket is bound, or will be, once the connections were closed.       *)
NothingBound ==
    /\ phase \in {"close", "over"} => server \in {"none", "closed"}
    /\ server # "none" => setup = "done"

ServerRight == CloseLast /\ ReportExact /\ NothingBound

(* After the disposal no further setup is decided on and no listen gets    *)
(* through.  A setup that was decided on before is still called, and then  *)
(* before any shutdown hook.                                               *)
NothingBegins ==
    /\ aborted => at' = at /\ (server' \in {"binding", "bound"} => server' = server)
    /\ setup' = "running" /\ setup # "running" => phase \in {"none", "setup"}

(* A disposed server shuts down, though no hook and no response ever ends. *)
Quiet == aborted \/ parent => phase = "over"
=============================================================================
