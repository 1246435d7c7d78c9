----------------------------- MODULE MCServices -----------------------------
(***************************************************************************)
(* What services are built from, one component at a time: hybrid logical   *)
(* clocks, an HTTP client, the lifecycle of an HTTP server, JSON patches,  *)
(* a cache of validators.  They share no state: the others rest where      *)
(* nothing of theirs is due.                                               *)
(***************************************************************************)
EXTENDS HLC, FiniteSets

VARIABLE serves   \* the component that runs

clocks == <<clock, cause>>

-----------------------------------------------------------------------------
CONSTANTS Calls, Idempotent, Attempts, MaxRedirects, Timeout, Delays, Rate, Per, Horizon

ASSUME ClientAssumption ==
    /\ IsFiniteSet(Calls) /\ Delays \subseteq Nat
    /\ {Attempts, Rate, Per} \subseteq Nat \ {0} /\ {MaxRedirects, Timeout, Horizon} \subseteq Nat

VARIABLES now, tokens, updated, call

client == <<now, tokens, updated, call>>

Client == INSTANCE HTTPClient

ClientOver ==
    /\ now = Horizon /\ tokens = Client!Capacity /\ updated = 0
    /\ call = [r \in Calls |->
            [pc |-> "done", attempt |-> 1, redirects |-> 0, sent |-> Client!NotSent, fetches |-> 0,
             linked |-> "none", timer |-> Client!None, due |-> Client!None, aborted |-> TRUE,
             outcome |-> "ABORTED"]]

-----------------------------------------------------------------------------
CONSTANTS Plugins, Responses

ASSUME ServerAssumption == Plugins \in Nat

VARIABLES aborted, parent, setup, at, onShutdown, onClose, listening, server, open, cut,
          phase, grace, shutdownHook, closeHook, forced

lifecycle ==
    <<aborted, parent, setup, at, onShutdown, onClose, listening, server, open, cut,
      phase, grace, shutdownHook, closeHook, forced>>

Server == INSTANCE HTTPServer

ServerOver ==
    /\ aborted = TRUE /\ parent = FALSE /\ setup = "stopped" /\ at = 0
    /\ onShutdown = {} /\ onClose = {}
    /\ listening = "no" /\ server = "none" /\ open = {} /\ cut = {}
    /\ phase = "over" /\ grace = "passed" /\ forced = FALSE
    /\ shutdownHook = [p \in Server!P |-> "no"] /\ closeHook = [p \in Server!P |-> "no"]

-----------------------------------------------------------------------------
CONSTANTS Atoms, Keys, Inherited, Inexact, Nearest, MaxLen

(* Paths count up to "3"; a double holds these. *)
ASSUME PatchAssumption ==
    IsFiniteSet(Keys) /\ MaxLen \in 0..4 /\ Inexact \cap {"0", "1", "2", "3"} = {}

VARIABLES data, goal, patches, working, mode

document == <<data, goal, patches, working, mode>>

Patch == INSTANCE Patch

DocumentOver ==
    /\ data = Patch!Object(<<>>) /\ goal = Patch!Object(<<>>)
    /\ patches = <<>> /\ working = Patch!Object(<<>>) /\ mode = "applied"

-----------------------------------------------------------------------------
CONSTANTS Schemas, MaxEntries, MaxCompiles, MaxFactories

ASSUME CacheAssumption == {MaxEntries, MaxCompiles} \subseteq Nat \ {0} /\ MaxFactories \in Nat

VARIABLES entries, factory, disposedFactories, generation, compiles, disposed, given, used, made

cache ==
    <<entries, factory, disposedFactories, generation, compiles, disposed, given, used, made>>

Cache == INSTANCE SchemaCache

-----------------------------------------------------------------------------
Components == {"clocks", "client", "server", "document", "cache"}

ServicesInit ==
    /\ serves \in Components
    /\ Init
    /\ IF serves = "client" THEN Client!Init ELSE ClientOver
    /\ IF serves = "server" THEN Server!Init ELSE ServerOver
    /\ IF serves = "document" THEN Patch!Init ELSE DocumentOver
    /\ Cache!Init

(* One component takes its steps; the rest stands still. *)
ServicesNext ==
    /\ UNCHANGED serves
    /\ \/ /\ serves = "clocks" /\ Next
          /\ UNCHANGED <<client, lifecycle, document, cache>>
       \/ /\ serves = "client" /\ Client!Next
          /\ UNCHANGED <<clocks, lifecycle, document, cache>>
       \/ /\ serves = "server" /\ Server!Next
          /\ UNCHANGED <<clocks, client, document, cache>>
       \/ /\ serves = "document" /\ Patch!Next
          /\ UNCHANGED <<clocks, client, lifecycle, cache>>
       \/ /\ serves = "cache" /\ Cache!Next
          /\ UNCHANGED <<clocks, client, lifecycle, document>>

services == <<serves, clocks, client, lifecycle, document, cache>>

ServicesSpec ==
    /\ ServicesInit /\ [][ServicesNext]_services
    /\ Client!Fairness /\ Server!Fairness

-----------------------------------------------------------------------------
(* Requests keep to the rate limit and say truly what was sent, and what   *)
(* may not be repeated is sent once.  A server closes its hooks last, in   *)
(* order, reports them all, and leaves nothing bound.  The cache keeps     *)
(* what was used last, compiled by the one factory that lives.             *)
ServicesRight ==
    /\ Client!TypeOK /\ Client!ClientRight
    /\ Server!TypeOK /\ Server!ServerRight
    /\ Cache!CacheRight

(* A patch can be applied and makes the one document into the other, and   *)
(* what strict mode lets through is the same without it.                   *)
PatchesRight == Patch!TypeOK /\ Patch!PatchRight

(* No fetch starts once its request was aborted or its attempt timed out.  *)
(* Once a server is disposed of no further setup is decided on and no      *)
(* listen gets through; the one setup decided on before is called before   *)
(* any shutdown hook.                                                      *)
NothingLate == [][Client!NoLateFetch /\ Server!NothingBegins]_services

(* Every request ends, though nobody answers it, and a server that is      *)
(* disposed of shuts down, though no hook and no response ends.            *)
Ends == []<>(Client!Quiet /\ Server!Quiet)
=============================================================================
