----------------------------- MODULE CliProcess -----------------------------
(***************************************************************************)
(* CliAgentProcess (src/main/agents/cli-agent-process.ts): one object that *)
(* owns the CLI process of a session through all its generations, the      *)
(* table of pending requests, the shared handshake and the host requests   *)
(* the CLI makes.                                                          *)
(*                                                                         *)
(* A call is a user of the object (AgentManager): it initialises, then     *)
(* makes one request.  A stop is a call of shutdown().  Both, and the      *)
(* handshake, own an entry of the request table.                           *)
(***************************************************************************)
EXTENDS Naturals, FiniteSets

CONSTANTS
  Calls,      \* users of the object, one request each
  Stops,      \* calls of shutdown()
  HostCalls,  \* requests the CLI makes of the host
  HostCap,    \* maxConcurrentHostRequestsPerProcess
  MaxGen,     \* bound: generations (a call starts at most two)
  Handshake,  \* the request 'initialize'
  Unfit       \* the shutdown of a CLI that lacks a capability

ASSUME CliAssumption ==
  /\ Calls \cap Stops = {}
  /\ {Handshake, Unfit} \cap (Calls \cup Stops) = {} /\ Handshake # Unfit
  /\ HostCap \in Nat /\ MaxGen \in Nat

VARIABLES
  proc,       \* the operating system's view of the process of a generation
  child,      \* the generation in the field child; 0 is undefined
  generation, \* the last generation started
  stopping,
  ready,      \* initialized
  shaking,    \* the shared initialization promise
  pending,    \* the request table: the generation an entry was written to, or 0
  call,       \* how far a call is
  stop, stopOf,          \* how far a shutdown is, and the generation it stops
  letGo,      \* (history) the generation whose shutdown let a later one go
  host, hostOf, active   \* a host request, who made it, activeHostRequests

cliVars == <<proc, child, generation, stopping, ready, shaking, pending, call,
             stop, stopOf, letGo, host, hostOf, active>>

AllStops == Stops \cup {Unfit}
Ids == Calls \cup AllStops \cup {Handshake}
Gens == 1..MaxGen

CliTypeOK ==
  /\ proc \in [Gens -> {"none", "alive", "ending", "gone"}]
  /\ generation \in 0..MaxGen
  /\ child \in 0..generation
  /\ stopping \in BOOLEAN /\ ready \in BOOLEAN
  /\ shaking \in {"no", "asked", "answered", "failed", "unfit", "leaving"}
  /\ pending \in [Ids -> 0..MaxGen]
  /\ call \in [Calls -> {"new", "joining", "ready", "sent", "answered", "failed"}]
  /\ stop \in [AllStops -> {"new", "asking", "asked", "killing", "done"}]
  /\ stopOf \in [AllStops -> 0..MaxGen] /\ letGo \in [Gens -> 0..MaxGen]
  /\ host \in [HostCalls -> {"new", "running", "over"}]
  /\ hostOf \in [HostCalls -> 0..MaxGen]
  /\ active \subseteq HostCalls /\ Cardinality(active) <= HostCap

CliInit ==
  /\ proc = [g \in Gens |-> "none"]
  /\ child = 0 /\ generation = 0
  /\ stopping = FALSE /\ ready = FALSE
  /\ shaking = "no"
  /\ pending = [i \in Ids |-> 0]
  /\ call = [c \in Calls |-> "new"]
  /\ stop = [s \in AllStops |-> "new"] /\ stopOf = [s \in AllStops |-> 0]
  /\ letGo = [g \in Gens |-> 0]
  /\ host = [h \in HostCalls |-> "new"] /\ hostOf = [h \in HostCalls |-> 0]
  /\ active = {}

\* The continuations of a settled handshake run before the next event of the
\* loop, yet after the other lines of the chunk that settled it.
Quiet == shaking \in {"no", "asked", "leaving"}

-----------------------------------------------------------------------------
(* ensureStarted, rejectPending, failProcess *)

\* ensureStarted, and the write of request id to the process there is.
Started(id) ==
  IF child = 0
  THEN /\ generation < MaxGen
       /\ generation' = generation + 1
       /\ child' = generation'
       /\ proc' = [proc EXCEPT ![generation'] = "alive"]
       /\ stopping' = FALSE
       /\ pending' = [pending EXCEPT ![id] = generation']
  ELSE /\ pending' = [pending EXCEPT ![id] = child]
       /\ UNCHANGED <<generation, child, proc, stopping>>

\* A request is refused while the process that is there is being shut down.
Refused == child # 0 /\ stopping

\* Faulty variant of RejectPending: the table is cleared, nobody is told.
ForgetPending(stops, shake) ==
  /\ pending' = [i \in Ids |-> 0]
  /\ stop' = stops
  /\ shaking' = shake
  /\ UNCHANGED call

\* rejectPending, with what those who await the requests do: callers fail, a
\* shutdown and a handshake go on.
RejectPending(stops, shake) ==
  /\ pending' = [i \in Ids |-> 0]
  /\ call' = [c \in Calls |-> IF pending[c] # 0 THEN "failed" ELSE call[c]]
  /\ stop' = [s \in AllStops |->
                IF pending[s] # 0 /\ stops[s] = "asking" THEN "asked" ELSE stops[s]]
  /\ shaking' = IF pending[Handshake] # 0 THEN "failed" ELSE shake

\* Faulty variant of FailedFor: the requests of the failed process stay in
\* the table.
FailedWithTable(g) ==
  IF child # g
  THEN UNCHANGED <<child, ready, pending, call, stop, shaking>>
  ELSE child' = 0 /\ ready' = FALSE /\ UNCHANGED <<pending, call, stop, shaking>>

\* failProcess on behalf of generation g: a report of an earlier one is
\* ignored.  The process itself is told to end, or gone, by the caller.
FailedFor(g) ==
  IF child # g
  THEN UNCHANGED <<child, ready, pending, call, stop, shaking>>
  ELSE child' = 0 /\ ready' = FALSE /\ RejectPending(stop, shaking)

FailProcess(g) ==
  /\ FailedFor(g)
  /\ active' = IF child = g THEN {} ELSE active

\* Faulty variant of ToldToEnd: the process is left alone.
NotTold(g) == proc

ToldToEnd(g) == [proc EXCEPT ![g] = IF @ = "alive" THEN "ending" ELSE @]

-----------------------------------------------------------------------------
(* initialize() and request() *)

\* initialize(): done, under way, or performed by this call.
Initialize(c) ==
  /\ Quiet
  /\ call[c] = "new"
  /\ \/ /\ ready \/ (shaking = "no" /\ Refused)
        /\ call' = [call EXCEPT ![c] = IF ready THEN "ready" ELSE "failed"]
        /\ UNCHANGED <<proc, child, generation, stopping, pending, shaking>>
     \/ /\ ~ready /\ shaking # "no"
        /\ call' = [call EXCEPT ![c] = "joining"]
        /\ UNCHANGED <<proc, child, generation, stopping, pending, shaking>>
     \/ /\ ~ready /\ shaking = "no" /\ ~Refused
        /\ call' = [call EXCEPT ![c] = "joining"]
        /\ shaking' = "asked"
        /\ Started(Handshake)
  /\ UNCHANGED <<ready, stop, stopOf, letGo, host, hostOf, active>>

\* The rest of performInitialization and the finally of initialize().
HandshakeSettled ==
  /\ shaking \in {"answered", "failed"}
  /\ ready' = (ready \/ shaking = "answered")
  /\ call' = [c \in Calls |-> IF call[c] # "joining" THEN call[c]
                               ELSE IF shaking = "answered" THEN "ready" ELSE "failed"]
  /\ shaking' = "no"
  /\ UNCHANGED <<proc, child, generation, stopping, pending, stop, stopOf, letGo, host, hostOf, active>>

\* request() of an initialised caller, which may have awaited other things
\* since: it starts a process when there is none, and asks for no handshake.
Request(c) ==
  /\ Quiet
  /\ call[c] = "ready"
  /\ \/ /\ Refused
        /\ call' = [call EXCEPT ![c] = "failed"]
        /\ UNCHANGED <<proc, child, generation, stopping, pending>>
     \/ /\ ~Refused
        /\ call' = [call EXCEPT ![c] = "sent"]
        /\ Started(c)
  /\ UNCHANGED <<ready, shaking, stop, stopOf, letGo, host, hostOf, active>>

\* The timer of a request, or its write failing.
GiveUp(id) ==
  /\ Quiet
  /\ pending[id] # 0 /\ pending[id] = child
  /\ proc' = ToldToEnd(child)
  /\ FailProcess(child)
  /\ UNCHANGED <<generation, stopping, stopOf, letGo, host, hostOf>>

-----------------------------------------------------------------------------
(* consumeLine and the end of a process *)

\* A response with a known id and its method.
Response(id) ==
  /\ pending[id] # 0 /\ pending[id] = child
  /\ proc[child] = "alive"
  /\ pending' = [pending EXCEPT ![id] = 0]
  /\ call' = [c \in Calls |-> IF c = id THEN "answered" ELSE call[c]]
  /\ stop' = [s \in AllStops |-> IF s = id THEN "asked" ELSE stop[s]]
  /\ shaking' \in IF id = Handshake THEN {"answered", "failed", "unfit"} ELSE {shaking}
  /\ UNCHANGED <<proc, child, generation, stopping, ready, stopOf, letGo, host, hostOf, active>>

\* An unknown id, a wrong method, a line that is no JSON or is too long.
InvalidLine ==
  /\ child # 0
  /\ proc[child] = "alive"
  /\ proc' = ToldToEnd(child)
  /\ FailProcess(child)
  /\ UNCHANGED <<generation, stopping, stopOf, letGo, host, hostOf>>

\* The events 'error' and 'close'.
Exit(g) ==
  /\ Quiet
  /\ proc[g] \in {"alive", "ending"}
  /\ proc' = [proc EXCEPT ![g] = "gone"]
  /\ FailProcess(g)
  /\ UNCHANGED <<generation, stopping, stopOf, letGo, host, hostOf>>

\* The write of an answer to the current process: done, or failing.
Answered ==
  \/ UNCHANGED <<proc, child, ready, pending, call, stop, shaking>>
  \/ proc' = ToldToEnd(child) /\ FailedFor(child)

\* handleHostRequest up to the call of the broker; at the limit it answers.
HostRequest(h) ==
  /\ host[h] = "new"
  /\ child # 0 /\ proc[child] = "alive" /\ ~stopping
  /\ \/ /\ Cardinality(active) < HostCap
        /\ host' = [host EXCEPT ![h] = "running"]
        /\ hostOf' = [hostOf EXCEPT ![h] = child]
        /\ active' = active \cup {h}
        /\ UNCHANGED <<proc, child, ready, pending, call, stop, shaking>>
     \/ /\ Cardinality(active) >= HostCap
        /\ host' = [host EXCEPT ![h] = "over"]
        /\ Answered
        /\ active' = IF child' = child THEN active ELSE {}
        /\ UNCHANGED hostOf
  /\ UNCHANGED <<generation, stopping, stopOf, letGo>>

\* The broker settles: its answer is written, or dropped when the process
\* that asked is no longer the one there is.
HostSettles(h) ==
  /\ Quiet
  /\ host[h] = "running"
  /\ host' = [host EXCEPT ![h] = "over"]
  /\ hostOf' = [hostOf EXCEPT ![h] = 0]
  /\ IF child = hostOf[h] /\ ~stopping THEN Answered
     ELSE UNCHANGED <<proc, child, ready, pending, call, stop, shaking>>
  /\ active' = IF child' = child THEN active \ {h} ELSE {}
  /\ UNCHANGED <<generation, stopping, stopOf, letGo>>

-----------------------------------------------------------------------------
(* shutdown() *)

BeginStop(s) ==
  /\ child # 0
  /\ stopping' = TRUE
  /\ active' = {}
  /\ pending' = [pending EXCEPT ![s] = child]
  /\ stop' = [stop EXCEPT ![s] = "asking"]
  /\ stopOf' = [stopOf EXCEPT ![s] = child]
  /\ UNCHANGED <<proc, child, generation, ready, call, letGo, host, hostOf>>

Shutdown(s) ==
  /\ Quiet
  /\ stop[s] = "new"
  /\ BeginStop(s)
  /\ UNCHANGED shaking

\* performInitialization shuts a CLI down that lacks a required capability.
ShutdownUnfit ==
  /\ shaking = "unfit"
  /\ \/ child # 0 /\ BeginStop(Unfit) /\ shaking' = "leaving"
     \/ /\ child = 0 /\ shaking' = "failed"
        /\ UNCHANGED <<proc, child, generation, stopping, ready, pending, call, stop, stopOf, letGo,
                       host, hostOf, active>>

StopKill(s) ==
  /\ stop[s] = "asked"
  /\ stop' = [stop EXCEPT ![s] = "killing"]
  /\ proc' = ToldToEnd(stopOf[s])
  /\ UNCHANGED <<child, generation, stopping, ready, shaking, pending, call, stopOf, letGo,
                 host, hostOf, active>>

\* The process is gone, or its end could not be confirmed in time.  What the
\* table and the field hold by now is rejected and let go.
StopTail(s) ==
  /\ Quiet
  /\ stop[s] = "killing"
  /\ child' = 0 /\ ready' = FALSE
  /\ letGo' = [g \in Gens |-> IF g = child THEN stopOf[s] ELSE letGo[g]]
  /\ RejectPending([stop EXCEPT ![s] = IF s = Unfit THEN "new" ELSE "done"],
                   IF s = Unfit THEN "failed" ELSE shaking)
  /\ UNCHANGED <<proc, generation, stopping, stopOf, host, hostOf, active>>

-----------------------------------------------------------------------------
Settling == HandshakeSettled \/ ShutdownUnfit \/ \E s \in AllStops : StopKill(s)

CliNext ==
  \/ \E c \in Calls : Initialize(c) \/ Request(c)
  \/ \E id \in Ids : Response(id) \/ GiveUp(id)
  \/ InvalidLine
  \/ \E g \in Gens : Exit(g)
  \/ \E h \in HostCalls : HostRequest(h) \/ HostSettles(h)
  \/ \E s \in Stops : Shutdown(s)
  \/ \E s \in AllStops : StopTail(s)
  \/ Settling

CliSpec == CliInit /\ [][CliNext]_cliVars

\* The event loop goes on, timers fire, and the end of a process is bounded by
\* a deadline; the CLI may never answer.
CliFairness ==
  /\ WF_cliVars(Settling)
  /\ \A c \in Calls : WF_cliVars(Request(c))
  /\ \A id \in Ids : WF_cliVars(GiveUp(id))
  /\ \A s \in AllStops : WF_cliVars(StopTail(s))

-----------------------------------------------------------------------------
\* Whatever ends a process (its exit, a time-out, a failing write, an invalid
\* line, a shutdown), the table holds no request of a process that is not the
\* current one: the answer to it could never be told from a stranger's.
TableOfCurrentChild ==
  \A id \in Ids : pending[id] # 0 => pending[id] = child /\ proc[child] # "gone"

\* A process that lives on without being the current one, and without having
\* been told to end, was let go by the end of a shutdown that had been waiting
\* for an earlier generation.
DetachedByOverlapOnly ==
  \A g \in Gens : proc[g] = "alive" /\ g # child => letGo[g] \in 1..(g - 1)

\* A call is neither answered nor rejected yet.
CallsUnderWay == \E c \in Calls : call[c] \notin {"new", "answered", "failed"}
=============================================================================
