---------------------------- MODULE AgentSessions ----------------------------
(***************************************************************************)
(* AgentManager (src/main/agents/agent-manager.ts): which CLI process      *)
(* serves which session.  Sessions are opened one at a time (the admission *)
(* chain), at most MaxSessions are bound, an idle one is evicted for a     *)
(* newcomer or expires, and a process that exits is started again a few    *)
(* times.                                                                  *)
(*                                                                         *)
(* A binding is a ProcessBinding; its process is CliAgentProcess, of which *)
(* only up, down and being shut down matter here.  The maps of the class   *)
(* are one record, so that what the code does to several of them in turn   *)
(* is a function from maps to maps.                                        *)
(***************************************************************************)
EXTENDS Naturals, FiniteSets

CONSTANTS
  Sessions,
  Projects, ProjectOf,  \* the projects, and that of a session
  Opens,        \* calls that open a session
  OpenOf,       \* [how |-> "create" or "resume", session |-> its session]
  MaxSessions,  \* maxConcurrentSessionProcesses
  MaxTries,     \* recoveries before a binding is given up
  MaxBindings,  \* bound: bindings made
  MaxCrashes    \* bound: exits of processes

ASSUME SessionsAssumption ==
  /\ OpenOf \in [Opens -> [how : {"create", "resume"}, session : Sessions]]
  /\ IsFiniteSet(Sessions) /\ ProjectOf \in [Sessions -> Projects]
  /\ MaxSessions \in Nat \ {0}
  /\ MaxTries \in Nat /\ MaxBindings \in Nat /\ MaxCrashes \in Nat

VARIABLES
  maps,      \* processes, sessionBindings, turn and approval routes, recovery
  keyOf,     \* key of a binding; those not made yet have NoKey
  owns,      \* bindings whose sessionId is set
  up,        \* the process of a binding
  recovering,\* bindings whose recovery awaits initialize()
  open, openFor,  \* how far an opening is, and its binding
  turn, turnAt,   \* the turn of a session, and the binding it was started on
  answered,  \* sessions whose turn.start has been answered and continued
  ordered,   \* bindings a shutdown of their project or of all was told to end
  clearing,  \* the calls of shutdownAll under way: the bindings each awaits
  crashes

sessVars == <<maps, keyOf, owns, up, recovering, open, openFor, turn, turnAt,
              answered, ordered, clearing, crashes>>

Keys == [how : {"create", "resume"}, session : Sessions]
NoKey == [how |-> "none"]
Bindings == 1..MaxBindings
NoMaps ==
  [procs |-> [k \in Keys |-> 0], bound |-> [s \in Sessions |-> 0],
   routes |-> [s \in Sessions |-> 0], asked |-> {},
   timer |-> [k \in Keys |-> 0], tries |-> [k \in Keys |-> 0]]

SessTypeOK ==
  /\ maps.procs \in [Keys -> 0..MaxBindings] /\ maps.bound \in [Sessions -> 0..MaxBindings]
  /\ maps.routes \in [Sessions -> 0..MaxBindings] /\ maps.asked \subseteq Bindings
  /\ maps.timer \in [Keys -> 0..MaxBindings] /\ maps.tries \in [Keys -> 0..MaxTries]
  /\ keyOf \in [Bindings -> Keys \cup {NoKey}]
  /\ owns \subseteq Bindings /\ recovering \subseteq Bindings
  /\ up \in [Bindings -> {"down", "up", "stopping"}]
  /\ open \in [Opens -> {"new", "queued", "evicting", "admitted", "starting", "opening",
                         "aborting", "over"}]
  /\ openFor \in [Opens -> 0..MaxBindings]
  /\ turn \in [Sessions -> {"none", "preparing", "sent", "running"}]
  /\ turnAt \in [Sessions -> 0..MaxBindings] /\ answered \subseteq Sessions
  /\ ordered \subseteq Bindings /\ clearing \subseteq SUBSET Bindings
  /\ crashes \in 0..MaxCrashes

SessInit ==
  /\ maps = NoMaps
  /\ keyOf = [b \in Bindings |-> NoKey]
  /\ owns = {} /\ recovering = {} /\ answered = {}
  /\ up = [b \in Bindings |-> "down"]
  /\ open = [o \in Opens |-> "new"] /\ openFor = [o \in Opens |-> 0]
  /\ turn = [s \in Sessions |-> "none"] /\ turnAt = [s \in Sessions |-> 0]
  /\ ordered = {} /\ clearing = {} /\ crashes = 0

SessionOf(b) == keyOf[b].session

-----------------------------------------------------------------------------
(* What the private methods do to the maps *)

ClearRoutes(m, b) ==
  [m EXCEPT !.routes = [s \in Sessions |-> IF @[s] = b THEN 0 ELSE @[s]],
            !.asked = @ \ {b}]

\* removeBinding: by key and by session id, whichever binding they hold.
Unmap(m, b) ==
  LET r == [ClearRoutes(m, b) EXCEPT !.procs[keyOf[b]] = 0]
  IN  IF b \in owns THEN [r EXCEPT !.bound[SessionOf(b)] = 0] ELSE r

ClearRecovery(m, k) == [m EXCEPT !.timer[k] = 0, !.tries[k] = 0]

\* The first part of shutdownBinding.
Dismiss(m, b) == ClearRecovery(Unmap(m, b), keyOf[b])

\* scheduleRecovery
Recover(m, b) ==
  LET k == keyOf[b]
  IN  CASE m.tries[k] >= MaxTries -> Unmap(m, b)
        [] m.tries[k] < MaxTries /\ m.timer[k] # 0 -> m
        [] OTHER -> [m EXCEPT !.tries[k] = @ + 1, !.timer[k] = b]

\* process.shutdown() of a binding; nothing when the process is down.
Stopping(b) == [up EXCEPT ![b] = IF @ = "up" THEN "stopping" ELSE @]

\* Bindings with a turn, an approval or a trust question.
Busy(m) == {m.routes[s] : s \in Sessions} \cup m.asked

BoundCount(m) == Cardinality({s \in Sessions : m.bound[s] # 0})

-----------------------------------------------------------------------------
(* sessionCreate, sessionResume, openSession *)

\* A session that is bound or being opened is not opened again: the caller
\* shares the promise of the first, or asks the bound process.
Open(o) ==
  /\ open[o] = "new"
  /\ maps.bound[OpenOf[o].session] = 0
  /\ \A p \in Opens : OpenOf[p].session = OpenOf[o].session => open[p] \in {"new", "over"}
  /\ open' = [open EXCEPT ![o] = "queued"]
  /\ UNCHANGED <<maps, keyOf, owns, up, recovering, openFor, turn, turnAt, answered, ordered, clearing, crashes>>

\* Faulty variant of Turned: openings overlap.
TurnedAnyway(o) == open[o] = "queued"

\* withSessionAdmission: the calls before have settled.
Turned(o) == open[o] = "queued" /\ \A p \in Opens : open[p] \in {"new", "queued", "over"}

\* ensureSessionCapacity.  Which of the idle ones is the least recently used
\* is left open.
Admit(o) ==
  /\ Turned(o)
  /\ \/ /\ BoundCount(maps) < MaxSessions
        /\ open' = [open EXCEPT ![o] = "admitted"]
        /\ UNCHANGED <<maps, up, openFor>>
     \/ /\ BoundCount(maps) >= MaxSessions
        /\ \E s \in Sessions :
             LET b == maps.bound[s]
             IN  /\ b # 0 /\ b \notin Busy(maps)
                 /\ maps' = Dismiss(maps, b)
                 /\ up' = Stopping(b)
                 /\ openFor' = [openFor EXCEPT ![o] = b]
        /\ open' = [open EXCEPT ![o] = "evicting"]
     \/ /\ BoundCount(maps) >= MaxSessions
        /\ \A s \in Sessions : maps.bound[s] \in {0} \cup Busy(maps)
        /\ open' = [open EXCEPT ![o] = "over"]
        /\ UNCHANGED <<maps, up, openFor>>
  /\ UNCHANGED <<keyOf, owns, recovering, turn, turnAt, answered, ordered, clearing, crashes>>

\* The evicted process is gone (or its end not confirmed): back to the test.
Evicted(o) ==
  /\ open[o] = "evicting"
  /\ up[openFor[o]] # "stopping"
  /\ open' = [open EXCEPT ![o] = IF BoundCount(maps) < MaxSessions THEN "admitted" ELSE "queued"]
  /\ UNCHANGED <<maps, keyOf, owns, up, recovering, openFor, turn, turnAt, answered, ordered, clearing, crashes>>

\* createProcess: the binding of the key, or a new one; then initialize().
StartProcess(o) ==
  /\ open[o] = "admitted"
  /\ LET k == OpenOf[o]
         made == {b \in Bindings : keyOf[b] # NoKey}
         b == IF maps.procs[k] # 0 THEN maps.procs[k] ELSE Cardinality(made) + 1
     IN  /\ b \in Bindings
         /\ up[b] # "stopping"
         /\ keyOf' = [keyOf EXCEPT ![b] = k]
         /\ maps' = [maps EXCEPT !.procs[k] = b]
         /\ up' = [up EXCEPT ![b] = "up"]
         /\ openFor' = [openFor EXCEPT ![o] = b]
  /\ open' = [open EXCEPT ![o] = "starting"]
  /\ UNCHANGED <<owns, recovering, turn, turnAt, answered, ordered, clearing, crashes>>

\* The handshake: answered, or refused with the CLI shut down.
Initialized(o) ==
  /\ open[o] = "starting"
  /\ \/ /\ up[openFor[o]] = "up"
        /\ open' = [open EXCEPT ![o] = "opening"]
        /\ UNCHANGED up
     \/ /\ up' \in {up, [up EXCEPT ![openFor[o]] = "down"]}
        /\ open' = [open EXCEPT ![o] = "over"]
  /\ UNCHANGED <<maps, keyOf, owns, recovering, openFor, turn, turnAt, answered, ordered, clearing, crashes>>

\* The CLI has opened the session, or refuses to and is shut down.
Opened(o) ==
  /\ open[o] = "opening"
  /\ LET b == openFor[o]
     IN  \/ /\ up[b] = "up"
            /\ owns' = owns \cup {b}
            /\ maps' = [maps EXCEPT !.bound[OpenOf[o].session] = b]
            /\ open' = [open EXCEPT ![o] = "over"]
            /\ UNCHANGED up
         \/ /\ maps' = Unmap(maps, b)
            /\ up' = Stopping(b)
            /\ open' = [open EXCEPT ![o] = "aborting"]
            /\ UNCHANGED owns
  /\ UNCHANGED <<keyOf, recovering, openFor, turn, turnAt, answered, ordered, clearing, crashes>>

Aborted(o) ==
  /\ open[o] = "aborting"
  /\ up[openFor[o]] # "stopping"
  /\ open' = [open EXCEPT ![o] = "over"]
  /\ UNCHANGED <<maps, keyOf, owns, up, recovering, openFor, turn, turnAt, answered, ordered, clearing, crashes>>

-----------------------------------------------------------------------------
(* Turns, approvals and trust questions *)

\* sessionProcess and the uploads of turnStart.
PrepareTurn(s) ==
  /\ turn[s] = "none"
  /\ maps.bound[s] # 0 /\ up[maps.bound[s]] # "stopping"
  /\ turn' = [turn EXCEPT ![s] = "preparing"]
  /\ turnAt' = [turnAt EXCEPT ![s] = maps.bound[s]]
  /\ up' = [up EXCEPT ![maps.bound[s]] = "up"]
  /\ answered' = answered \ {s}
  /\ UNCHANGED <<maps, keyOf, owns, recovering, open, openFor, ordered, clearing, crashes>>

\* turn.start is written to the binding found before, whatever became of it:
\* refused while it shuts down, and starting a process when there is none.
SendTurn(s) ==
  /\ turn[s] = "preparing"
  /\ LET b == turnAt[s]
     IN  IF up[b] = "stopping"
         THEN turn' = [turn EXCEPT ![s] = "none"] /\ UNCHANGED up
         ELSE turn' = [turn EXCEPT ![s] = "sent"] /\ up' = [up EXCEPT ![b] = "up"]
  /\ UNCHANGED <<maps, keyOf, owns, recovering, open, openFor, turnAt, answered, ordered, clearing, crashes>>

\* The event turn.started, and later the event that ends the turn.
TurnEvent(s) ==
  /\ turnAt[s] # 0 /\ up[turnAt[s]] = "up"
  /\ \/ /\ turn[s] = "sent"
        /\ turn' = [turn EXCEPT ![s] = "running"]
        /\ maps' = [maps EXCEPT !.routes[s] = turnAt[s]]
     \/ /\ turn[s] = "running"
        /\ turn' = [turn EXCEPT ![s] = "none"]
        /\ maps' = [maps EXCEPT !.routes[s] = 0]
  /\ UNCHANGED <<keyOf, owns, up, recovering, open, openFor, turnAt, answered, ordered, clearing, crashes>>

\* The continuation of turn.start's response: before or after the events.
TurnAnswered(s) ==
  /\ s \notin answered
  /\ turnAt[s] # 0 /\ up[turnAt[s]] = "up"
  /\ turn[s] \in {"running", "none"}
  /\ answered' = answered \cup {s}
  /\ maps' = [maps EXCEPT !.routes[s] = turnAt[s]]
  /\ UNCHANGED <<keyOf, owns, up, recovering, open, openFor, turn, turnAt, ordered, clearing, crashes>>

\* approval.requested or trust.requested, and the response to it.
Ask(b) ==
  /\ up[b] = "up"
  /\ \/ /\ \E s \in Sessions : maps.routes[s] = b /\ turn[s] = "running"
        /\ maps' = [maps EXCEPT !.asked = @ \cup {b}]
     \/ /\ b \in maps.asked
        /\ maps' = [maps EXCEPT !.asked = @ \ {b}]
  /\ UNCHANGED <<keyOf, owns, up, recovering, open, openFor, turn, turnAt, answered, ordered, clearing, crashes>>

-----------------------------------------------------------------------------
(* Exits, recovery, expiry, shutdown *)

\* The requests of a process that is gone are rejected: a turn is over, an
\* opening that awaited the handshake fails, and one that awaited the session
\* removes its binding on top of what m already is.
Settled(b, m) ==
  /\ turn' = [s \in Sessions |-> IF turnAt[s] = b /\ turn[s] \in {"sent", "running"}
                                 THEN "none" ELSE turn[s]]
  /\ open' = [o \in Opens |-> IF openFor[o] = b /\ open[o] \in {"starting", "opening"}
                              THEN "over" ELSE open[o]]
  /\ maps' = IF \E o \in Opens : openFor[o] = b /\ open[o] = "opening"
             THEN Unmap(m, b) ELSE m

\* onExit, then what its rejections lead to.  A recovery that was under way
\* fails and schedules the next one.
Crash(b) ==
  /\ up[b] = "up"
  /\ crashes < MaxCrashes
  /\ crashes' = crashes + 1
  /\ up' = [up EXCEPT ![b] = "down"]
  /\ recovering' = recovering \ {b}
  /\ LET exited == Recover(ClearRoutes(maps, b), b)
     IN  Settled(b, IF b \in recovering THEN Recover(exited, b) ELSE exited)
  /\ UNCHANGED <<keyOf, owns, openFor, turnAt, answered, ordered, clearing>>

\* A recovery timer: initialize() of its binding, refused during a shutdown.
RecoveryTimer(k) ==
  /\ maps.timer[k] # 0
  /\ LET b == maps.timer[k]
         fired == [maps EXCEPT !.timer[k] = 0]
     IN  IF up[b] = "stopping"
         THEN maps' = Recover(fired, b) /\ UNCHANGED <<up, recovering>>
         ELSE /\ maps' = fired
              /\ up' = [up EXCEPT ![b] = "up"]
              /\ recovering' = recovering \cup {b}
  /\ UNCHANGED <<keyOf, owns, open, openFor, turn, turnAt, answered, ordered, clearing, crashes>>

\* initialize() has succeeded, or the CLI has refused the handshake.
Recovered(b) ==
  /\ b \in recovering
  /\ up[b] = "up"
  /\ recovering' = recovering \ {b}
  /\ \/ /\ maps' = IF maps.procs[keyOf[b]] = b THEN [maps EXCEPT !.tries[keyOf[b]] = 0] ELSE maps
        /\ UNCHANGED up
     \/ /\ maps' = Recover(maps, b)
        /\ up' = [up EXCEPT ![b] = "down"]
  /\ UNCHANGED <<keyOf, owns, open, openFor, turn, turnAt, answered, ordered, clearing, crashes>>

\* A shutdown is done: no onExit, but a recovery that was under way fails.
Stopped(b) ==
  /\ up[b] = "stopping"
  /\ up' = [up EXCEPT ![b] = "down"]
  /\ recovering' = recovering \ {b}
  /\ Settled(b, IF b \in recovering THEN Recover(maps, b) ELSE maps)
  /\ UNCHANGED <<keyOf, owns, openFor, turnAt, answered, ordered, clearing, crashes>>

\* Faulty variant of MayExpire: the timer does not look at the routes.
ExpiresBusy(b) == maps.procs[keyOf[b]] = b /\ maps.timer[keyOf[b]] = 0

MayExpire(b) ==
  maps.procs[keyOf[b]] = b /\ maps.timer[keyOf[b]] = 0 /\ b \notin Busy(maps)

\* expireIdle; a timer that finds its binding busy is armed again.
IdleTimer(b) ==
  /\ keyOf[b] # NoKey
  /\ up[b] # "stopping"
  /\ MayExpire(b)
  /\ maps' = Dismiss(maps, b)
  /\ up' = Stopping(b)
  /\ UNCHANGED <<keyOf, owns, recovering, open, openFor, turn, turnAt, answered, ordered, clearing, crashes>>

\* shutdownBinding of each of B, before the first of them has awaited anything.
Together(m, B) ==
  [m EXCEPT !.procs = [k \in Keys |-> IF @[k] \in B THEN 0 ELSE @[k]],
            !.bound = [s \in Sessions |-> IF \E b \in B \cap owns : SessionOf(b) = s THEN 0 ELSE @[s]],
            !.routes = [s \in Sessions |-> IF @[s] \in B THEN 0 ELSE @[s]],
            !.asked = @ \ B,
            !.timer = [k \in Keys |-> IF m.procs[k] \in B THEN 0 ELSE @[k]],
            !.tries = [k \in Keys |-> IF m.procs[k] \in B THEN 0 ELSE @[k]]]

\* The bindings of the processes map, those of a project or all.
Served(projects) ==
  {maps.procs[k] : k \in {j \in Keys : ProjectOf[j.session] \in projects}} \ {0}

EndBindings(B) ==
  /\ maps' = Together(maps, B)
  /\ up' = [b \in Bindings |-> IF b \in B /\ up[b] = "up" THEN "stopping" ELSE up[b]]
  /\ ordered' = ordered \cup B
  /\ UNCHANGED <<keyOf, owns, recovering, open, openFor, turn, turnAt, answered, crashes>>

\* shutdown, when a workspace is removed and when the window asks for it.
ShutdownProject(p) ==
  /\ EndBindings(Served({p}))
  /\ UNCHANGED clearing

\* shutdownAll, at a sign-out, when the login has expired and when the
\* application quits: every binding, and when these are down all of the maps,
\* whatever has been opened meanwhile.
ShutdownAll ==
  /\ EndBindings(Served(Projects))
  /\ clearing' = clearing \cup {Served(Projects)}

AllShutDown ==
  /\ \E B \in clearing : (\A b \in B : up[b] # "stopping") /\ clearing' = clearing \ {B}
  /\ maps' = NoMaps
  /\ UNCHANGED <<keyOf, owns, up, recovering, open, openFor, turn, turnAt, answered, ordered, crashes>>

-----------------------------------------------------------------------------
SessNext ==
  \/ \E o \in Opens :
       \/ Open(o) \/ Admit(o) \/ Evicted(o) \/ StartProcess(o)
       \/ Initialized(o) \/ Opened(o) \/ Aborted(o)
  \/ \E s \in Sessions :
       PrepareTurn(s) \/ SendTurn(s) \/ TurnEvent(s) \/ TurnAnswered(s)
  \/ \E b \in Bindings :
       Ask(b) \/ Crash(b) \/ Recovered(b) \/ Stopped(b) \/ IdleTimer(b)
  \/ \E k \in Keys : RecoveryTimer(k)
  \/ \E p \in Projects : ShutdownProject(p)
  \/ ShutdownAll \/ AllShutDown

SessSpec == SessInit /\ [][SessNext]_sessVars

-----------------------------------------------------------------------------
\* However openings, evictions, expiries and recoveries overlap, no more
\* sessions are bound than the machine is meant to run, although the count is
\* taken long before the session is bound.
SessionsBounded == BoundCount(maps) <= MaxSessions

\* The process a session is bound to, with a turn of it the application has been
\* told of, is shut down only when somebody asked for that: a sign-out, an
\* expired login, the removal of its workspace, the window or the end of the
\* application.  Neither a newcomer nor the idle timer nor a recovery that ends
\* takes it.  (A process the manager has forgotten may be taken: removeBinding
\* forgets by key and by session id what a later binding has put there, and
\* shutdownAll when it ends what was opened since it began.)
RunningTurnKept ==
  [][\A s \in Sessions :
       /\ turn[s] = "running" /\ maps.bound[s] = turnAt[s]
       /\ maps.procs[keyOf[turnAt[s]]] = turnAt[s]
       /\ up'[turnAt[s]] = "stopping"
       => turnAt[s] \in ordered']_sessVars

\* "Owns one CLI process per Desktop session" (agent-manager.ts:34).
OneProcessPerSession ==
  \A a, b \in Bindings :
    up[a] = "up" /\ up[b] = "up" /\ keyOf[a] = keyOf[b] => a = b
=============================================================================
