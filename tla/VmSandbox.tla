----------------------------- MODULE VmSandbox -----------------------------
(***************************************************************************)
(* VmSandboxExecutionProvider (src/main/sandbox): every sandboxed host     *)
(* operation is a call of the scheduler whose callback is one execute() of *)
(* VmEnvironmentManager.  The manager keeps warm guests, one per key,      *)
(* bounded by maxConcurrentEnvironments, and evicts, expires, discards or  *)
(* closes them.                                                            *)
(*                                                                         *)
(* A guest is named by the operation that started it: execute() starts at  *)
(* most one.  lastUsedAt is abstracted: which of the idle guests is the    *)
(* least recently used one is left open.                                   *)
(***************************************************************************)
EXTENDS VmScheduler

CONSTANTS
  EnvLimit,   \* maxConcurrentEnvironments as the settings had it at the call
  Removed,    \* keys under the root that a removed workspace closes
  NoOp        \* no operation: an absent guest

ASSUME SandboxAssumption ==
  /\ EnvLimit \in [Ops -> Nat \ {0}]
  /\ Removed \subseteq Keys
  /\ NoOp \notin Ops

VARIABLES
  stage,      \* where each operation stands inside manager.execute()
  entry,      \* the guest an operation works with, or the idle one it evicts
  envs,       \* the map of warm guests by key
  starting,   \* the counter of reserved starts
  guest,      \* the life of each guest process
  active,     \* users of a guest entry
  timer,      \* guests whose idle timer is armed
  closer      \* the calls of closeAll and closeWorkspace: phase, the guests
              \* left to close and the one being closed

envVars == <<stage, entry, envs, starting, guest, active, timer, closer>>
vars == <<schedVars, envVars>>

(***************************************************************************)
(* enter     acquire() not begun        executing  in environment.execute  *)
(* capacity  parked in waitForCapacity  discarding closing a failed guest  *)
(* retry     woken, to test capacity    left       execute() has settled   *)
(* evicting  closing an idle guest                                         *)
(* starting  awaiting runtime.start                                        *)
(***************************************************************************)
Stages == {"enter", "capacity", "retry", "evicting", "starting", "executing",
           "discarding", "left"}

\* expiring: closed by its idle timer, which wakes capacity waiters afterwards.
GuestStates == {"none", "live", "closing", "expiring", "closed"}

Closers == {"all", "workspace"}
CloserStates == [phase : {"idle", "closing", "done"},
                 todo : SUBSET Ops, current : Ops \cup {NoOp}]

SandboxTypeOK ==
  /\ SchedTypeOK
  /\ stage \in [Ops -> Stages]
  /\ entry \in [Ops -> Ops \cup {NoOp}]
  /\ envs \in [Keys -> Ops \cup {NoOp}]
  /\ starting \in Nat
  /\ guest \in [Ops -> GuestStates]
  /\ active \in [Ops -> Nat]
  /\ timer \in SUBSET Ops
  /\ closer \in [Closers -> CloserStates]

SandboxInit ==
  /\ SchedInit
  /\ stage = [op \in Ops |-> "enter"]
  /\ entry = [op \in Ops |-> NoOp]
  /\ envs = [k \in Keys |-> NoOp]
  /\ starting = 0
  /\ guest = [op \in Ops |-> "none"]
  /\ active = [op \in Ops |-> 0]
  /\ timer = {}
  /\ closer = [c \in Closers |->
                 [phase |-> "idle", todo |-> {}, current |-> NoOp]]

Warm == {k \in Keys : envs[k] # NoOp}
Idle == {envs[k] : k \in {x \in Warm : active[envs[x]] = 0}}
Starting == {op \in Ops : stage[op] = "starting"}
\* Faulty variant of HasCapacity: reserved starts are not counted.
HasCapacityNow(op) == Cardinality(Warm) < EnvLimit[op]

HasCapacity(op) == Cardinality(Warm) + starting < EnvLimit[op]

\* releaseCapacityWaiters() after the stages have become st.
Wake(st) == [op \in Ops |-> IF st[op] = "capacity" THEN "retry" ELSE st[op]]

Move(op, s) == [stage EXCEPT ![op] = s]

-----------------------------------------------------------------------------
(* acquire() *)

\* Faulty variant of ReserveOrWait: the guest evicted may be in use.
ReserveOrEvict(op) ==
  /\ starting' = starting + 1
  /\ \/ /\ HasCapacity(op)
        /\ stage' = Move(op, "starting")
        /\ UNCHANGED <<entry, envs, guest, timer>>
     \/ /\ ~HasCapacity(op)
        /\ \E k \in Warm :
             /\ envs' = [envs EXCEPT ![k] = NoOp]
             /\ guest' = [guest EXCEPT ![envs[k]] = "closing"]
             /\ timer' = timer \ {envs[k]}
             /\ entry' = [entry EXCEPT ![op] = envs[k]]
        /\ stage' = Move(op, "evicting")

\* The test of the capacity loop.  With room: start at once.  Without: evict
\* an idle guest, its place reserved for the start, or park.  A signal that has
\* already fired rejects instead of parking.
ReserveOrWait(op) ==
  \/ /\ HasCapacity(op)
     /\ starting' = starting + 1
     /\ stage' = Move(op, "starting")
     /\ UNCHANGED <<entry, envs, guest, timer>>
  \/ /\ ~HasCapacity(op)
     /\ \E victim \in Idle :
          /\ envs' = [envs EXCEPT ![KeyOf[victim]] = NoOp]
          /\ guest' = [guest EXCEPT ![victim] = "closing"]
          /\ timer' = timer \ {victim}
          /\ entry' = [entry EXCEPT ![op] = victim]
     /\ starting' = starting + 1
     /\ stage' = Move(op, "evicting")
  \/ /\ ~HasCapacity(op)
     /\ Idle = {}
     /\ stage' = Move(op, IF op \in aborted THEN "left" ELSE "capacity")
     /\ UNCHANGED <<entry, envs, starting, guest, timer>>

Acquire(op) ==
  /\ op \in Holding
  /\ stage[op] = "enter"
  /\ \/ /\ op \in aborted
        /\ stage' = Move(op, "left")
        /\ UNCHANGED <<entry, envs, starting, guest, active, timer>>
     \/ /\ op \notin aborted
        /\ KeyOf[op] \in Warm
        /\ LET g == envs[KeyOf[op]] IN
             /\ active' = [active EXCEPT ![g] = @ + 1]
             /\ timer' = timer \ {g}
             /\ entry' = [entry EXCEPT ![op] = g]
        /\ stage' = Move(op, "executing")
        /\ UNCHANGED <<envs, starting, guest>>
     \/ /\ op \notin aborted
        /\ KeyOf[op] \notin Warm
        /\ ReserveOrWait(op)
        /\ UNCHANGED active
  /\ UNCHANGED <<schedVars, closer>>

Retry(op) ==
  /\ stage[op] = "retry"
  /\ ReserveOrWait(op)
  /\ UNCHANGED <<schedVars, active, closer>>

\* The evicted guest has closed: runtime.start is called.
Evicted(op) ==
  /\ stage[op] = "evicting"
  /\ guest[entry[op]] = "closed"
  /\ entry' = [entry EXCEPT ![op] = NoOp]
  /\ stage' = Move(op, "starting")
  /\ UNCHANGED <<schedVars, envs, starting, guest, active, timer, closer>>

Started(op) ==
  /\ stage[op] = "starting"
  /\ starting' = IF starting > 0 THEN starting - 1 ELSE 0
  /\ guest' = [guest EXCEPT ![op] = "live"]
  /\ envs' = [envs EXCEPT ![KeyOf[op]] = op]
  /\ active' = [active EXCEPT ![op] = 1]
  /\ entry' = [entry EXCEPT ![op] = op]
  /\ stage' = Wake(Move(op, "executing"))
  /\ UNCHANGED <<schedVars, timer, closer>>

\* Faulty variant of StartFailed: who waits for capacity is not woken.
StartFailedSilently(op) ==
  /\ stage[op] = "starting"
  /\ starting' = IF starting > 0 THEN starting - 1 ELSE 0
  /\ stage' = Move(op, "left")
  /\ UNCHANGED <<schedVars, entry, envs, guest, active, timer, closer>>

StartFailed(op) ==
  /\ stage[op] = "starting"
  /\ starting' = IF starting > 0 THEN starting - 1 ELSE 0
  /\ stage' = Wake(Move(op, "left"))
  /\ UNCHANGED <<schedVars, entry, envs, guest, active, timer, closer>>

-----------------------------------------------------------------------------
(* execute(), release() and discard() *)

\* release(entry), reached by every path that acquired: the map is asked for
\* the key, not for the entry.  st is the stage function before the waiters of
\* a now idle guest are woken.
Release(op, st) ==
  LET g == entry[op]
      left == IF active[g] > 0 THEN active[g] - 1 ELSE 0
  IN  IF envs[KeyOf[op]] = NoOp
      THEN stage' = st /\ UNCHANGED <<active, timer>>
      ELSE /\ active' = [active EXCEPT ![g] = left]
           /\ timer' = IF left = 0 THEN timer \cup {g} ELSE timer
           /\ stage' = IF left = 0 THEN Wake(st) ELSE st

\* environment.execute settles without a guest process failure.
Executed(op) ==
  /\ stage[op] = "executing"
  /\ guest[entry[op]] = "live"
  /\ Release(op, Move(op, "left"))
  /\ UNCHANGED <<schedVars, entry, envs, starting, guest, closer>>

\* The guest died, timed out, was closed or was cancelled: discard it unless
\* the map no longer holds it.
GuestFailed(op) ==
  /\ stage[op] = "executing"
  /\ LET g == entry[op] IN
       \/ /\ envs[KeyOf[op]] = g
          /\ envs' = [envs EXCEPT ![KeyOf[op]] = NoOp]
          /\ guest' = [guest EXCEPT ![g] = "closing"]
          /\ timer' = timer \ {g}
          /\ stage' = Move(op, "discarding")
          /\ UNCHANGED active
       \/ /\ envs[KeyOf[op]] # g
          /\ Release(op, Move(op, "left"))
          /\ UNCHANGED <<envs, guest>>
  /\ UNCHANGED <<schedVars, entry, starting, closer>>

Discarded(op) ==
  /\ stage[op] = "discarding"
  /\ guest[entry[op]] = "closed"
  /\ Release(op, Wake(Move(op, "left")))
  /\ UNCHANGED <<schedVars, entry, envs, starting, guest, closer>>

\* waitForCapacity rejects; elsewhere the signal is only remembered (a running
\* guest answers it by failing, see GuestFailed and StartFailed).
AbortOp(op) ==
  /\ Abort(op)
  /\ stage' = IF stage[op] = "capacity" THEN Move(op, "left") ELSE stage
  /\ UNCHANGED <<entry, envs, starting, guest, active, timer, closer>>

\* The callback of the scheduler is manager.execute().
Return(op) ==
  /\ stage[op] = "left"
  /\ Finish(op)
  /\ entry' = [entry EXCEPT ![op] = NoOp]
  /\ UNCHANGED <<stage, envs, starting, guest, active, timer, closer>>

-----------------------------------------------------------------------------
(* Guests closing, idle expiry, closeAll and closeWorkspace *)

\* environment.close() settles; its failure is swallowed.
GuestClosed(g) ==
  /\ guest[g] \in {"closing", "expiring"}
  /\ guest' = [guest EXCEPT ![g] = "closed"]
  /\ stage' = IF guest[g] = "expiring" THEN Wake(stage) ELSE stage
  /\ UNCHANGED <<schedVars, entry, envs, starting, active, timer, closer>>

Expire(g) ==
  /\ g \in timer
  /\ timer' = timer \ {g}
  /\ \/ /\ active[g] = 0
        /\ envs[KeyOf[g]] = g
        /\ envs' = [envs EXCEPT ![KeyOf[g]] = NoOp]
        /\ guest' = [guest EXCEPT ![g] = "expiring"]
     \/ /\ active[g] # 0 \/ envs[KeyOf[g]] # g
        /\ UNCHANGED <<envs, guest>>
  /\ UNCHANGED <<schedVars, stage, entry, starting, active, closer>>

\* Both calls first wait until no start is pending: the guard.
CloseAll ==
  /\ closer["all"].phase = "idle"
  /\ Starting = {}
  /\ LET doomed == {envs[k] : k \in Warm} IN
       /\ closer' = [closer EXCEPT !["all"].phase = "closing",
                                   !["all"].todo = doomed]
       /\ guest' = [g \in Ops |-> IF g \in doomed THEN "closing" ELSE guest[g]]
       /\ timer' = timer \ doomed
  /\ envs' = [k \in Keys |-> NoOp]
  /\ UNCHANGED <<schedVars, stage, entry, starting, active>>

AllClosed ==
  /\ closer["all"].phase = "closing"
  /\ \A g \in closer["all"].todo : guest[g] = "closed"
  /\ closer' = [closer EXCEPT !["all"].phase = "done", !["all"].todo = {}]
  /\ stage' = Wake(stage)
  /\ UNCHANGED <<schedVars, entry, envs, starting, guest, active, timer>>

\* closeWorkspace takes the guests under the root, then closes them one after
\* the other, skipping those that left the map meanwhile.
CloseWorkspace ==
  /\ closer["workspace"].phase = "idle"
  /\ Starting = {}
  /\ closer' = [closer EXCEPT
                  !["workspace"].phase = "closing",
                  !["workspace"].todo = {envs[k] : k \in Warm \cap Removed}]
  /\ UNCHANGED <<schedVars, stage, entry, envs, starting, guest, active, timer>>

CurrentClosed == closer["workspace"].current # NoOp
                   => guest[closer["workspace"].current] = "closed"

CloseNext(g) ==
  /\ closer["workspace"].phase = "closing"
  /\ CurrentClosed
  /\ g \in closer["workspace"].todo
  /\ \/ /\ envs[KeyOf[g]] = g
        /\ envs' = [envs EXCEPT ![KeyOf[g]] = NoOp]
        /\ guest' = [guest EXCEPT ![g] = "closing"]
        /\ timer' = timer \ {g}
        /\ closer' = [closer EXCEPT !["workspace"].todo = @ \ {g},
                                    !["workspace"].current = g]
     \/ /\ envs[KeyOf[g]] # g
        /\ closer' = [closer EXCEPT !["workspace"].todo = @ \ {g}]
        /\ UNCHANGED <<envs, guest, timer>>
  /\ UNCHANGED <<schedVars, stage, entry, starting, active>>

WorkspaceClosed ==
  /\ closer["workspace"].phase = "closing"
  /\ CurrentClosed
  /\ closer["workspace"].todo = {}
  /\ closer' = [closer EXCEPT !["workspace"].phase = "done",
                              !["workspace"].current = NoOp]
  /\ stage' = Wake(stage)
  /\ UNCHANGED <<schedVars, entry, envs, starting, guest, active, timer>>

-----------------------------------------------------------------------------
\* What the event loop and the guest runtime owe an operation once called.
Progress(op) ==
  \/ /\ PreviousResolved(op) \/ TakeSlot(op) \/ AwaitSlot(op)
     /\ UNCHANGED envVars
  \/ Acquire(op)
  \/ Retry(op)
  \/ Evicted(op)
  \/ Started(op)
  \/ StartFailed(op)
  \/ Executed(op)
  \/ GuestFailed(op)
  \/ Discarded(op)
  \/ Return(op)

CloserProgress ==
  \/ AllClosed
  \/ \E g \in Ops : CloseNext(g)
  \/ WorkspaceClosed

SandboxNext ==
  \/ \E op \in Ops :
       \/ Call(op) /\ UNCHANGED envVars
       \/ Progress(op)
       \/ AbortOp(op)
       \/ GuestClosed(op)
       \/ Expire(op)
  \/ CloseAll
  \/ CloseWorkspace
  \/ CloserProgress

SandboxSpec == SandboxInit /\ [][SandboxNext]_vars

\* Promise continuations run, a start, an execute and a close settle (each is
\* bounded by a timeout of the guest bridge or the runtime adapter).
Fairness ==
  /\ \A op \in Ops : WF_vars(Progress(op)) /\ WF_vars(GuestClosed(op))
  /\ WF_vars(CloserProgress)

FairSandboxSpec == SandboxSpec /\ Fairness

-----------------------------------------------------------------------------
\* A guest is never taken away under the operation using it: only closeAll and
\* closeWorkspace may do that.  The manager has no lock per key of its own
\* (acquire awaits between its look-up and its insertion, release() asks the
\* map for the key): it is the order the scheduler imposes that makes it so.
GuestKeptWhileInUse ==
  \A op \in Ops :
    /\ stage[op] = "executing"
    /\ closer["all"].phase = "idle"
    /\ KeyOf[op] \in Removed => closer["workspace"].phase = "idle"
    => /\ guest[entry[op]] = "live"
       /\ envs[KeyOf[op]] = entry[op]
       /\ active[entry[op]] = 1

\* No guest process is lost: one that runs is in the map, where the idle timer,
\* eviction and closeAll find it.
NoOrphanGuest == \A g \in Ops : guest[g] = "live" => envs[KeyOf[g]] = g

\* "waits for capacity instead of starting more environments than configured"
\* (vm-sandbox-execution-provider.test.ts:42): warm guests and reserved starts
\* together stay within the most permissive limit any call so far was made with.
EnvironmentsBounded ==
  LET taken == Cardinality(Warm) + starting
  IN  taken > 0 => \E op \in Ops : pc[op] # "idle" /\ taken <= EnvLimit[op]

\* Every called operation settles (calls are made once, so it is enough that no
\* call stays in flight): no wake-up is lost between the two wait queues, and
\* slots and environments are never waited for in a circle.
EveryCallSettles == []<>(\A op \in Ops : pc[op] \in {"idle", "settled"})
=============================================================================
