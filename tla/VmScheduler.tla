---------------------------- MODULE VmScheduler ----------------------------
(***************************************************************************)
(* VmScheduler (src/main/sandbox/vm-scheduler.ts): one call of run() per   *)
(* operation.  Operations of one environment key follow one another        *)
(* through a chain of promises; across keys at most the configured number  *)
(* of operations hold a slot.                                              *)
(*                                                                         *)
(* A call waits for the chain promise its predecessor left in the map:     *)
(* previous.then(() => current) resolves when every earlier call of the    *)
(* key has settled, a cancelled one in the middle included.  chain[op] is  *)
(* that set of calls.  Removing a resolved chain from the map is not       *)
(* modelled: waiting for it and finding none are the same.                 *)
(***************************************************************************)
EXTENDS Naturals, SequencesExt

CONSTANTS
  Ops,        \* calls of run(), each made at most once
  Keys,       \* environment keys
  KeyOf,      \* the key a call is made with
  SlotLimit   \* maxConcurrentOperations as the settings had it at the call

ASSUME SchedulerAssumption ==
  /\ IsFiniteSet(Ops)
  /\ KeyOf \in [Ops -> Keys]
  /\ SlotLimit \in [Ops -> Nat \ {0}]

VARIABLES
  chain,      \* the earlier calls of its key a call has to wait for
  waiters,    \* calls parked in waitForSlot, oldest first
  running,    \* the counter of slots taken
  pc,         \* where each call stands
  aborted     \* calls past their queue whose AbortSignal has fired

schedVars == <<chain, waiters, running, pc, aborted>>

(***************************************************************************)
(* idle     not called                                                     *)
(* queued   awaiting the previous call of its key                          *)
(* ready    about to test the slot counter                                 *)
(* waiting  parked in waitForSlot                                          *)
(* holding  inside the callback, holding a slot                            *)
(* settled  returned or thrown, releaseQueue() called                      *)
(***************************************************************************)
Places == {"idle", "queued", "ready", "waiting", "holding", "settled"}

Holding == {op \in Ops : pc[op] = "holding"}

SchedTypeOK ==
  /\ chain \in [Ops -> SUBSET Ops]
  /\ waiters \in Seq({op \in Ops : pc[op] = "waiting"})
  /\ running \in Nat
  /\ pc \in [Ops -> Places]
  /\ aborted \in SUBSET Ops

SchedInit ==
  /\ chain = [op \in Ops |-> {}]
  /\ waiters = <<>>
  /\ running = 0
  /\ pc = [op \in Ops |-> "idle"]
  /\ aborted = {}

\* Faulty variant of Call: a call that is being cancelled is no longer waited for.
CallPastCancelled(op) ==
  /\ pc[op] = "idle"
  /\ pc' = [pc EXCEPT ![op] = "queued"]
  /\ chain' = [chain EXCEPT ![op] =
       {o \in Ops \ aborted : KeyOf[o] = KeyOf[op] /\ pc[o] \notin {"idle", "settled"}}]
  /\ UNCHANGED <<waiters, running, aborted>>

Call(op) ==
  /\ pc[op] = "idle"
  /\ pc' = [pc EXCEPT ![op] = "queued"]
  /\ chain' = [chain EXCEPT ![op] =
       {o \in Ops : KeyOf[o] = KeyOf[op] /\ pc[o] \notin {"idle", "settled"}}]
  /\ UNCHANGED <<waiters, running, aborted>>

\* Faulty variant of PreviousResolved: one of the earlier calls is enough.
AnyPreviousResolved(op) ==
  /\ pc[op] = "queued"
  /\ chain[op] # {} => \E o \in chain[op] : pc[o] = "settled"
  /\ pc' = [pc EXCEPT ![op] = "ready"]
  /\ chain' = [chain EXCEPT ![op] = {}]
  /\ UNCHANGED <<waiters, running, aborted>>

\* waitForPrevious resolves and its abort listener is removed.
PreviousResolved(op) ==
  /\ pc[op] = "queued"
  /\ \A o \in chain[op] : pc[o] = "settled"
  /\ pc' = [pc EXCEPT ![op] = "ready"]
  /\ chain' = [chain EXCEPT ![op] = {}]
  /\ UNCHANGED <<waiters, running, aborted>>

\* Faulty variant of TakeSlot: one slot too many.
TakeSlotPastLimit(op) ==
  /\ pc[op] = "ready"
  /\ running <= SlotLimit[op]
  /\ running' = running + 1
  /\ pc' = [pc EXCEPT ![op] = "holding"]
  /\ UNCHANGED <<chain, waiters, aborted>>

TakeSlot(op) ==
  /\ pc[op] = "ready"
  /\ running < SlotLimit[op]
  /\ running' = running + 1
  /\ pc' = [pc EXCEPT ![op] = "holding"]
  /\ UNCHANGED <<chain, waiters, aborted>>

\* No slot: park, unless the signal fired while no listener was attached.
AwaitSlot(op) ==
  /\ pc[op] = "ready"
  /\ running >= SlotLimit[op]
  /\ \/ /\ op \in aborted
        /\ pc' = [pc EXCEPT ![op] = "settled"]
        /\ aborted' = aborted \ {op}
        /\ UNCHANGED waiters
     \/ /\ op \notin aborted
        /\ pc' = [pc EXCEPT ![op] = "waiting"]
        /\ waiters' = Append(waiters, op)
        /\ UNCHANGED aborted
  /\ UNCHANGED <<chain, running>>

\* Faulty variant of Abort: a cancelled call stays among the waiters.
AbortKeepsWaiter(op) ==
  /\ \/ /\ pc[op] \in {"queued", "waiting"}
        /\ pc' = [pc EXCEPT ![op] = "settled"]
        /\ chain' = [chain EXCEPT ![op] = {}]
        /\ UNCHANGED aborted
     \/ /\ pc[op] \in {"ready", "holding"}
        /\ op \notin aborted
        /\ aborted' = aborted \cup {op}
        /\ UNCHANGED <<chain, pc>>
  /\ UNCHANGED <<waiters, running>>

\* The caller's signal fires.  A call with a listener attached rejects; the
\* others only find the signal aborted later.
Abort(op) ==
  /\ \/ /\ pc[op] = "queued"
        /\ pc' = [pc EXCEPT ![op] = "settled"]
        /\ chain' = [chain EXCEPT ![op] = {}]
        /\ UNCHANGED <<waiters, aborted>>
     \/ /\ pc[op] = "waiting"
        /\ pc' = [pc EXCEPT ![op] = "settled"]
        /\ \E i \in DOMAIN waiters :
             waiters[i] = op /\ waiters' = RemoveAt(waiters, i)
        /\ UNCHANGED <<chain, aborted>>
     \/ /\ pc[op] \in {"ready", "holding"}
        /\ op \notin aborted
        /\ aborted' = aborted \cup {op}
        /\ UNCHANGED <<chain, pc, waiters>>
  /\ UNCHANGED running

\* Faulty variant of Finish: the slot is given back and nobody woken.
FinishSilently(op) ==
  /\ pc[op] = "holding"
  /\ running' = IF running > 0 THEN running - 1 ELSE 0
  /\ pc' = [pc EXCEPT ![op] = "settled"]
  /\ aborted' = aborted \ {op}
  /\ UNCHANGED <<chain, waiters>>

\* The callback settles: release() wakes the oldest waiter, and the chain is
\* released.
Finish(op) ==
  /\ pc[op] = "holding"
  /\ running' = IF running > 0 THEN running - 1 ELSE 0
  /\ \/ /\ waiters = <<>>
        /\ pc' = [pc EXCEPT ![op] = "settled"]
        /\ UNCHANGED waiters
     \/ /\ waiters # <<>>
        /\ pc' = [pc EXCEPT ![op] = "settled", ![Head(waiters)] = "ready"]
        /\ waiters' = Tail(waiters)
  /\ aborted' = aborted \ {op}
  /\ UNCHANGED chain

SchedNext ==
  \E op \in Ops :
    \/ Call(op)
    \/ PreviousResolved(op)
    \/ TakeSlot(op)
    \/ AwaitSlot(op)
    \/ Abort(op)
    \/ Finish(op)

SchedSpec == SchedInit /\ [][SchedNext]_schedVars

\* Promise continuations run, and a callback settles.
SchedFairness ==
  \A op \in Ops :
    WF_schedVars(PreviousResolved(op) \/ TakeSlot(op) \/ AwaitSlot(op) \/ Finish(op))

FairSchedSpec == SchedSpec /\ SchedFairness

-----------------------------------------------------------------------------
\* "Operations for one environment are serialized because the guest workspace
\* is shared" (vm-scheduler.ts:3): two calls of one key are never inside their
\* callbacks together, whatever was cancelled between them.
OneOperationPerEnvironment ==
  \A a, b \in Holding : KeyOf[a] = KeyOf[b] => a = b

\* The slot counter counts the calls inside their callbacks, and never exceeds
\* the most permissive limit any call was made with.
SlotsBounded ==
  /\ running = Cardinality(Holding)
  /\ running > 0 => \E op \in Ops : running <= SlotLimit[op]

\* The scheduler implements the gate: its queues and wake-ups never let a call
\* in that the gate would not, and never let a settled one in again.
Gate == INSTANCE WorkspaceGate WITH
  inside <- Holding,
  over <- {op \in Ops : pc[op] = "settled"}

GateRefined == Gate!GateSpec

\* No wake-up is lost: however the limits of the calls differ and whichever of
\* them are cancelled, no call stays behind.
NoCallLeftBehind == []<>(\A op \in Ops : pc[op] \in {"idle", "settled"})
=============================================================================
