--------------------------- MODULE VmSandboxProofs --------------------------
(***************************************************************************)
(* Proofs about VmScheduler and VmSandbox, which extends it, for every set *)
(* of calls, keys, limits and removed workspaces.                          *)
(*                                                                         *)
(* Mutual exclusion is not inductive: nothing in it stops two queued calls *)
(* of one key from both finding their chains settled.  KeyOrder adds what  *)
(* the promise chain provides: of two calls of one key that have not       *)
(* settled, at most one is past its queue, and a queued one waits for it;  *)
(* of two queued ones, one waits for the other.                            *)
(*                                                                         *)
(* That a guest is kept while it is used is not inductive: the manager     *)
(* looks its map up, awaits, and writes it.  SandboxInv adds what the      *)
(* scheduler's order gives to it: whoever is past the look-up and has no   *)
(* guest yet finds its key vacant until it inserts (KeyVacant), a guest in *)
(* the map that no call is using has no user counted (IdleUnused), and a   *)
(* call that executes is counted once on the guest the map holds, unless a *)
(* closer took it (InUse).                                                 *)
(***************************************************************************)
EXTENDS VmSandbox, FiniteSetTheorems, SequenceTheorems, TLAPS

-----------------------------------------------------------------------------
(* The scheduler *)

\* Past the queue of its key and not settled.
Through(op) == pc[op] \in {"ready", "waiting", "holding"}

SameKey(a, b) == a # b /\ KeyOf[a] = KeyOf[b]

TypeInv ==
  /\ chain \in [Ops -> SUBSET Ops]
  /\ waiters \in Seq(Ops)
  /\ running \in Nat
  /\ pc \in [Ops -> Places]
  /\ aborted \in SUBSET Ops

KeyOrder ==
  \A a, b \in Ops : SameKey(a, b) =>
    /\ ~(Through(a) /\ Through(b))
    /\ Through(a) /\ pc[b] = "queued" => a \in chain[b]
    /\ pc[a] = "queued" /\ pc[b] = "queued" => a \in chain[b] \/ b \in chain[a]

\* waiters lists parked calls, each once.
WaitersParked ==
  /\ \A i \in 1..Len(waiters) : pc[waiters[i]] = "waiting"
  /\ \A i, j \in 1..Len(waiters) : waiters[i] = waiters[j] => i = j

IInv == TypeInv /\ KeyOrder /\ WaitersParked /\ SlotsBounded

-----------------------------------------------------------------------------
\* Holding is finite, so its cardinality is a number.
LEMMA HoldingFinite == IsFiniteSet(Holding) /\ Cardinality(Holding) \in Nat
BY SchedulerAssumption, FS_Subset, FS_CardinalityType DEF Holding

\* The initial state satisfies the inductive invariant.
LEMMA InitIInv == SchedInit => IInv
<1> SUFFICES ASSUME SchedInit PROVE IInv
  OBVIOUS
<1>1. TypeInv
  BY DEF SchedInit, TypeInv, Places
<1>2. KeyOrder /\ WaitersParked
  BY DEF SchedInit, KeyOrder, WaitersParked, Through
<1>3. Holding = {}
  BY DEF SchedInit, Holding
<1>4. SlotsBounded
  BY <1>3, FS_EmptySet DEF SchedInit, SlotsBounded
<1> QED
  BY <1>1, <1>2, <1>4 DEF IInv

\* Removing the i-th element of an injective sequence leaves an injective one
\* without that element.
LEMMA RemoveAtFacts ==
  ASSUME NEW q \in Seq(Ops), NEW i \in 1..Len(q)
  PROVE  /\ RemoveAt(q, i) \in Seq(Ops)
         /\ Len(RemoveAt(q, i)) = Len(q) - 1
         /\ \A j \in 1..(Len(q) - 1) :
              RemoveAt(q, i)[j] = IF j < i THEN q[j] ELSE q[j + 1]
<1> DEFINE l == SubSeq(q, 1, i - 1)
           r == SubSeq(q, i + 1, Len(q))
<1>1. l \in Seq(Ops) /\ Len(l) = i - 1 /\ \A j \in 1..(i - 1) : l[j] = q[j]
  BY SubSeqProperties
<1>2. r \in Seq(Ops) /\ Len(r) = Len(q) - i
        /\ \A j \in 1..(Len(q) - i) : r[j] = q[i + j]
  BY SubSeqProperties
<1>3. RemoveAt(q, i) = l \o r
  BY DEF RemoveAt
<1> HIDE DEF l, r
<1>4. l \o r \in Seq(Ops) /\ Len(l \o r) = Len(q) - 1
  BY <1>1, <1>2, ConcatProperties
<1>5. ASSUME NEW j \in 1..(Len(q) - 1)
      PROVE  (l \o r)[j] = IF j < i THEN q[j] ELSE q[j + 1]
  <2>1. CASE j < i
    BY <2>1, <1>1, <1>2, ConcatProperties
  <2>2. CASE j >= i
    <3>1. (l \o r)[j] = r[j - (i - 1)]
      BY <2>2, <1>1, <1>2, ConcatProperties
    <3>2. r[j - (i - 1)] = q[i + (j - (i - 1))]
      BY <2>2, <1>2
    <3> QED
      BY <2>2, <3>1, <3>2
  <2>3. j < i \/ j >= i
    OBVIOUS
  <2> QED
    BY <2>1, <2>2, <2>3
<1> QED
  BY <1>3, <1>4, <1>5

-----------------------------------------------------------------------------
(* One lemma per action: IInv is preserved. *)

\* A call queues behind every unsettled call of its key.
LEMMA CallStep ==
  ASSUME IInv, NEW op \in Ops, Call(op)
  PROVE  IInv'
<1> USE DEF IInv, Call
<1>1. TypeInv'
  BY DEF TypeInv, Places
<1>2. KeyOrder'
  BY DEF TypeInv, KeyOrder, SameKey, Through, Places
<1>3. WaitersParked'
  BY DEF TypeInv, WaitersParked
<1>4. Holding' = Holding
  BY DEF TypeInv, Holding
<1>5. SlotsBounded'
  BY <1>4 DEF SlotsBounded
<1> QED
  BY <1>1, <1>2, <1>3, <1>5

\* A call leaves its queue only when nothing of its key is past it.
LEMMA PreviousResolvedStep ==
  ASSUME IInv, NEW op \in Ops, PreviousResolved(op)
  PROVE  IInv'
<1> USE DEF IInv, PreviousResolved
<1>1. TypeInv'
  BY DEF TypeInv, Places
<1>2. KeyOrder'
  BY DEF TypeInv, KeyOrder, SameKey, Through
<1>3. WaitersParked'
  BY DEF TypeInv, WaitersParked
<1>4. Holding' = Holding
  BY DEF TypeInv, Holding
<1>5. SlotsBounded'
  BY <1>4 DEF SlotsBounded
<1> QED
  BY <1>1, <1>2, <1>3, <1>5

\* Taking a slot keeps the counter exact and within the call's own limit.
LEMMA TakeSlotStep ==
  ASSUME IInv, NEW op \in Ops, TakeSlot(op)
  PROVE  IInv'
<1> USE DEF IInv, TakeSlot
<1>1. TypeInv'
  BY DEF TypeInv, Places
<1>2. KeyOrder'
  BY DEF TypeInv, KeyOrder, SameKey, Through
<1>3. WaitersParked'
  BY DEF TypeInv, WaitersParked
<1>4. Holding' = Holding \cup {op} /\ op \notin Holding
  BY DEF TypeInv, Holding
<1>5. Cardinality(Holding') = Cardinality(Holding) + 1
  BY <1>4, HoldingFinite, FS_AddElement
<1>6. running' <= SlotLimit[op]
  <2>1. SlotLimit[op] \in Nat /\ running \in Nat
    BY SchedulerAssumption DEF TypeInv
  <2> QED
    BY <2>1
<1>7. SlotsBounded'
  BY <1>5, <1>6 DEF SlotsBounded
<1> QED
  BY <1>1, <1>2, <1>3, <1>7

\* Parking appends the call to the wait queue, where it was not.
LEMMA AwaitSlotStep ==
  ASSUME IInv, NEW op \in Ops, AwaitSlot(op)
  PROVE  IInv'
<1> USE DEF IInv, AwaitSlot
<1>1. TypeInv'
  BY DEF TypeInv, Places
<1>2. KeyOrder'
  BY DEF TypeInv, KeyOrder, SameKey, Through
<1>3. WaitersParked'
  <2>1. CASE UNCHANGED waiters
    BY <2>1 DEF TypeInv, WaitersParked
  <2>2. CASE waiters' = Append(waiters, op) /\ pc' = [pc EXCEPT ![op] = "waiting"]
    <3>1. \A i \in 1..Len(waiters) : waiters[i] # op
      BY DEF TypeInv, WaitersParked
    <3>2. /\ Len(waiters') = Len(waiters) + 1
          /\ \A i \in 1..Len(waiters) : waiters'[i] = waiters[i]
          /\ waiters'[Len(waiters) + 1] = op
      BY <2>2, AppendProperties DEF TypeInv
    <3>3. \A i \in 1..Len(waiters') : pc'[waiters'[i]] = "waiting"
      BY <2>2, <3>1, <3>2 DEF TypeInv, WaitersParked
    <3>4. \A i, j \in 1..Len(waiters') : waiters'[i] = waiters'[j] => i = j
      BY <3>1, <3>2 DEF TypeInv, WaitersParked
    <3> QED
      BY <3>3, <3>4 DEF WaitersParked
  <2> QED
    BY <2>1, <2>2
<1>4. Holding' = Holding
  BY DEF TypeInv, Holding
<1>5. SlotsBounded'
  BY <1>4 DEF SlotsBounded
<1> QED
  BY <1>1, <1>2, <1>3, <1>5

\* A cancelled call leaves the wait queue and no hole in the key order.
LEMMA AbortStep ==
  ASSUME IInv, NEW op \in Ops, Abort(op)
  PROVE  IInv'
<1> USE DEF IInv
<1>1. CASE pc[op] = "waiting"
  <2>1. PICK i \in 1..Len(waiters) :
          waiters[i] = op /\ waiters' = RemoveAt(waiters, i)
    BY <1>1 DEF Abort, TypeInv
  <2>2. pc' = [pc EXCEPT ![op] = "settled"] /\ UNCHANGED <<chain, running, aborted>>
    BY <1>1 DEF Abort
  <2>3. /\ waiters' \in Seq(Ops)
        /\ Len(waiters') = Len(waiters) - 1
        /\ \A j \in 1..(Len(waiters) - 1) :
             waiters'[j] = IF j < i THEN waiters[j] ELSE waiters[j + 1]
    BY <2>1, RemoveAtFacts DEF TypeInv
  <2>4. TypeInv'
    BY <2>2, <2>3 DEF TypeInv, Places
  <2>5. KeyOrder'
    BY <2>2 DEF TypeInv, KeyOrder, SameKey, Through
  <2>6. ASSUME NEW j \in 1..Len(waiters')
        PROVE  waiters'[j] # op /\ pc'[waiters'[j]] = "waiting"
    <3>0. Len(waiters) \in Nat
      BY DEF TypeInv
    <3>1. PICK m \in 1..Len(waiters) : m # i /\ waiters'[j] = waiters[m]
      <4>1. CASE j < i
        BY <2>3, <3>0, <4>1
      <4>2. CASE ~(j < i)
        <5>1. waiters'[j] = waiters[j + 1] /\ j + 1 \in 1..Len(waiters) /\ j + 1 # i
          BY <2>3, <3>0, <4>2
        <5> QED
          BY <5>1
      <4> QED
        BY <4>1, <4>2
    <3>2. waiters[m] # op /\ pc[waiters[m]] = "waiting" /\ waiters[m] \in Ops
      BY <2>1, <3>1 DEF TypeInv, WaitersParked
    <3> QED
      BY <2>2, <3>1, <3>2 DEF TypeInv
  <2>7. \A j, m \in 1..Len(waiters') : waiters'[j] = waiters'[m] => j = m
    BY <2>3 DEF TypeInv, WaitersParked
  <2>8. WaitersParked'
    BY <2>6, <2>7 DEF WaitersParked
  <2>9. Holding' = Holding
    BY <1>1, <2>2 DEF TypeInv, Holding
  <2>10. SlotsBounded'
    BY <2>2, <2>9 DEF SlotsBounded
  <2> QED
    BY <2>4, <2>5, <2>8, <2>10
<1>2. CASE pc[op] # "waiting"
  <2>1. UNCHANGED <<waiters, running>>
    BY <1>2 DEF Abort
  <2>2. TypeInv'
    BY <1>2 DEF Abort, TypeInv, Places
  <2>3. KeyOrder'
    BY <1>2 DEF Abort, TypeInv, KeyOrder, SameKey, Through
  <2>4. WaitersParked'
    BY <1>2 DEF Abort, TypeInv, WaitersParked
  <2>5. Holding' = Holding
    BY <1>2 DEF Abort, TypeInv, Holding
  <2>6. SlotsBounded'
    BY <2>1, <2>5 DEF SlotsBounded
  <2> QED
    BY <2>2, <2>3, <2>4, <2>6
<1> QED
  BY <1>1, <1>2

\* What a finishing call does to the set of holders and to the waiters.
LEMMA FinishEffect ==
  ASSUME IInv, NEW op \in Ops, Finish(op)
  PROVE  /\ pc' \in [Ops -> Places]
         /\ pc'[op] = "settled"
         /\ \A o \in Ops \ {op} :
              \/ pc'[o] = pc[o]
              \/ pc[o] = "waiting" /\ pc'[o] = "ready"
         /\ Holding' = Holding \ {op}
         /\ op \in Holding
         /\ running' = running - 1
<1> USE DEF IInv
<1>1. op \in Holding
  BY DEF Finish, Holding
<1>2. running > 0
  BY <1>1, HoldingFinite, FS_EmptySet DEF SlotsBounded, TypeInv
<1>3. running' = running - 1
  BY <1>2 DEF Finish
<1>4. CASE waiters = <<>>
  <2>1. pc' = [pc EXCEPT ![op] = "settled"]
    BY <1>4 DEF Finish
  <2>2. pc' \in [Ops -> Places] /\ pc'[op] = "settled"
    BY <2>1 DEF TypeInv, Places
  <2>3. \A o \in Ops \ {op} : pc'[o] = pc[o]
    BY <2>1 DEF TypeInv
  <2>4. Holding' = Holding \ {op}
    BY <2>2, <2>3 DEF Holding
  <2> QED
    BY <1>1, <1>3, <2>2, <2>3, <2>4
<1>5. CASE waiters # <<>>
  <2>1. Head(waiters) = waiters[1] /\ 1 \in 1..Len(waiters) /\ waiters[1] \in Ops
    BY <1>5 DEF TypeInv
  <2>2. pc[waiters[1]] = "waiting"
    BY <2>1 DEF WaitersParked
  <2>3. pc' = [pc EXCEPT ![op] = "settled", ![waiters[1]] = "ready"]
    BY <1>5, <2>1 DEF Finish
  <2>4. pc[op] = "holding" /\ op # waiters[1] /\ pc \in [Ops -> Places]
    BY <2>2 DEF Finish, TypeInv
  <2>5. /\ pc' \in [Ops -> Places]
        /\ pc'[op] = "settled"
        /\ pc'[waiters[1]] = "ready"
        /\ \A o \in Ops \ {op, waiters[1]} : pc'[o] = pc[o]
    BY <2>1, <2>3, <2>4 DEF Places
  <2>6. Holding' = Holding \ {op}
    BY <2>1, <2>2, <2>4, <2>5 DEF Holding
  <2>7. ASSUME NEW o \in Ops \ {op}
        PROVE  pc'[o] = pc[o] \/ (pc[o] = "waiting" /\ pc'[o] = "ready")
    BY <2>2, <2>5
  <2> QED
    BY <1>1, <1>3, <2>5, <2>6, <2>7
<1> QED
  BY <1>4, <1>5

\* Finishing frees one slot and wakes the oldest parked call.
LEMMA FinishStep ==
  ASSUME IInv, NEW op \in Ops, Finish(op)
  PROVE  IInv'
<1> USE DEF IInv
<1>1. TypeInv'
  <2>1. waiters' \in Seq(Ops)
    <3>1. waiters \in Seq(Ops)
      BY DEF TypeInv
    <3>2. waiters' = waiters \/ (waiters # <<>> /\ waiters' = Tail(waiters))
      BY DEF Finish
    <3> QED
      BY <3>1, <3>2, HeadTailProperties
  <2>2. running' \in Nat
    BY DEF Finish, TypeInv
  <2> QED
    BY <2>1, <2>2, FinishEffect DEF Finish, TypeInv
<1>2. KeyOrder'
  BY FinishEffect DEF Finish, TypeInv, KeyOrder, SameKey, Through
<1>3. WaitersParked'
  <2>1. CASE waiters = <<>>
    BY <2>1 DEF Finish, WaitersParked
  <2>2. CASE waiters # <<>>
    <3>1. /\ waiters' \in Seq(Ops)
          /\ Len(waiters') = Len(waiters) - 1
          /\ \A j \in 1..Len(waiters') : waiters'[j] = waiters[j + 1]
      <4>1. waiters' = Tail(waiters) /\ waiters \in Seq(Ops)
        BY <2>2 DEF Finish, TypeInv
      <4> QED
        BY <2>2, <4>1, HeadTailProperties
    <3>2. pc' = [pc EXCEPT ![op] = "settled", ![waiters[1]] = "ready"]
      BY <2>2 DEF Finish, TypeInv
    <3>3. ASSUME NEW j \in 1..Len(waiters')
          PROVE  pc'[waiters'[j]] = "waiting"
      <4>1. j + 1 \in 1..Len(waiters) /\ 1 \in 1..Len(waiters)
        BY <3>1 DEF TypeInv
      <4>2. waiters[j + 1] # waiters[1] /\ pc[waiters[j + 1]] = "waiting"
        BY <4>1 DEF WaitersParked
      <4>3. waiters[j + 1] \in Ops /\ pc[op] = "holding"
        BY <4>1 DEF TypeInv, Finish
      <4> QED
        BY <3>1, <3>2, <4>1, <4>2, <4>3 DEF TypeInv
    <3>4. \A i, j \in 1..Len(waiters') : waiters'[i] = waiters'[j] => i = j
      BY <3>1 DEF TypeInv, WaitersParked
    <3> QED
      BY <3>3, <3>4 DEF WaitersParked
  <2> QED
    BY <2>1, <2>2
<1>4. SlotsBounded'
  <2>1. Cardinality(Holding') = Cardinality(Holding) - 1
    BY FinishEffect, HoldingFinite, FS_RemoveElement
  <2>2. running' = Cardinality(Holding')
    BY <2>1, FinishEffect DEF SlotsBounded
  <2>3. running' > 0 => \E o \in Ops : running' <= SlotLimit[o]
    BY FinishEffect, SchedulerAssumption DEF SlotsBounded, TypeInv
  <2> QED
    BY <2>2, <2>3 DEF SlotsBounded
<1> QED
  BY <1>1, <1>2, <1>3, <1>4

\* Every step of the scheduler preserves the inductive invariant.
LEMMA NextIInv == IInv /\ [SchedNext]_schedVars => IInv'
<1>1. ASSUME IInv, SchedNext
      PROVE  IInv'
  BY <1>1, CallStep, PreviousResolvedStep, TakeSlotStep, AwaitSlotStep, AbortStep,
     FinishStep DEF SchedNext
<1>2. ASSUME IInv, UNCHANGED schedVars
      PROVE  IInv'
  BY <1>2 DEF schedVars, IInv, TypeInv, KeyOrder, WaitersParked, SlotsBounded, Holding,
     Through
<1> QED
  BY <1>1, <1>2

\* The inductive invariant holds in every reachable state.
THEOREM Inductive == SchedSpec => []IInv
BY InitIInv, NextIInv, PTL DEF SchedSpec

-----------------------------------------------------------------------------
\* Every variable keeps its type, and only parked calls are in the wait queue.
THEOREM TypeCorrect == SchedSpec => []SchedTypeOK
<1>1. ASSUME IInv PROVE SchedTypeOK
  <2> DEFINE Parked == {op \in Ops : pc[op] = "waiting"}
  <2>1. \A i \in 1..Len(waiters) : waiters[i] \in Parked
    BY <1>1 DEF IInv, TypeInv, WaitersParked
  <2>2. waiters \in Seq(Parked)
    BY <1>1, <2>1, SeqDef DEF IInv, TypeInv
  <2> QED
    BY <1>1, <2>2 DEF IInv, TypeInv, SchedTypeOK
<1> QED
  BY <1>1, Inductive, PTL

\* Two calls of one environment key are never inside their callbacks together.
THEOREM MutualExclusion == SchedSpec => []OneOperationPerEnvironment
<1>1. IInv => OneOperationPerEnvironment
  BY DEF IInv, KeyOrder, SameKey, Through, OneOperationPerEnvironment, Holding
<1> QED
  BY <1>1, Inductive, PTL

\* The slot counter is exact and within the most permissive limit.
THEOREM SlotLimitRespected == SchedSpec => []SlotsBounded
<1>1. IInv => SlotsBounded
  BY DEF IInv
<1> QED
  BY <1>1, Inductive, PTL

-----------------------------------------------------------------------------
(* The scheduler implements the gate. *)

\* The scheduler starts with nobody inside.
LEMMA GateInitially == SchedInit => Gate!GateInit
BY DEF SchedInit, Gate!GateInit, Holding

\* Taking a slot is entering, settling while inside is leaving, settling
\* elsewhere is giving up; every other step leaves the gate alone.
LEMMA GateStep ==
  ASSUME IInv, [SchedNext]_schedVars
  PROVE  [Gate!GateNext]_(Gate!gateVars)
<1> DEFINE Over == {o \in Ops : pc[o] = "settled"}
<1> USE DEF IInv, Gate!gateVars
<1>1. ASSUME NEW op \in Ops, TakeSlot(op)
      PROVE  Gate!Enter(op)
  <2>1. op \notin Holding /\ op \notin Over
    BY <1>1 DEF TakeSlot, Holding
  <2>2. \A other \in Holding : KeyOf[other] # KeyOf[op]
    BY <1>1, <2>1 DEF TakeSlot, Holding, KeyOrder, SameKey, Through
  <2>3. Cardinality(Holding) < SlotLimit[op]
    BY <1>1 DEF TakeSlot, SlotsBounded
  <2>4. Holding' = Holding \cup {op} /\ Over' = Over
    BY <1>1 DEF TakeSlot, Holding, TypeInv
  <2>5. Gate!Cardinality(Holding) = Cardinality(Holding)
    BY DEF Gate!Cardinality, Gate!IsFiniteSet, Cardinality, IsFiniteSet
  <2> QED
    BY <2>1, <2>2, <2>3, <2>4, <2>5 DEF Gate!Enter
<1>2. ASSUME NEW op \in Ops, Finish(op)
      PROVE  Gate!Leave(op)
  <2>1. op \in Holding /\ Holding' = Holding \ {op}
    BY <1>2, FinishEffect
  <2>2. Over' = Over \cup {op}
    BY <1>2, FinishEffect
  <2> QED
    BY <2>1, <2>2 DEF Gate!Leave
<1>3. ASSUME NEW op \in Ops,
             Call(op) \/ PreviousResolved(op) \/ AwaitSlot(op) \/ Abort(op)
      PROVE  Gate!GiveUp(op) \/ UNCHANGED <<Holding, Over>>
  <2>1. Holding' = Holding
    BY <1>3 DEF Call, PreviousResolved, AwaitSlot, Abort, Holding, TypeInv
  <2>2. \/ Over' = Over
        \/ pc[op] \notin {"holding", "settled"} /\ Over' = Over \cup {op}
    BY <1>3 DEF Call, PreviousResolved, AwaitSlot, Abort, TypeInv
  <2> QED
    BY <2>1, <2>2 DEF Gate!GiveUp, Holding
<1>4. ASSUME UNCHANGED schedVars
      PROVE  UNCHANGED <<Holding, Over>>
  BY <1>4 DEF schedVars, Holding
<1> QED
  BY <1>1, <1>2, <1>3, <1>4 DEF SchedNext, Gate!GateNext

\* Every behaviour of the scheduler is a behaviour of the gate.
THEOREM ImplementsGate == SchedSpec => GateRefined
<1>1. IInv /\ [SchedNext]_schedVars => [Gate!GateNext]_(Gate!gateVars)
  BY GateStep
<1> QED
  BY <1>1, Inductive, GateInitially, PTL DEF SchedSpec, GateRefined, Gate!GateSpec

-----------------------------------------------------------------------------
(* The environment manager inside the scheduler *)

\* Stages of a call that has not started a guest, and of one past acquire()'s
\* look-up whose key has no guest.
Early == {"enter", "capacity", "retry", "evicting", "starting"}
Vacant == {"capacity", "retry", "evicting", "starting", "discarding"}

Reserved == {op \in Ops : stage[op] \in {"evicting", "starting"}}

\* closeAll or the removal of its workspace may take the guests of key k.
Closing(k) ==
  \/ closer["all"].phase # "idle"
  \/ k \in Removed /\ closer["workspace"].phase # "idle"

EnvTypeInv ==
  /\ stage \in [Ops -> Stages]
  /\ entry \in [Ops -> Ops \cup {NoOp}]
  /\ envs \in [Keys -> Ops \cup {NoOp}]
  /\ starting \in Nat
  /\ guest \in [Ops -> GuestStates]
  /\ active \in [Ops -> Nat]
  /\ timer \in SUBSET Ops
  /\ closer \in [Closers -> CloserStates]

StageInSlot == \A op \in Ops : stage[op] \notin {"enter", "left"} => pc[op] = "holding"

NotYetStarted == \A op \in Ops : stage[op] \in Early => guest[op] = "none"

MapOfLive ==
  \A k \in Keys : envs[k] # NoOp => guest[envs[k]] = "live" /\ KeyOf[envs[k]] = k

KeyVacant == \A op \in Ops : stage[op] \in Vacant => envs[KeyOf[op]] = NoOp

EntryOfKey ==
  \A op \in Ops : stage[op] \in {"executing", "discarding"}
                    => entry[op] \in Ops /\ KeyOf[entry[op]] = KeyOf[op]

InUse ==
  \A op \in Ops : stage[op] = "executing" =>
    \/ envs[KeyOf[op]] = entry[op] /\ active[entry[op]] = 1
    \/ envs[KeyOf[op]] = NoOp /\ Closing(KeyOf[op])

IdleUnused ==
  \A k \in Keys : envs[k] # NoOp =>
    \/ active[envs[k]] = 0
    \/ \E op \in Ops : stage[op] = "executing" /\ KeyOf[op] = k

TodoRemoved == \A g \in closer["workspace"].todo : KeyOf[g] \in Removed

StartsCounted == starting = Cardinality(Reserved)

SandboxInv ==
  /\ EnvTypeInv
  /\ StageInSlot
  /\ NotYetStarted
  /\ MapOfLive
  /\ NoOrphanGuest
  /\ KeyVacant
  /\ EntryOfKey
  /\ InUse
  /\ IdleUnused
  /\ TodoRemoved
  /\ StartsCounted
  /\ EnvironmentsBounded

-----------------------------------------------------------------------------
(* Helpers. *)

\* At most one call of a key is inside its callback.
LEMMA OneInside ==
  ASSUME IInv, NEW a \in Ops, NEW b \in Ops,
         pc[a] = "holding", pc[b] = "holding", KeyOf[a] = KeyOf[b]
  PROVE  a = b
BY DEF IInv, KeyOrder, SameKey, Through

\* A map that holds each guest under the guest's own key is finite.
LEMMA MapFinite ==
  ASSUME NEW e \in [Keys -> Ops \cup {NoOp}],
         \A k \in Keys : e[k] # NoOp => KeyOf[e[k]] = k
  PROVE  /\ IsFiniteSet({k \in Keys : e[k] # NoOp})
         /\ Cardinality({k \in Keys : e[k] # NoOp}) \in Nat
<1> DEFINE W == {k \in Keys : e[k] # NoOp}
           f == [k \in W |-> e[k]]
<1>1. f \in Injection(W, Ops)
  BY DEF Injection, IsInjective
<1>2. IsFiniteSet(W)
  BY <1>1, SchedulerAssumption, FS_Injection
<1> QED
  BY <1>2, FS_CardinalityType

\* The warm keys and the reserved starts are finitely many.
LEMMA CountsFinite ==
  ASSUME EnvTypeInv, MapOfLive
  PROVE  /\ IsFiniteSet(Warm) /\ Cardinality(Warm) \in Nat
         /\ IsFiniteSet(Reserved) /\ Cardinality(Reserved) \in Nat
<1>1. Reserved \subseteq Ops
  BY DEF Reserved
<1>2. IsFiniteSet(Reserved) /\ Cardinality(Reserved) \in Nat
  BY <1>1, SchedulerAssumption, FS_Subset, FS_CardinalityType
<1> QED
  BY <1>2, MapFinite DEF EnvTypeInv, MapOfLive, Warm

\* The bound is kept by a step that does not add to what is taken and forgets
\* no call.
LEMMA BoundKept ==
  ASSUME SandboxInv, EnvTypeInv', MapOfLive',
         \A o \in Ops : pc[o] # "idle" => pc'[o] # "idle",
         Cardinality(Warm') + starting' <= Cardinality(Warm) + starting
  PROVE  EnvironmentsBounded'
<1>1. Cardinality(Warm) \in Nat /\ Cardinality(Warm') \in Nat
  <2>1. Cardinality(Warm) \in Nat
    BY CountsFinite DEF SandboxInv
  <2>2. Cardinality(Warm') \in Nat
    BY MapFinite DEF EnvTypeInv, MapOfLive, Warm
  <2> QED
    BY <2>1, <2>2
<1> QED
  BY <1>1, SandboxAssumption DEF SandboxInv, EnvTypeInv, EnvironmentsBounded

\* The initial state satisfies the invariant.
LEMMA InitSandboxInv == SandboxInit => SandboxInv
<1> SUFFICES ASSUME SandboxInit PROVE SandboxInv
  OBVIOUS
<1> USE DEF SandboxInit
<1>1. EnvTypeInv
  BY DEF EnvTypeInv, Stages, GuestStates, CloserStates
<1>2. StageInSlot /\ NotYetStarted /\ MapOfLive /\ NoOrphanGuest /\ KeyVacant
  BY SchedulerAssumption DEF StageInSlot, NotYetStarted, MapOfLive, NoOrphanGuest, KeyVacant, Vacant
<1>3. EntryOfKey /\ InUse /\ IdleUnused /\ TodoRemoved
  BY DEF EntryOfKey, InUse, IdleUnused, TodoRemoved, Closers
<1>4. Warm = {} /\ Reserved = {}
  BY DEF Warm, Reserved
<1>5. StartsCounted /\ EnvironmentsBounded
  BY <1>4, FS_EmptySet DEF StartsCounted, EnvironmentsBounded
<1> QED
  BY <1>1, <1>2, <1>3, <1>5 DEF SandboxInv

-----------------------------------------------------------------------------
(* One lemma per action: SandboxInv is preserved. *)

\* A step of the scheduler moves no operation out of the manager.
LEMMA SchedulerStep ==
  ASSUME SandboxInv, UNCHANGED envVars,
         \A o \in Ops : pc[o] = "holding" => pc'[o] = "holding",
         \A o \in Ops : pc[o] # "idle" => pc'[o] # "idle"
  PROVE  SandboxInv'
<1> USE DEF SandboxInv, envVars
<1>1. EnvTypeInv'
  BY DEF EnvTypeInv
<1>2. StageInSlot' /\ NotYetStarted' /\ MapOfLive' /\ NoOrphanGuest' /\ KeyVacant'
  BY DEF StageInSlot, NotYetStarted, MapOfLive, NoOrphanGuest, KeyVacant
<1>3. EntryOfKey' /\ InUse' /\ IdleUnused' /\ TodoRemoved'
  BY DEF EntryOfKey, InUse, IdleUnused, TodoRemoved, Closing
<1>4. Warm' = Warm /\ Reserved' = Reserved
  BY DEF Warm, Reserved
<1>5. StartsCounted' /\ EnvironmentsBounded'
  BY <1>4 DEF StartsCounted, EnvironmentsBounded
<1> QED
  BY <1>1, <1>2, <1>3, <1>5

\* The capacity test, reached with the key vacant: by acquire()'s look-up or
\* after a wait.
LEMMA ReserveStep ==
  ASSUME IInv, SandboxInv, NEW op \in Ops, stage[op] \in {"enter", "retry"},
         pc[op] = "holding", envs[KeyOf[op]] = NoOp, ReserveOrWait(op),
         UNCHANGED <<schedVars, active, closer>>
  PROVE  SandboxInv'
<1> USE DEF SandboxInv, schedVars
<1>0. UNCHANGED pc /\ KeyOf[op] \in Keys /\ EnvLimit[op] \in Nat \ {0}
  BY SchedulerAssumption, SandboxAssumption
<1>1. CASE /\ HasCapacity(op)
           /\ starting' = starting + 1
           /\ stage' = Move(op, "starting")
           /\ UNCHANGED <<entry, envs, guest, timer>>
  <2> USE <1>1 DEF Move
  <2>1. EnvTypeInv'
    BY DEF EnvTypeInv, Stages
  <2>2. StageInSlot' /\ NotYetStarted' /\ MapOfLive' /\ NoOrphanGuest' /\ KeyVacant'
    BY <1>0 DEF EnvTypeInv, StageInSlot, NotYetStarted, Early, MapOfLive, NoOrphanGuest,
                KeyVacant, Vacant
  <2>3. EntryOfKey' /\ InUse' /\ IdleUnused' /\ TodoRemoved'
    BY DEF EnvTypeInv, EntryOfKey, InUse, IdleUnused, TodoRemoved, Closing
  <2>4. Warm' = Warm /\ Reserved' = Reserved \cup {op} /\ op \notin Reserved
    BY DEF EnvTypeInv, Warm, Reserved
  <2>5. Cardinality(Reserved') = Cardinality(Reserved) + 1
    BY <2>4, CountsFinite, FS_AddElement
  <2>6. StartsCounted'
    BY <2>5 DEF StartsCounted
  <2>7. EnvironmentsBounded'
    BY <1>0, <2>4, CountsFinite DEF HasCapacity, EnvironmentsBounded, EnvTypeInv
  <2> QED
    BY <2>1, <2>2, <2>3, <2>6, <2>7
<1>2. CASE /\ \E victim \in Idle :
                /\ envs' = [envs EXCEPT ![KeyOf[victim]] = NoOp]
                /\ guest' = [guest EXCEPT ![victim] = "closing"]
                /\ timer' = timer \ {victim}
                /\ entry' = [entry EXCEPT ![op] = victim]
           /\ starting' = starting + 1
           /\ stage' = Move(op, "evicting")
  <2> USE <1>2 DEF Move
  <2>1. PICK victim \in Idle :
          /\ envs' = [envs EXCEPT ![KeyOf[victim]] = NoOp]
          /\ guest' = [guest EXCEPT ![victim] = "closing"]
          /\ timer' = timer \ {victim}
          /\ entry' = [entry EXCEPT ![op] = victim]
    OBVIOUS
  <2>2. /\ victim \in Ops /\ KeyOf[victim] \in Keys /\ envs[KeyOf[victim]] = victim
        /\ active[victim] = 0 /\ guest[victim] = "live"
    BY SchedulerAssumption, SandboxAssumption DEF Idle, Warm, EnvTypeInv, MapOfLive
  <2>3. EnvTypeInv'
    BY <2>1, <2>2 DEF EnvTypeInv, Stages, GuestStates
  <2>4. StageInSlot' /\ NotYetStarted'
    BY <1>0, <2>1, <2>2 DEF EnvTypeInv, StageInSlot, NotYetStarted, Early
  <2>5. MapOfLive' /\ NoOrphanGuest'
    BY <2>1, <2>2, SchedulerAssumption, SandboxAssumption
    DEF EnvTypeInv, MapOfLive, NoOrphanGuest
  <2>6. KeyVacant'
    BY <1>0, <2>1, <2>2, SchedulerAssumption DEF EnvTypeInv, KeyVacant, Vacant
  <2>7. EntryOfKey'
    BY <2>1, <2>2 DEF EnvTypeInv, EntryOfKey
  <2>8. InUse'
    <3>1. ASSUME NEW o \in Ops, stage'[o] = "executing"
          PROVE  KeyOf[o] # KeyOf[victim] \/ envs[KeyOf[o]] = NoOp
      <4>1. stage[o] = "executing"
        BY <3>1 DEF EnvTypeInv
      <4> QED
        BY <2>2, <4>1 DEF InUse, EntryOfKey
    <3> QED
      BY <2>1, <2>2, <3>1, SchedulerAssumption DEF EnvTypeInv, InUse, Closing
  <2>9. IdleUnused' /\ TodoRemoved'
    BY <2>1, <2>2 DEF EnvTypeInv, IdleUnused, TodoRemoved
  <2>10. Reserved' = Reserved \cup {op} /\ op \notin Reserved
    BY DEF EnvTypeInv, Reserved
  <2>11. StartsCounted'
    BY <2>10, CountsFinite, FS_AddElement DEF StartsCounted
  <2>12. Warm' = Warm \ {KeyOf[victim]} /\ KeyOf[victim] \in Warm
    BY <2>1, <2>2, SandboxAssumption DEF EnvTypeInv, Warm
  <2>13. Cardinality(Warm') = Cardinality(Warm) - 1
    BY <2>12, CountsFinite, FS_RemoveElement
  <2>14. EnvironmentsBounded'
    BY <1>0, <2>3, <2>5, <2>13, CountsFinite, BoundKept DEF EnvTypeInv
  <2> QED
    BY <2>3, <2>4, <2>5, <2>6, <2>7, <2>8, <2>9, <2>11, <2>14
<1>3. CASE /\ stage' = Move(op, IF op \in aborted THEN "left" ELSE "capacity")
           /\ UNCHANGED <<entry, envs, starting, guest, timer>>
  <2> USE <1>3 DEF Move
  <2>1. EnvTypeInv'
    BY DEF EnvTypeInv, Stages
  <2>2. StageInSlot' /\ NotYetStarted' /\ MapOfLive' /\ NoOrphanGuest' /\ KeyVacant'
    BY <1>0 DEF EnvTypeInv, StageInSlot, NotYetStarted, Early, MapOfLive, NoOrphanGuest,
                KeyVacant, Vacant
  <2>3. EntryOfKey' /\ InUse' /\ IdleUnused' /\ TodoRemoved'
    BY DEF EnvTypeInv, EntryOfKey, InUse, IdleUnused, TodoRemoved, Closing
  <2>4. Warm' = Warm /\ Reserved' = Reserved
    BY DEF EnvTypeInv, Warm, Reserved
  <2>5. StartsCounted' /\ EnvironmentsBounded'
    BY <1>0, <2>4 DEF StartsCounted, EnvironmentsBounded
  <2> QED
    BY <2>1, <2>2, <2>3, <2>5
<1> QED
  BY <1>1, <1>2, <1>3 DEF ReserveOrWait
\* A step that leaves the map, the counters and the users alone: calls wake,
\* or leave without a guest in the map; guests finish closing; a closer goes on.
LEMMA QuietStep ==
  ASSUME SandboxInv, EnvTypeInv', StageInSlot', UNCHANGED <<envs, starting, active>>,
         \A o \in Ops : pc[o] # "idle" => pc'[o] # "idle",
         \A o \in Ops :
           \/ /\ stage'[o] = stage[o]
              /\ entry'[o] = entry[o] \/ stage[o] \notin {"executing", "discarding"}
           \/ stage[o] = "capacity" /\ stage'[o] = "retry"
           \/ stage[o] = "evicting" /\ stage'[o] = "starting"
           \/ /\ stage[o] \notin {"evicting", "starting"}
              /\ stage'[o] = "left"
              /\ stage[o] = "executing" => envs[KeyOf[o]] = NoOp,
         \A g \in Ops : \/ guest'[g] = guest[g]
                        \/ guest[g] \in {"closing", "expiring"} /\ guest'[g] = "closed",
         \A c \in Closers : closer[c].phase # "idle" => closer'[c].phase # "idle",
         TodoRemoved'
  PROVE  SandboxInv'
<1> USE DEF SandboxInv
<1>1. NotYetStarted'
  BY DEF EnvTypeInv, NotYetStarted, Early
<1>2. MapOfLive'
  BY DEF EnvTypeInv, MapOfLive
<1>3. NoOrphanGuest'
  BY DEF EnvTypeInv, NoOrphanGuest
<1>4. KeyVacant'
  BY DEF EnvTypeInv, KeyVacant, Vacant
<1>5. EntryOfKey'
  BY DEF EnvTypeInv, EntryOfKey
<1>6. InUse'
  BY DEF EnvTypeInv, InUse, Closing, Closers
<1>7. IdleUnused'
  BY DEF EnvTypeInv, IdleUnused
<1>8. Reserved' = Reserved /\ Warm' = Warm
  BY DEF EnvTypeInv, Reserved, Warm
<1>9. StartsCounted' /\ EnvironmentsBounded'
  BY <1>8 DEF StartsCounted, EnvironmentsBounded
<1> QED
  BY <1>1, <1>2, <1>3, <1>4, <1>5, <1>6, <1>7, <1>9

\* Taking a guest out of the map: its idle timer and the call whose guest died
\* may do so because nobody else uses it, a closer may always.
LEMMA RemoveGuest ==
  ASSUME SandboxInv, EnvTypeInv', NEW g \in Ops, envs[KeyOf[g]] = g,
         envs' = [envs EXCEPT ![KeyOf[g]] = NoOp],
         NEW s \in {"closing", "expiring"}, guest' = [guest EXCEPT ![g] = s],
         UNCHANGED <<pc, starting, active, entry>>,
         \A o \in Ops : \/ stage'[o] = stage[o]
                        \/ /\ stage[o] = "executing" /\ stage'[o] = "discarding"
                           /\ KeyOf[o] = KeyOf[g],
         \A o \in Ops : stage'[o] = "executing" /\ KeyOf[o] = KeyOf[g] => Closing(KeyOf[g])',
         \A c \in Closers : closer[c].phase # "idle" => closer'[c].phase # "idle",
         TodoRemoved'
  PROVE  SandboxInv'
<1> USE DEF SandboxInv
<1>0. KeyOf[g] \in Keys /\ NoOp \notin Ops /\ guest[g] = "live"
  BY SchedulerAssumption, SandboxAssumption DEF MapOfLive
<1>1. StageInSlot' /\ NotYetStarted'
  BY <1>0 DEF EnvTypeInv, StageInSlot, NotYetStarted, Early
<1>2. MapOfLive'
  BY <1>0 DEF EnvTypeInv, MapOfLive
<1>3. NoOrphanGuest'
  BY <1>0, SchedulerAssumption DEF EnvTypeInv, NoOrphanGuest
<1>4. KeyVacant'
  BY <1>0, SchedulerAssumption DEF EnvTypeInv, KeyVacant, Vacant
<1>5. EntryOfKey'
  BY DEF EnvTypeInv, EntryOfKey
<1>6. InUse'
  BY <1>0, SchedulerAssumption DEF EnvTypeInv, InUse, Closing, Closers
<1>7. IdleUnused'
  BY <1>0 DEF EnvTypeInv, IdleUnused
<1>8. Reserved' = Reserved
  BY DEF EnvTypeInv, Reserved
<1>9. StartsCounted'
  BY <1>8 DEF StartsCounted
<1>10. Warm' = Warm \ {KeyOf[g]} /\ KeyOf[g] \in Warm
  BY <1>0 DEF EnvTypeInv, Warm
<1>11. Cardinality(Warm') = Cardinality(Warm) - 1
  BY <1>10, CountsFinite, FS_RemoveElement
<1>12. EnvironmentsBounded'
  BY <1>2, <1>11, CountsFinite, BoundKept DEF EnvTypeInv
<1> QED
  BY <1>1, <1>2, <1>3, <1>4, <1>5, <1>6, <1>7, <1>9, <1>12

\* acquire(): cancelled before it began, the warm guest of the key, or a new one.
LEMMA AcquireStep ==
  ASSUME IInv, SandboxInv, NEW op \in Ops, Acquire(op)
  PROVE  SandboxInv'
<1> USE DEF SandboxInv, schedVars
<1>0. /\ pc[op] = "holding" /\ stage[op] = "enter" /\ KeyOf[op] \in Keys
      /\ UNCHANGED <<pc, closer>>
  BY SchedulerAssumption DEF Acquire, Holding
<1>1. CASE /\ stage' = Move(op, "left")
           /\ UNCHANGED <<entry, envs, starting, guest, active, timer>>
  <2>1. EnvTypeInv'
    BY <1>0, <1>1 DEF Move, EnvTypeInv, Stages
  <2>2. StageInSlot' /\ TodoRemoved'
    BY <1>0, <1>1 DEF Move, EnvTypeInv, StageInSlot, TodoRemoved
  <2>3. \A o \in Ops : stage'[o] = IF o = op THEN "left" ELSE stage[o]
    BY <1>1 DEF Move, EnvTypeInv
  <2> QED
    BY <1>0, <1>1, <2>1, <2>2, <2>3, QuietStep
<1>2. CASE /\ KeyOf[op] \in Warm
           /\ LET g == envs[KeyOf[op]] IN
                /\ active' = [active EXCEPT ![g] = @ + 1]
                /\ timer' = timer \ {g}
                /\ entry' = [entry EXCEPT ![op] = g]
           /\ stage' = Move(op, "executing")
           /\ UNCHANGED <<envs, starting, guest>>
  <2> DEFINE g == envs[KeyOf[op]]
  <2>1. g \in Ops /\ g # NoOp /\ KeyOf[g] = KeyOf[op]
    BY <1>0, <1>2, SandboxAssumption DEF Warm, EnvTypeInv, MapOfLive
  <2>2. ~\E o \in Ops : stage[o] = "executing" /\ KeyOf[o] = KeyOf[op]
    BY <1>0, OneInside DEF StageInSlot
  <2>3. active[g] = 0
    BY <1>0, <2>1, <2>2 DEF IdleUnused
  <2>4. /\ active' = [active EXCEPT ![g] = 1]
        /\ entry' = [entry EXCEPT ![op] = g]
        /\ timer' = timer \ {g}
        /\ stage' = [stage EXCEPT ![op] = "executing"]
        /\ UNCHANGED <<envs, starting, guest>>
    BY <1>2, <2>3 DEF Move
  <2> HIDE DEF g
  <2>5. EnvTypeInv'
    BY <1>0, <2>1, <2>4 DEF EnvTypeInv, Stages
  <2>6. StageInSlot' /\ NotYetStarted' /\ MapOfLive' /\ NoOrphanGuest' /\ KeyVacant'
    BY <1>0, <2>4 DEF EnvTypeInv, StageInSlot, NotYetStarted, Early, MapOfLive,
                      NoOrphanGuest, KeyVacant, Vacant
  <2>7. EntryOfKey'
    BY <1>0, <2>1, <2>4 DEF EnvTypeInv, EntryOfKey
  <2>8. InUse'
    BY <1>0, <2>1, <2>2, <2>4 DEF g, EnvTypeInv, InUse, EntryOfKey, Closing
  <2>9. IdleUnused' /\ TodoRemoved'
    BY <1>0, <2>1, <2>4 DEF EnvTypeInv, MapOfLive, IdleUnused, TodoRemoved
  <2>10. Warm' = Warm /\ Reserved' = Reserved
    BY <1>0, <2>4 DEF EnvTypeInv, Warm, Reserved
  <2>11. StartsCounted' /\ EnvironmentsBounded'
    BY <1>0, <2>4, <2>10 DEF StartsCounted, EnvironmentsBounded
  <2> QED
    BY <2>5, <2>6, <2>7, <2>8, <2>9, <2>11
<1>3. CASE KeyOf[op] \notin Warm /\ ReserveOrWait(op) /\ UNCHANGED active
  <2>1. envs[KeyOf[op]] = NoOp
    BY <1>0, <1>3 DEF Warm
  <2> QED
    BY <1>0, <1>3, <2>1, ReserveStep DEF Acquire
<1> QED
  BY <1>1, <1>2, <1>3 DEF Acquire

\* Once woken, the capacity is tested again.
LEMMA RetryStep ==
  ASSUME IInv, SandboxInv, NEW op \in Ops, Retry(op)
  PROVE  SandboxInv'
BY ReserveStep DEF Retry, SandboxInv, StageInSlot, KeyVacant, Vacant

\* The guest evicted to make room has closed.
LEMMA EvictedStep ==
  ASSUME SandboxInv, NEW op \in Ops, Evicted(op)
  PROVE  SandboxInv'
<1> USE DEF SandboxInv, Evicted, schedVars, Move
<1>1. EnvTypeInv'
  BY DEF EnvTypeInv, Stages
<1>2. StageInSlot' /\ TodoRemoved'
  BY DEF EnvTypeInv, StageInSlot, TodoRemoved
<1>3. \A o \in Ops : /\ stage'[o] = IF o = op THEN "starting" ELSE stage[o]
                     /\ o # op => entry'[o] = entry[o]
  BY DEF EnvTypeInv
<1> QED
  BY <1>1, <1>2, <1>3, QuietStep
\* The start that settles gives back its reservation.
LEMMA StartSettles ==
  ASSUME SandboxInv, NEW op \in Ops, stage[op] = "starting",
         starting' = (IF starting > 0 THEN starting - 1 ELSE 0),
         stage'[op] \notin {"evicting", "starting"},
         \A o \in Ops \ {op} : stage'[o] = stage[o]
                               \/ {stage[o], stage'[o]} \cap {"evicting", "starting"} = {}
  PROVE  starting > 0 /\ starting' = starting - 1 /\ StartsCounted'
<1> USE DEF SandboxInv
<1>1. op \in Reserved /\ Reserved' = Reserved \ {op}
  BY DEF Reserved
<1>2. Cardinality(Reserved') = Cardinality(Reserved) - 1
  BY <1>1, CountsFinite, FS_RemoveElement
<1>3. Cardinality(Reserved) # 0
  BY <1>1, CountsFinite, FS_EmptySet
<1> QED
  BY <1>2, <1>3, CountsFinite DEF StartsCounted

\* The guest started goes into the map, where its key is still vacant.
LEMMA StartedStep ==
  ASSUME IInv, SandboxInv, NEW op \in Ops, Started(op)
  PROVE  SandboxInv'
<1> USE DEF SandboxInv
<1>0. /\ stage[op] = "starting" /\ pc[op] = "holding" /\ KeyOf[op] \in Keys
      /\ envs[KeyOf[op]] = NoOp /\ guest[op] = "none" /\ op # NoOp
      /\ UNCHANGED <<pc, timer, closer>>
  BY SchedulerAssumption, SandboxAssumption
  DEF Started, StageInSlot, KeyVacant, Vacant, NotYetStarted, Early, schedVars
<1>1. \A o \in Ops : stage'[o] = IF o = op THEN "executing"
                                  ELSE IF stage[o] = "capacity" THEN "retry" ELSE stage[o]
  BY DEF Started, Wake, Move, EnvTypeInv
<1>2. /\ guest' = [guest EXCEPT ![op] = "live"]
      /\ envs' = [envs EXCEPT ![KeyOf[op]] = op]
      /\ active' = [active EXCEPT ![op] = 1]
      /\ entry' = [entry EXCEPT ![op] = op]
      /\ starting' = (IF starting > 0 THEN starting - 1 ELSE 0)
  BY DEF Started
<1>3. EnvTypeInv'
  BY <1>0, <1>2 DEF Started, Wake, Move, EnvTypeInv, Stages, GuestStates
<1>4. \A o \in Ops : pc[o] = "holding" /\ KeyOf[o] = KeyOf[op] => o = op
  BY <1>0, OneInside
<1>5. StageInSlot' /\ NotYetStarted'
  BY <1>0, <1>1, <1>2 DEF EnvTypeInv, StageInSlot, NotYetStarted, Early
<1>6. MapOfLive'
  BY <1>0, <1>2 DEF EnvTypeInv, MapOfLive
<1>7. NoOrphanGuest'
  BY <1>0, <1>2, SchedulerAssumption, SandboxAssumption DEF EnvTypeInv, NoOrphanGuest
<1>8. KeyVacant'
  BY <1>0, <1>1, <1>2, <1>4, SchedulerAssumption
  DEF EnvTypeInv, KeyVacant, Vacant, StageInSlot
<1>9. EntryOfKey'
  BY <1>1, <1>2 DEF EnvTypeInv, EntryOfKey
<1>10. InUse'
  <2> SUFFICES ASSUME NEW o \in Ops, stage'[o] = "executing"
               PROVE  \/ envs'[KeyOf[o]] = entry'[o] /\ active'[entry'[o]] = 1
                      \/ envs'[KeyOf[o]] = NoOp /\ Closing(KeyOf[o])'
    BY DEF InUse
  <2>1. CASE o = op
    BY <1>0, <1>2, <2>1 DEF EnvTypeInv
  <2>2. CASE o # op
    <3>1. stage[o] = "executing" /\ pc[o] = "holding" /\ KeyOf[o] # KeyOf[op]
      BY <1>1, <1>4, <2>2 DEF StageInSlot
    <3>2. entry'[o] = entry[o] /\ entry[o] # op /\ envs'[KeyOf[o]] = envs[KeyOf[o]]
      BY <1>2, <2>2, <3>1, SchedulerAssumption DEF EnvTypeInv, EntryOfKey
    <3> QED
      BY <1>0, <1>2, <3>1, <3>2 DEF EnvTypeInv, InUse, EntryOfKey, Closing
  <2> QED
    BY <2>1, <2>2
<1>11. IdleUnused' /\ TodoRemoved'
  BY <1>0, <1>1, <1>2 DEF EnvTypeInv, MapOfLive, IdleUnused, TodoRemoved
<1>12. starting > 0 /\ starting' = starting - 1 /\ StartsCounted'
  BY <1>0, <1>1, <1>2, StartSettles
<1>13. Warm' = Warm \cup {KeyOf[op]} /\ KeyOf[op] \notin Warm
  BY <1>0, <1>2 DEF EnvTypeInv, Warm
<1>14. Cardinality(Warm') = Cardinality(Warm) + 1
  BY <1>13, CountsFinite, FS_AddElement
<1>15. EnvironmentsBounded'
  BY <1>0, <1>3, <1>6, <1>12, <1>14, CountsFinite, BoundKept DEF EnvTypeInv
<1> QED
  BY <1>3, <1>5, <1>6, <1>7, <1>8, <1>9, <1>10, <1>11, <1>12, <1>15

\* A start that fails gives its reservation back and wakes the waiters.
LEMMA StartFailedStep ==
  ASSUME SandboxInv, NEW op \in Ops, StartFailed(op)
  PROVE  SandboxInv'
<1> USE DEF SandboxInv
<1>0. /\ stage[op] = "starting"
      /\ UNCHANGED <<pc, entry, envs, guest, active, timer, closer>>
      /\ starting' = (IF starting > 0 THEN starting - 1 ELSE 0)
  BY DEF StartFailed, schedVars
<1>1. \A o \in Ops : stage'[o] = IF o = op THEN "left"
                                  ELSE IF stage[o] = "capacity" THEN "retry" ELSE stage[o]
  BY DEF StartFailed, Wake, Move, EnvTypeInv
<1>2. starting > 0 /\ starting' = starting - 1 /\ StartsCounted'
  BY <1>0, <1>1, StartSettles
<1>3. EnvTypeInv'
  BY <1>0, <1>2 DEF StartFailed, Wake, Move, EnvTypeInv, Stages
<1>4. StageInSlot' /\ NotYetStarted' /\ MapOfLive' /\ NoOrphanGuest' /\ KeyVacant'
  BY <1>0, <1>1 DEF StageInSlot, NotYetStarted, Early, MapOfLive, NoOrphanGuest,
                    KeyVacant, Vacant
<1>5. EntryOfKey' /\ InUse' /\ IdleUnused' /\ TodoRemoved'
  BY <1>0, <1>1 DEF EntryOfKey, InUse, IdleUnused, TodoRemoved, Closing
<1>6. Warm' = Warm
  BY <1>0 DEF Warm
<1>7. EnvironmentsBounded'
  BY <1>0, <1>2, <1>3, <1>4, <1>6, CountsFinite, BoundKept DEF EnvTypeInv
<1> QED
  BY <1>2, <1>3, <1>4, <1>5, <1>7

\* Waking the waiters, or not.
LEMMA Waking ==
  ASSUME EnvTypeInv, stage' = stage \/ stage' = Wake(stage)
  PROVE  /\ stage' \in [Ops -> Stages]
         /\ \A o \in Ops : stage'[o] = stage[o] \/ (stage[o] = "capacity" /\ stage'[o] = "retry")
<1>1. CASE stage' = stage
  BY <1>1 DEF EnvTypeInv
<1>2. CASE stage' = Wake(stage)
  <2>1. \A o \in Ops : stage'[o] = IF stage[o] = "capacity" THEN "retry" ELSE stage[o]
    BY <1>2 DEF Wake
  <2>2. stage' \in [Ops -> Stages]
    BY <1>2 DEF EnvTypeInv, Wake, Stages
  <2> QED
    BY <2>1, <2>2
<1> QED
  BY <1>1, <1>2

\* A call that leaves: the stages after it, its waiters woken or not.
LEMMA Leaving ==
  ASSUME EnvTypeInv, NEW op \in Ops,
         stage' = Move(op, "left") \/ stage' = Wake(Move(op, "left"))
  PROVE  /\ stage' \in [Ops -> Stages]
         /\ stage'[op] = "left"
         /\ \A o \in Ops \ {op} : stage'[o] = stage[o]
                                  \/ (stage[o] = "capacity" /\ stage'[o] = "retry")
<1> DEFINE st == Move(op, "left")
<1>1. /\ st \in [Ops -> Stages]
      /\ \A o \in Ops : st[o] = IF o = op THEN "left" ELSE stage[o]
  BY DEF EnvTypeInv, Move, Stages
<1>2. CASE stage' = st
  BY <1>1, <1>2
<1>3. CASE stage' = Wake(st)
  <2> HIDE DEF st
  <2>1. stage' \in [Ops -> Stages]
    BY <1>1, <1>3 DEF Wake, Stages
  <2>2. \A o \in Ops : stage'[o] = IF st[o] = "capacity" THEN "retry" ELSE st[o]
    BY <1>3 DEF Wake
  <2> QED
    BY <1>1, <2>1, <2>2
<1> QED
  BY <1>2, <1>3

\* A call whose guest has left the map changes nothing when it leaves.
LEMMA LeaveVacant ==
  ASSUME IInv, SandboxInv, NEW op \in Ops, stage[op] \in {"executing", "discarding"},
         envs[KeyOf[op]] = NoOp,
         stage' = Move(op, "left") \/ stage' = Wake(Move(op, "left")),
         UNCHANGED <<schedVars, entry, envs, starting, guest, active, timer, closer>>
  PROVE  SandboxInv'
<1> USE DEF SandboxInv, schedVars
<1>1. EnvTypeInv' /\ TodoRemoved'
  BY Leaving DEF EnvTypeInv, TodoRemoved
<1>2. StageInSlot'
  BY Leaving DEF StageInSlot
<1> QED
  BY <1>1, <1>2, Leaving, QuietStep

\* A call that ends well is no longer counted on its guest, whose idle timer is
\* armed; a guest a closer has taken is left alone.
LEMMA ExecutedStep ==
  ASSUME IInv, SandboxInv, NEW op \in Ops, Executed(op)
  PROVE  SandboxInv'
<1> USE DEF SandboxInv
<1> DEFINE g == entry[op]
<1>0. /\ stage[op] = "executing" /\ Release(op, Move(op, "left"))
      /\ UNCHANGED <<pc, entry, envs, starting, guest, closer>> /\ UNCHANGED schedVars
      /\ pc[op] = "holding" /\ KeyOf[op] \in Keys /\ g \in Ops /\ KeyOf[g] = KeyOf[op]
  BY SchedulerAssumption DEF Executed, schedVars, StageInSlot, EntryOfKey
<1>1. CASE envs[KeyOf[op]] = NoOp
  BY <1>0, <1>1, LeaveVacant DEF Release
<1>2. CASE envs[KeyOf[op]] # NoOp
  <2>1. envs[KeyOf[op]] = g /\ active[g] = 1
    BY <1>0, <1>2 DEF InUse
  <2>2. /\ active' = [active EXCEPT ![g] = 0]
        /\ timer' = timer \cup {g}
        /\ stage' = Wake(Move(op, "left"))
    BY <1>0, <1>2, <2>1 DEF Release
  <2> HIDE DEF g
  <2>3. EnvTypeInv'
    BY <1>0, <2>2, Leaving DEF EnvTypeInv
  <2>4. StageInSlot' /\ NotYetStarted' /\ MapOfLive' /\ NoOrphanGuest' /\ KeyVacant'
    BY <1>0, <2>2, Leaving DEF StageInSlot, NotYetStarted, Early, MapOfLive,
       NoOrphanGuest, KeyVacant, Vacant
  <2>5. EntryOfKey' /\ TodoRemoved'
    BY <1>0, <2>2, Leaving DEF EntryOfKey, TodoRemoved
  <2>6. InUse'
    <3> SUFFICES ASSUME NEW o \in Ops, stage'[o] = "executing"
                 PROVE  \/ envs'[KeyOf[o]] = entry'[o] /\ active'[entry'[o]] = 1
                        \/ envs'[KeyOf[o]] = NoOp /\ Closing(KeyOf[o])'
      BY DEF InUse
    <3>1. o # op /\ stage[o] = "executing"
      BY <2>2, Leaving
    <3>2. KeyOf[o] # KeyOf[op]
      BY <1>0, <3>1, OneInside DEF StageInSlot
    <3>3. entry[o] # g /\ entry[o] \in Ops
      BY <1>0, <3>1, <3>2 DEF EntryOfKey
    <3> QED
      BY <1>0, <2>2, <3>1, <3>3 DEF EnvTypeInv, InUse, Closing
  <2>7. IdleUnused'
    <3> SUFFICES ASSUME NEW k \in Keys, envs[k] # NoOp
                 PROVE  \/ active'[envs[k]] = 0
                        \/ \E o \in Ops : stage'[o] = "executing" /\ KeyOf[o] = k
      BY <1>0 DEF IdleUnused
    <3>1. CASE k = KeyOf[op]
      BY <1>0, <2>1, <2>2, <3>1 DEF EnvTypeInv
    <3>2. CASE k # KeyOf[op]
      <4>1. envs[k] # g
        BY <1>0, <2>1, <3>2 DEF MapOfLive
      <4>2. active[envs[k]] = 0 \/ \E o \in Ops : stage[o] = "executing" /\ KeyOf[o] = k
        BY DEF IdleUnused
      <4>3. \A o \in Ops : stage[o] = "executing" /\ KeyOf[o] = k => stage'[o] = "executing"
        BY <2>2, <3>2, Leaving
      <4>4. envs[k] \in Ops
        BY DEF EnvTypeInv
      <4> QED
        BY <2>2, <4>1, <4>2, <4>3, <4>4 DEF EnvTypeInv
    <3> QED
      BY <3>1, <3>2
  <2>8. Warm' = Warm /\ Reserved' = Reserved
    BY <1>0, <2>2, Leaving DEF Warm, Reserved
  <2>9. StartsCounted' /\ EnvironmentsBounded'
    BY <1>0, <2>8 DEF StartsCounted, EnvironmentsBounded
  <2> QED
    BY <2>3, <2>4, <2>5, <2>6, <2>7, <2>9
<1> QED
  BY <1>1, <1>2

\* A call whose guest died discards it, unless a closer took it before.
LEMMA GuestFailedStep ==
  ASSUME IInv, SandboxInv, NEW op \in Ops, GuestFailed(op)
  PROVE  SandboxInv'
<1> USE DEF SandboxInv
<1>0. /\ stage[op] = "executing" /\ UNCHANGED <<schedVars, pc, entry, starting, closer>>
      /\ pc[op] = "holding"
  BY DEF GuestFailed, schedVars, StageInSlot
<1>1. PICK g \in Ops : g = entry[op] /\ KeyOf[g] = KeyOf[op]
  BY <1>0 DEF EntryOfKey
<1>2. CASE /\ envs[KeyOf[op]] = g
           /\ envs' = [envs EXCEPT ![KeyOf[op]] = NoOp]
           /\ guest' = [guest EXCEPT ![g] = "closing"]
           /\ timer' = timer \ {g}
           /\ stage' = Move(op, "discarding")
           /\ UNCHANGED active
  <2>1. EnvTypeInv' /\ TodoRemoved'
    <3>1. stage' \in [Ops -> Stages]
      BY <1>2 DEF EnvTypeInv, Move, Stages
    <3>2. envs' \in [Keys -> Ops \cup {NoOp}] /\ guest' \in [Ops -> GuestStates] /\ timer' \in SUBSET Ops
      BY <1>1, <1>2 DEF EnvTypeInv, GuestStates
    <3> QED BY <1>0, <1>2, <3>1, <3>2 DEF EnvTypeInv, TodoRemoved
  <2>2. \A o \in Ops : stage'[o] = IF o = op THEN "discarding" ELSE stage[o]
    BY <1>2 DEF EnvTypeInv, Move
  <2>3. \A o \in Ops : ~(stage'[o] = "executing" /\ KeyOf[o] = KeyOf[g])
    BY <1>0, <1>1, <2>2, OneInside DEF StageInSlot
  <2>4. /\ envs[KeyOf[g]] = g /\ envs' = [envs EXCEPT ![KeyOf[g]] = NoOp]
        /\ guest' = [guest EXCEPT ![g] = "closing"] /\ UNCHANGED <<pc, starting, active, entry>>
    BY <1>0, <1>1, <1>2 DEF schedVars
  <2>5. \A o \in Ops : \/ stage'[o] = stage[o]
                       \/ /\ stage[o] = "executing" /\ stage'[o] = "discarding"
                          /\ KeyOf[o] = KeyOf[g]
    BY <1>0, <1>1, <2>2
  <2>6. /\ EnvTypeInv' /\ TodoRemoved'
        /\ \A c \in Closers : closer[c].phase # "idle" => closer'[c].phase # "idle"
    BY <1>0, <2>1
  <2> QED
    BY <2>3, <2>4, <2>5, <2>6, RemoveGuest
<1>3. CASE /\ envs[KeyOf[op]] # g
           /\ Release(op, Move(op, "left"))
           /\ UNCHANGED <<envs, guest>>
  <2>1. envs[KeyOf[op]] = NoOp
    BY <1>0, <1>1, <1>3 DEF InUse
  <2> QED
    BY <1>0, <1>3, <2>1, LeaveVacant DEF Release
<1> QED
  BY <1>2, <1>1, <1>3 DEF GuestFailed

\* The discarded guest has closed: its key is still vacant.
LEMMA DiscardedStep ==
  ASSUME IInv, SandboxInv, NEW op \in Ops, Discarded(op)
  PROVE  SandboxInv'
BY LeaveVacant DEF Discarded, Release, SandboxInv, KeyVacant, Vacant

\* A cancelled call leaves the capacity queue.
LEMMA AbortOpStep ==
  ASSUME IInv, SandboxInv, NEW op \in Ops, AbortOp(op)
  PROVE  SandboxInv'
<1> USE DEF SandboxInv
<1>0. /\ UNCHANGED <<entry, envs, starting, guest, active, timer, closer>>
      /\ \A o \in Ops : pc[o] # "idle" => pc'[o] # "idle"
      /\ \A o \in Ops : pc[o] = "holding" => pc'[o] = "holding"
  BY DEF AbortOp, Abort, IInv, TypeInv
<1>1. \A o \in Ops : stage'[o] = stage[o]
                     \/ (stage[o] = "capacity" /\ stage'[o] = "left")
  <2>1. CASE stage[op] = "capacity"
    BY <2>1 DEF AbortOp, Move, EnvTypeInv
  <2>2. CASE stage[op] # "capacity"
    BY <2>2 DEF AbortOp
  <2> QED
    BY <2>1, <2>2
<1>2. EnvTypeInv' /\ TodoRemoved'
  BY <1>0 DEF AbortOp, Move, EnvTypeInv, Stages, TodoRemoved
<1>3. StageInSlot'
  BY <1>0, <1>1 DEF StageInSlot
<1> QED
  BY <1>0, <1>1, <1>2, <1>3, QuietStep

\* A call that has left the manager gives its slot back.
LEMMA ReturnStep ==
  ASSUME IInv, SandboxInv, NEW op \in Ops, Return(op)
  PROVE  SandboxInv'
<1> USE DEF SandboxInv
<1>0. /\ stage[op] = "left"
      /\ UNCHANGED <<stage, envs, starting, guest, active, timer, closer>>
      /\ entry' = [entry EXCEPT ![op] = NoOp]
  BY DEF Return
<1>1. \A o \in Ops \ {op} : pc'[o] = pc[o] \/ (pc[o] = "waiting" /\ pc'[o] = "ready")
  BY FinishEffect DEF Return
<1>2. pc'[op] = "settled"
  BY FinishEffect DEF Return
<1>3. EnvTypeInv' /\ TodoRemoved'
  BY <1>0 DEF EnvTypeInv, TodoRemoved
<1>4. StageInSlot'
  BY <1>0, <1>1 DEF StageInSlot
<1>5. \A o \in Ops : entry'[o] = entry[o] \/ stage[o] \notin {"executing", "discarding"}
  BY <1>0 DEF EnvTypeInv
<1> QED
  BY <1>0, <1>1, <1>2, <1>3, <1>4, <1>5, QuietStep

\* A guest finishes closing.
LEMMA GuestClosedStep ==
  ASSUME SandboxInv, NEW g \in Ops, GuestClosed(g)
  PROVE  SandboxInv'
<1> USE DEF SandboxInv, schedVars
<1>0. /\ UNCHANGED <<pc, entry, envs, starting, active, timer, closer>>
      /\ stage' = stage \/ stage' = Wake(stage)
      /\ guest[g] \in {"closing", "expiring"}
      /\ guest' = [guest EXCEPT ![g] = "closed"]
  BY DEF GuestClosed
<1>1. EnvTypeInv' /\ TodoRemoved'
  BY <1>0, Waking DEF EnvTypeInv, GuestStates, TodoRemoved
<1>2. \A o \in Ops : stage'[o] = stage[o] \/ (stage[o] = "capacity" /\ stage'[o] = "retry")
  BY <1>0, Waking
<1>3. StageInSlot'
  BY <1>0, <1>2 DEF StageInSlot
<1>4. ASSUME NEW o \in Ops
      PROVE  guest'[o] = guest[o]
             \/ (guest[o] \in {"closing", "expiring"} /\ guest'[o] = "closed")
  <2>1. guest'[o] = IF o = g THEN "closed" ELSE guest[o]
    BY <1>0 DEF EnvTypeInv
  <2> QED
    BY <1>0, <2>1
<1> QED
  BY <1>0, <1>1, <1>2, <1>3, <1>4, QuietStep

\* The idle timer takes a guest no call is counted on.
LEMMA ExpireStep ==
  ASSUME SandboxInv, NEW g \in Ops, Expire(g)
  PROVE  SandboxInv'
<1> USE DEF SandboxInv, schedVars
<1>0. /\ UNCHANGED <<pc, stage, entry, starting, active, closer>>
      /\ timer' = timer \ {g}
  BY DEF Expire
<1>1. CASE /\ active[g] = 0
           /\ envs[KeyOf[g]] = g
           /\ envs' = [envs EXCEPT ![KeyOf[g]] = NoOp]
           /\ guest' = [guest EXCEPT ![g] = "expiring"]
  <2>1. EnvTypeInv' /\ TodoRemoved'
    BY <1>0, <1>1 DEF EnvTypeInv, GuestStates, TodoRemoved
  <2>2. \A o \in Ops : ~(stage'[o] = "executing" /\ KeyOf[o] = KeyOf[g])
    BY <1>0, <1>1, SandboxAssumption DEF InUse
  <2> QED
    BY <1>0, <1>1, <2>1, <2>2, RemoveGuest
<1>2. CASE UNCHANGED <<envs, guest>>
  <2>1. EnvTypeInv' /\ TodoRemoved' /\ StageInSlot'
    BY <1>0, <1>2 DEF EnvTypeInv, TodoRemoved, StageInSlot
  <2> QED
    BY <1>0, <1>2, <2>1, QuietStep
<1> QED
  BY <1>1, <1>2 DEF Expire

\* closeAll empties the map: from here on its calls may lose their guests.
LEMMA CloseAllStep ==
  ASSUME SandboxInv, CloseAll
  PROVE  SandboxInv'
<1> USE DEF SandboxInv, schedVars
<1> DEFINE doomed == {envs[k] : k \in Warm}
<1>0. /\ UNCHANGED <<pc, stage, entry, starting, active>>
      /\ envs' = [k \in Keys |-> NoOp]
      /\ guest' = [g \in Ops |-> IF g \in doomed THEN "closing" ELSE guest[g]]
      /\ timer' = timer \ doomed
      /\ closer' = [closer EXCEPT !["all"].phase = "closing", !["all"].todo = doomed]
  BY DEF CloseAll
<1>1. doomed \subseteq Ops /\ \A g \in doomed : guest[g] = "live"
  BY DEF Warm, EnvTypeInv, MapOfLive
<1>2. \A g \in Ops : guest[g] = "live" => g \in doomed
  BY SchedulerAssumption, SandboxAssumption DEF Warm, NoOrphanGuest
<1> HIDE DEF doomed
<1>3. /\ closer' \in [Closers -> CloserStates]
      /\ closer'["all"].phase = "closing"
      /\ closer'["workspace"] = closer["workspace"]
  <2> DEFINE d == [closer["all"] EXCEPT !.phase = "closing", !.todo = doomed]
  <2>1. closer \in [Closers -> CloserStates] /\ "all" \in Closers /\ "workspace" \in Closers
    BY DEF EnvTypeInv, Closers
  <2>2. closer' = [closer EXCEPT !["all"] = d]
    BY <1>0, <2>1
  <2>3. d.phase = "closing" /\ d \in CloserStates
    BY <1>1, <2>1 DEF CloserStates
  <2> HIDE DEF d
  <2> QED BY <2>1, <2>2, <2>3
<1>4. EnvTypeInv'
  BY <1>0, <1>1, <1>3 DEF EnvTypeInv, GuestStates
<1>5. StageInSlot' /\ NotYetStarted' /\ MapOfLive' /\ NoOrphanGuest' /\ KeyVacant'
  BY <1>0, <1>1, <1>2, SchedulerAssumption
  DEF StageInSlot, NotYetStarted, Early, MapOfLive, NoOrphanGuest, KeyVacant
<1>6. EntryOfKey' /\ InUse' /\ IdleUnused' /\ TodoRemoved'
  BY <1>0, <1>3, SchedulerAssumption
  DEF EntryOfKey, InUse, IdleUnused, TodoRemoved, Closing
<1>7. Reserved' = Reserved /\ Warm' = {}
  BY <1>0 DEF Reserved, Warm
<1>8. StartsCounted'
  BY <1>0, <1>7 DEF StartsCounted
<1>9. Cardinality(Warm') = 0
  BY <1>7, FS_EmptySet
<1>10. EnvironmentsBounded'
  BY <1>0, <1>4, <1>5, <1>9, CountsFinite, BoundKept DEF EnvTypeInv
<1> QED
  BY <1>4, <1>5, <1>6, <1>8, <1>10

\* A closer that begins to close a workspace, or ends, takes no guest.
LEMMA CloserStep ==
  ASSUME SandboxInv, CloseWorkspace \/ AllClosed \/ WorkspaceClosed
  PROVE  SandboxInv'
<1> USE DEF SandboxInv, schedVars
<1>0. /\ UNCHANGED <<pc, entry, envs, starting, guest, active, timer>>
      /\ stage' = stage \/ stage' = Wake(stage)
  BY DEF CloseWorkspace, AllClosed, WorkspaceClosed
<1>1. \A o \in Ops : stage'[o] = stage[o] \/ (stage[o] = "capacity" /\ stage'[o] = "retry")
  BY <1>0, Waking
<1>2. stage' \in [Ops -> Stages]
  BY <1>0, Waking
<1>3. {envs[k] : k \in Warm \cap Removed} \subseteq {g \in Ops : KeyOf[g] \in Removed}
  BY SandboxAssumption DEF Warm, EnvTypeInv, MapOfLive
<1>4. /\ closer' \in [Closers -> CloserStates]
      /\ \A c \in Closers : closer[c].phase # "idle" => closer'[c].phase # "idle"
      /\ TodoRemoved'
  <2>0. /\ closer \in [Closers -> CloserStates] /\ \A c \in Closers : closer[c] \in CloserStates
        /\ "all" \in Closers /\ "workspace" \in Closers
    BY DEF EnvTypeInv, Closers
  <2>1. ASSUME NEW c \in Closers, NEW d \in CloserStates, closer' = [closer EXCEPT ![c] = d],
               d.phase # "idle", c = "workspace" => \A g \in d.todo : KeyOf[g] \in Removed
        PROVE  /\ closer' \in [Closers -> CloserStates]
               /\ \A b \in Closers : closer[b].phase # "idle" => closer'[b].phase # "idle"
               /\ TodoRemoved'
    BY <2>0, <2>1 DEF TodoRemoved
  <2>2. CASE CloseWorkspace
    <3> DEFINE d == [closer["workspace"] EXCEPT !.phase = "closing",
                                                !.todo = {envs[k] : k \in Warm \cap Removed}]
    <3>1. closer' = [closer EXCEPT !["workspace"] = d]
      BY <2>0, <2>2 DEF CloseWorkspace
    <3>2. d.phase = "closing" /\ d.todo = {envs[k] : k \in Warm \cap Removed} /\ d \in CloserStates
      BY <1>3, <2>0 DEF CloserStates
    <3> HIDE DEF d
    <3> QED BY <1>3, <2>0, <2>1, <3>1, <3>2
  <2>3. CASE AllClosed
    <3> DEFINE d == [closer["all"] EXCEPT !.phase = "done", !.todo = {}]
    <3>1. closer' = [closer EXCEPT !["all"] = d]
      BY <2>0, <2>3 DEF AllClosed
    <3>2. d.phase = "done" /\ d \in CloserStates
      BY <2>0 DEF CloserStates
    <3> HIDE DEF d
    <3> QED BY <2>0, <2>1, <3>1, <3>2
  <2>4. CASE WorkspaceClosed
    <3> DEFINE d == [closer["workspace"] EXCEPT !.phase = "done", !.current = NoOp]
    <3>1. closer' = [closer EXCEPT !["workspace"] = d] /\ closer["workspace"].todo = {}
      BY <2>0, <2>4 DEF WorkspaceClosed
    <3>2. d.phase = "done" /\ d.todo = closer["workspace"].todo /\ d \in CloserStates
      BY <2>0 DEF CloserStates
    <3> HIDE DEF d
    <3> QED BY <2>0, <2>1, <3>1, <3>2
  <2> QED
    BY <2>2, <2>3, <2>4
<1>5. EnvTypeInv' /\ StageInSlot'
  BY <1>0, <1>1, <1>2, <1>4 DEF EnvTypeInv, StageInSlot
<1> QED
  BY <1>0, <1>1, <1>4, <1>5, QuietStep

\* The removal of a workspace takes its guests one after the other.
LEMMA CloseNextStep ==
  ASSUME SandboxInv, NEW g \in Ops, CloseNext(g)
  PROVE  SandboxInv'
<1> USE DEF SandboxInv, schedVars
<1>0. /\ UNCHANGED <<pc, stage, entry, starting, active>>
      /\ closer["workspace"].phase = "closing" /\ KeyOf[g] \in Removed
  BY DEF CloseNext, TodoRemoved
<1>1. /\ closer' \in [Closers -> CloserStates]
      /\ closer'["workspace"].phase = "closing"
      /\ closer'["workspace"].todo \subseteq closer["workspace"].todo
      /\ closer'["all"] = closer["all"]
  BY DEF CloseNext, EnvTypeInv, Closers, CloserStates
<1>2. TodoRemoved' /\ \A c \in Closers : closer[c].phase # "idle" => closer'[c].phase # "idle"
  BY <1>1 DEF TodoRemoved, Closers
<1>3. CASE /\ envs[KeyOf[g]] = g
           /\ envs' = [envs EXCEPT ![KeyOf[g]] = NoOp]
           /\ guest' = [guest EXCEPT ![g] = "closing"]
           /\ timer' = timer \ {g}
  <2>1. EnvTypeInv'
    BY <1>0, <1>1, <1>3 DEF EnvTypeInv, GuestStates
  <2>2. Closing(KeyOf[g])'
    BY <1>0, <1>1 DEF Closing
  <2> QED
    BY <1>0, <1>2, <1>3, <2>1, <2>2, RemoveGuest
<1>4. CASE UNCHANGED <<envs, guest, timer>>
  <2>1. EnvTypeInv' /\ StageInSlot'
    BY <1>0, <1>1, <1>4 DEF EnvTypeInv, StageInSlot
  <2> QED
    BY <1>0, <1>2, <1>4, <2>1, QuietStep
<1> QED
  BY <1>3, <1>4 DEF CloseNext

-----------------------------------------------------------------------------
(* The scheduler's steps, and the theorems. *)

\* Every step of the manager is a step of the scheduler or leaves it alone: an
\* operation returns from the callback exactly when its slot is given back.
LEMMA StepOfScheduler == [SandboxNext]_vars => [SchedNext]_schedVars
<1>1. ASSUME SandboxNext PROVE [SchedNext]_schedVars
  <2>1. ASSUME NEW op \in Ops, Call(op) \/ Progress(op) \/ AbortOp(op)
        PROVE  [SchedNext]_schedVars
    BY <2>1 DEF SchedNext, Progress, AbortOp, Acquire, Retry, Evicted, Started, StartFailed,
                Executed, GuestFailed, Discarded, Return
  <2>2. ASSUME NEW op \in Ops, GuestClosed(op) \/ Expire(op)
        PROVE  UNCHANGED schedVars
    BY <2>2 DEF GuestClosed, Expire
  <2>3. ASSUME CloseAll \/ CloseWorkspace \/ CloserProgress
        PROVE  UNCHANGED schedVars
    BY <2>3 DEF CloseAll, CloseWorkspace, CloserProgress, AllClosed, CloseNext,
                WorkspaceClosed
  <2> QED
    BY <1>1, <2>1, <2>2, <2>3 DEF SandboxNext
<1>2. UNCHANGED vars => UNCHANGED schedVars
  BY DEF vars
<1> QED
  BY <1>1, <1>2

\* The manager keeps the scheduler's behaviour: what is proved of the scheduler
\* holds of it.
THEOREM ImplementsScheduler == SandboxSpec => SchedSpec
<1>1. SandboxInit => SchedInit
  BY DEF SandboxInit
<1> QED
  BY <1>1, StepOfScheduler, PTL DEF SandboxSpec, SchedSpec

\* Every step preserves the invariant.
LEMMA NextSandboxInv == IInv /\ SandboxInv /\ [SandboxNext]_vars => SandboxInv'
<1> SUFFICES ASSUME IInv, SandboxInv, [SandboxNext]_vars PROVE SandboxInv'
  OBVIOUS
<1>1. ASSUME NEW op \in Ops, Call(op) /\ UNCHANGED envVars
      PROVE  SandboxInv'
  BY <1>1, SchedulerStep DEF Call, IInv, TypeInv
<1>2. ASSUME NEW op \in Ops, Progress(op)
      PROVE  SandboxInv'
  <2>1. CASE (PreviousResolved(op) \/ TakeSlot(op) \/ AwaitSlot(op)) /\ UNCHANGED envVars
    BY <2>1, SchedulerStep DEF PreviousResolved, TakeSlot, AwaitSlot, IInv, TypeInv
  <2> QED
    BY <1>2, <2>1, AcquireStep, RetryStep, EvictedStep, StartedStep, StartFailedStep,
       ExecutedStep, GuestFailedStep, DiscardedStep, ReturnStep DEF Progress
<1>3. ASSUME NEW op \in Ops, AbortOp(op) \/ GuestClosed(op) \/ Expire(op)
      PROVE  SandboxInv'
  BY <1>3, AbortOpStep, GuestClosedStep, ExpireStep
<1>4. ASSUME CloseAll \/ CloseWorkspace \/ CloserProgress
      PROVE  SandboxInv'
  BY <1>4, CloseAllStep, CloserStep, CloseNextStep DEF CloserProgress
<1>5. CASE UNCHANGED vars
  BY <1>5, SchedulerStep DEF vars, schedVars
<1> QED
  BY <1>1, <1>2, <1>3, <1>4, <1>5 DEF SandboxNext

\* The invariant of the manager holds in every reachable state.
THEOREM SandboxInductive == SandboxSpec => []SandboxInv
<1>1. SandboxSpec => []IInv
  BY ImplementsScheduler, Inductive, PTL
<1> QED
  BY <1>1, InitSandboxInv, NextSandboxInv, PTL DEF SandboxSpec

\* Every variable of scheduler and manager keeps its type.
THEOREM SandboxTypeCorrect == SandboxSpec => []SandboxTypeOK
<1>1. SandboxSpec => []SchedTypeOK
  BY ImplementsScheduler, TypeCorrect, PTL
<1>2. SandboxInv /\ SchedTypeOK => SandboxTypeOK
  BY DEF SandboxInv, EnvTypeInv, SandboxTypeOK
<1> QED
  BY <1>1, <1>2, SandboxInductive, PTL

\* Outside closeAll and the removal of its workspace, no step of anybody takes
\* the guest away under the call that executes in it.
THEOREM GuestKept == SandboxSpec => []GuestKeptWhileInUse
<1>1. SandboxInv => GuestKeptWhileInUse
  BY SchedulerAssumption, SandboxAssumption
  DEF SandboxInv, GuestKeptWhileInUse, InUse, EntryOfKey, MapOfLive, Closing
<1> QED
  BY <1>1, SandboxInductive, PTL

\* A live guest is always in the map.
THEOREM NoGuestLost == SandboxSpec => []NoOrphanGuest
<1>1. SandboxInv => NoOrphanGuest
  BY DEF SandboxInv
<1> QED
  BY <1>1, SandboxInductive, PTL

\* Warm guests and reserved starts stay within the most permissive limit.
THEOREM LimitKept == SandboxSpec => []EnvironmentsBounded
<1>1. SandboxInv => EnvironmentsBounded
  BY DEF SandboxInv
<1> QED
  BY <1>1, SandboxInductive, PTL

\* Operations of one environment are serialized inside the manager as well.
THEOREM OneUserPerEnvironment == SandboxSpec => []OneOperationPerEnvironment
BY ImplementsScheduler, MutualExclusion, PTL
============================================================================
