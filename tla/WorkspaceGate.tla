--------------------------- MODULE WorkspaceGate ---------------------------
(***************************************************************************)
(* What VmScheduler promises its callers, without queues, counters or      *)
(* wake-ups: an operation may touch the guest of its key only while no     *)
(* other operation of that key does and fewer operations than its own      *)
(* limit are inside; it goes in at most once, and may give up before.      *)
(***************************************************************************)
EXTENDS Naturals, FiniteSets

CONSTANTS Ops, KeyOf, SlotLimit

VARIABLES
  inside,   \* operations inside their callbacks
  over      \* operations that have settled

gateVars == <<inside, over>>

GateInit == inside = {} /\ over = {}

Enter(op) ==
  /\ op \notin inside \cup over
  /\ \A other \in inside : KeyOf[other] # KeyOf[op]
  /\ Cardinality(inside) < SlotLimit[op]
  /\ inside' = inside \cup {op}
  /\ UNCHANGED over

Leave(op) ==
  /\ op \in inside
  /\ inside' = inside \ {op}
  /\ over' = over \cup {op}

GiveUp(op) ==
  /\ op \notin inside \cup over
  /\ over' = over \cup {op}
  /\ UNCHANGED inside

GateNext == \E op \in Ops : Enter(op) \/ Leave(op) \/ GiveUp(op)

GateSpec == GateInit /\ [][GateNext]_gateVars
=============================================================================
