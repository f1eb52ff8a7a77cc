SPECIFICATION FairSchedSpec
CONSTANTS
  a1 = a1  a2 = a2  a3 = a3  b1 = b1  c1 = c1
  ka = ka  kb = kb  kc = kc
  Ops <- MCOps
  Keys <- MCKeys
  KeyOf <- MCKeyOf
  SlotLimit <- MCSlotLimit
INVARIANTS
  SchedTypeOK
  OneOperationPerEnvironment
  SlotsBounded
PROPERTIES
  GateRefined
  NoCallLeftBehind
CHECK_DEADLOCK FALSE
