SPECIFICATION FairSandboxSpec
CONSTANTS
  a1 = a1  a2 = a2  b1 = b1
  ka = ka  kb = kb
  NoOp = NoOp
  Ops <- MCOps
  Keys <- MCKeys
  KeyOf <- MCKeyOf
  SlotLimit <- MCSlotLimit
  EnvLimit <- MCEnvLimit
  Removed <- MCRemoved
INVARIANTS
  SandboxTypeOK
  GuestKeptWhileInUse
  NoOrphanGuest
  EnvironmentsBounded
CHECK_DEADLOCK FALSE
PROPERTIES
  EveryCallSettles
