SPECIFICATION FairProjSpec
CONSTANTS
  ta = ta  tb = tb
  u = u  v = v
  NoTurn = NoTurn
  NoEvent = NoEvent
  Tasks <- MCTasks
  Turns <- MCTurns
  TaskOf <- MCTaskOf
  BatchSize = 2
  MaxDeltas = 2
  MaxFaults = 1
  MayExit <- MCMayExit
INVARIANTS
  ProjTypeOK
  DeltasInOrder
  DeltasBeforeEnd
PROPERTIES
  QueueDrains
CHECK_DEADLOCK FALSE
