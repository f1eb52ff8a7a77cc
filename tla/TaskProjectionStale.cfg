SPECIFICATION ProjSpec
CONSTANTS
  ta = ta  tb = tb
  u = u  v = v
  NoTurn = NoTurn
  NoEvent = NoEvent
  Tasks <- MCTasks
  Turns <- MCTurns
  TaskOf <- MCTaskOf
  BatchSize = 2
  MaxDeltas = 1
  MaxFaults = 0
  MayExit = {}
INVARIANTS
  NoTaskLeftActive
CHECK_DEADLOCK FALSE
