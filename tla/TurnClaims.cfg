SPECIFICATION FairClaimSpec
CONSTANTS
  task1 = task1
  c1 = c1  c2 = c2  r1 = r1  r2 = r2
  NoTurn = NoTurn
  Tasks <- MCTasks
  Turns <- MCTurns
  TaskOf <- MCTaskOf
  Remote <- MCRemote
INVARIANTS
  ClaimTypeOK
  OneTurnPerTask
  ClaimHeldWhileRunning
PROPERTIES
  ComposerClaimReleased
CHECK_DEADLOCK FALSE
