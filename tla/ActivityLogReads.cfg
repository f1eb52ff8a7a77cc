SPECIFICATION LogSpec
CONSTANTS
  Segments = {s1, s2}
  MaxCalls = 4
  BatchSize = 1
  CompactAt = 3
  Failing = {"append", "replace"}
  Overlap = TRUE
INVARIANTS
  AppendsSurviveReads
CHECK_DEADLOCK FALSE
