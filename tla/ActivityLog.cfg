SPECIFICATION LogSpec
CONSTANTS
  Segments = {s1, s2}
  MaxCalls = 4
  BatchSize = 2
  CompactAt = 2
  Failing = {"append", "replace"}
  Overlap = FALSE
INVARIANTS
  LogTypeOK
  LogReplayable
  FieldsAgree
PROPERTIES
  HistoryRefined
CHECK_DEADLOCK FALSE
