SPECIFICATION RunnerAlone
CONSTANTS
  MaxOut = 3
  PipeChunk = 2
  DiskLimit = 1
  MaxAsks = 2
  Preparations = {}
  Wheels = {}
  PyVersions = {}
  NoVersion = NoVersion
  WheelsOf = 0
INVARIANTS GroupCleaned
CHECK_DEADLOCK FALSE
