SPECIFICATION Spec
CONSTANTS
  Levels = 1
  Retries = 0
  MaxToolTurns = 1
  Tight = FALSE
  MajorEvery = 0
  MemoryMax = 0
  Claims = {}
  MaxTurns = 6
  MaxPasses = 2
  MaxDenied = 0
  MaxFaults = 0
INVARIANT FreshStart
CHECK_DEADLOCK FALSE
