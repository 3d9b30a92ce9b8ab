SPECIFICATION FairSpec
CONSTANTS
  Levels = 2
  Retries = 1
  MaxToolTurns = 1
  Tight = FALSE
  MajorEvery = 2
  MemoryMax = 2
  Claims = {c1}
  MaxTurns = 3
  MaxPasses = 2
  MaxDenied = 1
  MaxFaults = 1
INVARIANTS
  
  
  MajorsAlternate
  ResolvedStays
  AsideMissesNothing
PROPERTIES
  PassesEnd
CHECK_DEADLOCK FALSE
