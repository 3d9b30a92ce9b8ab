CONSTANTS
  Cursors <- MCCursors
  BatchSize = 1
  WakeCap = 1
  History = 2
  MaxTurns = 2
  MaxRewrites = 2
  MaxFaults = 1
SPECIFICATION FairSpec

  
PROPERTIES
  Delivered
CHECK_DEADLOCK FALSE
