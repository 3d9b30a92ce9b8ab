SPECIFICATION BridgeSpec
CONSTANT MaxChunks = 2

  
PROPERTIES
  NoOrphan
  CleanupEnds
CHECK_DEADLOCK FALSE
