CONSTANTS
  server = server
  cli = cli
  w1 = w1
  w2 = w2
  w3 = w3
  NoOne = NoOne
  Procs <- MCProcs
  Workers <- MCWorkers
  ProcOf <- MCProcOf
  Orphans = TRUE
  OrphanRewrites = 0
  LegacyRows = 1
  MaxTurns = 3
  MaxRewrites = 1
  MaxToolEvents = 1
  MaxFaults = 2
SPECIFICATION Spec
SYMMETRY Twins
INVARIANTS
  NothingLost
  LogSound
PROPERTIES
  TurnLogSpec
CHECK_DEADLOCK FALSE
