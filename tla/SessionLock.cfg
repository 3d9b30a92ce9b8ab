CONSTANTS
  server = server
  cli = cli
  g1 = g1
  g2 = g2
  g3 = g3
  c1 = c1
  NoOne = NoOne
  Procs <- MCProcs
  Servers <- MCServers
  Goroutines <- MCGoroutines
  Cancellers <- MCCancellers
  ProcOf <- MCProcOf
  MaxSpawns = 1
SPECIFICATION FairSpec
INVARIANTS
  RecordsAgree
PROPERTIES
  MutexSpec
  CancelFreesLock
CHECK_DEADLOCK FALSE
