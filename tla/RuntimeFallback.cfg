CONSTANTS
  primary = primary
  secondary = secondary
  ChainLen = 3
  Backends <- MCBackends
  BackendOf <- MCBackendOf
  Cap = 1
  MaxItems = 1
  MaxMarks = 1
SPECIFICATION FairSpec
INVARIANTS
  BackendsKeptApart
  FailureReported
PROPERTIES
  WalkEnds
CHECK_DEADLOCK FALSE
