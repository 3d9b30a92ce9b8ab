CONSTANTS
  Configs <- MCConfigs
  Unset = Unset
  DefaultMaxAutoContinuations = 2
  DefaultMaxAutoContinuationsA2A = 1
  MaxToolTurns = 2
  FailureBreakerThreshold = 2
  Repeated = Repeated
  BadArguments = BadArguments
  Signatures <- MCSignatures
  SchemaSignatures <- MCSchemaSignatures
  Images = {i1}
  Budget = 2
  MaxSize = 2
  MaxBatch = 2
SPECIFICATION FairSpec
INVARIANTS
  BudgetsHold
  ContinuesOnUser
  
  ImagesAnswered
  BreakerIsExact
PROPERTIES
  TurnEnds
CHECK_DEADLOCK FALSE
