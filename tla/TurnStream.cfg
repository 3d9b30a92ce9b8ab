SPECIFICATION Spec
CONSTANTS
  t1 = t1
  t2 = t2
  Tools <- MCTools
  Signatures <- MCSignatures
  Sig <- MCSig
  ItemCap = 1
  WarningCap = 1
  StreamCap = 1
  MaxChunks = 1
  MaxWarnings = 1
INVARIANTS
  EndIsTold
  PairsBySignature
PROPERTIES
  ShipsAhead
  EventsArePushed
  CallEnds
CHECK_DEADLOCK FALSE
