SPECIFICATION PadSpec
CONSTANTS
  p1 = p1
  p2 = p2
  s1 = s1
  s2 = s2
  s3 = s3
  Procs <- MCProcs
  Ids <- MCIds
  Texts <- MCTexts
  Outputs <- MCOutputs
  Ref = "macro"
  Cap = 1
  FreshSlugs = TRUE
  MaxRead = 2
  MaxCreates = 3
SYMMETRY Symmetry
INVARIANTS
  EvictionSound
  ReadsWhatWasStored
CHECK_DEADLOCK FALSE
