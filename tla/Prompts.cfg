SPECIFICATION FairPromptsSpec
CONSTANTS
  Commands = {"c1", "c2", "c3"}
  Agents = {"a", "b"}
  Setups <- MCSetups
  Outputs <- MCOutputs
  Vars = {"KEY", "HOME", "EXTRA"}
  Locked = {"HOME"}
  DotEnv <- MCDotEnv
  KeyVar = "KEY"
  ArgVars = {"EXTRA", "HOME"}
  Messages <- MCMessages
  Images <- MCImages
  TextCap = 4
  TurnCap = 8
  Kept = 2
  Note = 1
  NoNumber = 99
  MaxLines = 2
  MayDetach = TRUE
INVARIANTS
  AnswersMatchTheLog
  HooksKeepTheirPlace
CHECK_DEADLOCK FALSE
PROPERTIES
  PromptsEnd
