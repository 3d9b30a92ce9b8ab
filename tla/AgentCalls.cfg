SPECIFICATION Spec
CONSTANTS
  alice = alice
  bob = bob
  carol = carol
  Agents <- MCAgents
  Allowed <- MCAllowed
  Human = human
  MaxCalls = 4
  MaxTools = 1
INVARIANTS
  ChainIsLineage
  
  NoSelfDeadlock
PROPERTIES
  CallsEnd
