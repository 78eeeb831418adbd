SPECIFICATION FairSpec
CONSTANTS
  Client = client
  Server = server
  KeyIdMask = 2
  HandshakeWindow = 1
  TransitionWindow = 3
  RenegotiateAfter = 3
  Reorders = FALSE
  Loses = TRUE
  MaxGen = 3
  WireBound = 1
INVARIANTS
  TypeOK
  DataFlows
  AlwaysAKey
PROPERTIES
  KeysMeet
CHECK_DEADLOCK FALSE
