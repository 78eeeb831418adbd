SPECIFICATION Spec
CONSTANTS
  Client = client
  Server = server
  KeyIdMask = 2
  HandshakeWindow = 1
  TransitionWindow = 3
  RenegotiateAfter = 3
  Reorders = TRUE
  Loses = FALSE
  MaxGen = 2
  WireBound = 2
INVARIANTS
  DataFlows
CHECK_DEADLOCK FALSE
