SPECIFICATION FairSpec
CONSTANTS
  MaxSessions = 2
  QueueBound = 2
  TIMEOUT_RETRIES = 1
INVARIANTS
  TypeOK
  NoStaleEvents
  DestroyBlocksOnlyAfterFailedInit
  NothingLeftBehind
PROPERTIES
  SwitchKeepsDevice
  StopCompletes
CHECK_DEADLOCK FALSE
