SPECIFICATION FairSpec
CONSTANTS
  MaxSessions = 1
  QueueBound = 2
  TIMEOUT_RETRIES = 2
PROPERTIES
  ConnectResolves
CHECK_DEADLOCK FALSE
