SPECIFICATION FairSpec
CONSTANTS
  MaxStarts = 1
  MaxStops = 2
INVARIANTS
  TypeOK
PROPERTIES
  StartResolves
  StopEnds
CHECK_DEADLOCK FALSE
