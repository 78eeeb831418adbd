SPECIFICATION Spec
CONSTANTS
  MaxStarts = 2
  MaxStops = 1
PROPERTIES
  OldIsExited
CHECK_DEADLOCK FALSE
