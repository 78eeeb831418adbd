SPECIFICATION FairSpec
CONSTANTS
  Networks <- TwoNetworks
  MaxEvents = 3
  MaxRestarts = 0
PROPERTY
  ScreenOnConnects
CHECK_DEADLOCK FALSE
