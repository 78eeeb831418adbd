SPECIFICATION FairSpec
CONSTANTS
  Networks <- TwoNetworks
  MaxEvents = 5
  MaxRestarts = 1
INVARIANTS
  TypeOK
  HoldIsScheduled
PROPERTY
  HeldIsReleased
CHECK_DEADLOCK FALSE
