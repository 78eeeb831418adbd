SPECIFICATION Spec
CONSTANTS
  Addr = {a, b}
  Home = a
  None = None
  RetransmitTries = 1
  ProbeTries = 1
  MaxChanges = 3
  WireBound = 2
INVARIANTS
  AddressesAgree
CHECK_DEADLOCK FALSE
