SPECIFICATION FairSpec
CONSTANTS
  Addr = {a, b}
  Home = a
  None = None
  RetransmitTries = 1
  ProbeTries = 1
  MaxChanges = 3
  WireBound = 1
INVARIANTS
  TypeOK
  OneTimer
  AnswersFit
  RoamNoticed
PROPERTIES
  RoamSettles
CHECK_DEADLOCK FALSE
