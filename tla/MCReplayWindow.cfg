SPECIFICATION Spec
CONSTANTS
  PACKET_ID_MAX = 4
  SEQ_REAP_INTERVAL = 2
  Options <- MCOptions
  StartTime = 2
  MaxSendTime = 3
  MaxTime = 6
INVARIANTS
  TypeOK
  NoReplay
  NextIsFresh
  LateIsAccepted
  TooLateIsRefused
CHECK_DEADLOCK FALSE
