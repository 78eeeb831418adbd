SPECIFICATION FairSpec
CONSTANTS
  Client = client
  Server = server
  Peer <- MCPeer
  HoldPeers = {server}
  SendBuffers = 2
  RecBuffers = 2
  AckSize = 2
  SendAckMax = 1
  PidMod = 16
  MaxPackets <- MCPackets
  WireBound <- OneEach
INVARIANTS
  TypeOK
  PurgedHasArrived
  NoReceiveDeadlock
PROPERTIES
  IsFifo
  AllArrive
CHECK_DEADLOCK FALSE
