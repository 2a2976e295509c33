CONSTANTS
  Position = Position
  NoComponent = NoComponent
  Deleted = Deleted
  Components <- MCComponents
  Ops <- MCOps
  MaxKeys = 2
  MaxDepth = 1
  RemoteOps <- MCRemoteOps
  DisconnectOp <- MCDisconnectOp
  EchoOp <- MCEchoOp
  MaxOps = 3
  Ports <- MCPorts
  MaxArguments = 5

SPECIFICATION WorkersSpec

INVARIANTS
  WorkersTypeOK
  NothingLost
  LagsOnlyBehindTheQueue
  ReportsDisconnect
  EchoesDoNotPileUp
  ExitsOnlyWhenDown

PROPERTIES
  EndsWhenDown

CHECK_DEADLOCK FALSE
