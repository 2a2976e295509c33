CONSTANTS
  Position = Position
  NoComponent = NoComponent
  Deleted = Deleted
  Components <- MCComponents
  Ops <- MCOps
  MaxKeys = 4
  MaxDepth = 3

SPECIFICATION Spec

INVARIANTS
  TypeOK
  RunningCallbackStored
  ParkedChangesSound
  RemoveAcceptsCurrent

PROPERTIES
  IterationStable
  RemovedStaysRemoved
  ImplementsCopying

CHECK_DEADLOCK FALSE
