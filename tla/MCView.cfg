CONSTANTS
  Position = Position
  Metadata = Metadata
  NoComponent = NoComponent
  Deleted = Deleted
  e1 = e1
  e2 = e2
  v1 = v1
  v2 = v2
  ComponentList <- MCOneComponent
  Components <- MCComponents
  EntityIds <- MCEntityIds
  Values <- MCValues
  Ops <- ViewOps
  MaxKeys = 7
  MaxDepth = 1

SPECIFICATION ViewSpec

INVARIANTS
  MapsAgree
  KnowsTheWorld
  NeverMissesAGain
  CallbacksFindTheirSubject

SYMMETRY MCSymmetry
