CONSTANTS
  Position = Position
  Metadata = Metadata
  NoComponent = NoComponent
  Deleted = Deleted
  e1 = e1
  e2 = e2
  v1 = v1
  v2 = v2
  ComponentList <- MCComponentList
  Components <- MCComponents
  EntityIds <- MCEntityIds
  Values <- MCValues
  Ops <- ViewOps
  MaxKeys = 11
  MaxDepth = 2

SPECIFICATION ViewSpec

INVARIANTS
  KnowsTheWorld

SYMMETRY MCSymmetry
