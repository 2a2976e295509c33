CONSTANTS
  left = left
  right = right
  Maps = {left, right}
  Keys <- MCKeys
  Values <- MCValues
  Default = 0
  n1 = n1
  n2 = n2
  n3 = n3
  n4 = n4
  n5 = n5
  Nodes = {n1, n2, n3, n4, n5}
  None = None
  StdHash <- MCStdHash
  HashRange = 65536

SYMMETRY AnyNodes

SPECIFICATION Spec

INVARIANTS
  LookupExact
  IteratorValid
  EqualityOfMappings
  HashMatchesEquality

PROPERTIES
  ImplementsInsertionOrder
