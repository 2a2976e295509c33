SPECIFICATION SessionSpec
CONSTANTS
  Boundaries <- MCBoundaries
  Gauges = {"fps"}
  BuiltInGauges = {"fps"}
  Values = {1, 2}
  Infinity = 9
  MaxObservations = 2
  MaxSends = 2
  Registry = {"Position", "Color"}
  ClientRegistry = {"Position", "Color"}
  ConstraintLevels <- MCConstraintLevels
  Null = Null
  NewEntities <- MCNewEntities
  QuerySet <- MCQuerySet
  FirstWorld <- MCFirstWorld
  MaxRequests = 3
  MaxInFlight = 2
CHECK_DEADLOCK FALSE
INVARIANTS
  TheResultComesOnce
  ObservationsCountOnce
  AnswersMeanWhatTheySay
  QueriesFindWhatTheyDescribe
