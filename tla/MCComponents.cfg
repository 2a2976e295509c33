SPECIFICATION ComponentsSpec
CONSTANTS
  Int64s <- MCInt64s
  Strings <- MCStrings
  Doubles <- MCDoubles
  Floats <- MCDoubles
  Uint32s <- MCUint32s
  ConstraintLevels <- MCConstraintLevels
  Write_QueryConstraint <- WriteConstraint
  Read_QueryConstraint <- ReadConstraint
  InterestMaps <- MCInterestMaps
  MaxInFlight = 3
INVARIANTS
  NothingIsLostOnTheWay
  ACompleteUpdateIsData
