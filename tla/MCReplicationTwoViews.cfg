SPECIFICATION Spec
CONSTANTS
  open = open
  closed = closed
  position = position
  o1 = o1
  o2 = o2
  RequirementSets = {open, closed}
  NoRequirement = closed
  ComponentIds = {position}
  Nothing = Nothing
  Addresses = {draft, o1, o2}
  Null = Null
  UpdateObject = draft
  Views = {v1, v2}
  NoData = NoData
  NoAnswer = NoAnswer
  MaxSends = 2
  MaxChanges = 2
INVARIANTS
  AnswersAreTrue
