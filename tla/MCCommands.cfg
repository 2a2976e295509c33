SPECIFICATION FairSpec
CONSTANTS
  w1 = w1
  w2 = w2
  Nobody = Nobody
  Workers <- MCWorkers
  Int64s <- MCInt64s
  Strings <- MCStrings
  Discs <- MCDiscs
  Failures <- MCFailures
  MaxRequests = 2
  MaxAnswers = 1
INVARIANTS
  RequestsArriveAsSent
  AnswersAreTheHandlers
PROPERTIES
  CommandsAreRemoteCalls
  EveryCallIsAnswered
