SPECIFICATION FairSpec
CONSTANTS
  InitialCapacity = 10
  Growth = 2
  MaxCapacity = 14
  UserBuffer = 2
  Instances <- MCInstances
  Requests <- MCRequests
  Responses <- MCResponses
  MaxRequests <- MCMaxRequests
  Capacity <- MCCapacity
  Moves <- MCMoves
INVARIANTS
  BodiesAreWhole
  AnswersMatch
  NothingLost
PROPERTIES
  Answered
CHECK_DEADLOCK FALSE
