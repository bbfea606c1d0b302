CONSTANTS
  c1 = c1
  c2 = c2
  Server = Server
  Destinations <- MCDestinations
  Endpoints <- MCEndpoints
  Name <- MCName
  PoolSize = 3
  QueueMax = 1
SPECIFICATION FairSpec
INVARIANTS
  TypeOK
  NoJobIsForgotten
  HandlesAreCounted
  BoundOnce
  DiesOnlyOfAFailedBind
  ArgumentsArrive
  RepliesArrive
  IInv
PROPERTIES
  EveryRequestReturns
CHECK_DEADLOCK FALSE
