CONSTANTS
  QueueMax = 2
  LocalMax = 2
  WireMax = 1
  MaxPublished = 4
  MaxFailures = 1
  MaxConns = 2
SPECIFICATION FairEvSpec
INVARIANTS EvTypeOK NoInvalidationForgotten
PROPERTIES EveryInvalidationAskedFor DeadSubscribersLeave
CHECK_DEADLOCK FALSE
