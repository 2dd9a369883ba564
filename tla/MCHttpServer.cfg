CONSTANTS
  ThreadNums = {0, 2}
  PageFound = TRUE
  MaxConns = 2
  MaxLines = 2
  MaxFails = 1
  Garbage <- AnyGarbage
SPECIFICATION FairSpec
CHECK_DEADLOCK FALSE
INVARIANTS
  TypeOK
  PoolHasLoops
  Balanced
  Watched
PROPERTIES
  RequestAnswered
