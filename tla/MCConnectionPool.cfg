SPECIFICATION FairSpec
CHECK_DEADLOCK FALSE
CONSTANTS
  Requests = {r1, r2, r3}
  Threads = 2
  PoolSize = 1
INVARIANTS
  ConnectionHeldOnce
  CheckedOutClean
  StallTakesAFullHouse
PROPERTIES
  EveryRequestEnds
