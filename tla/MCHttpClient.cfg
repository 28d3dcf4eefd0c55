SPECIFICATION FairClientSpec
CONSTANTS
  Calls = {c1, c2, c3}
  Keys = {k1}
  MaxConnectionsPerHost = 1
  MaxConcurrentRequests = 2
  WatchedKey = k1
  WatchedSlot = 1
  Stoppable = {c1}
INVARIANTS
  ClientTypeOK
  PoolAtRest
PROPERTIES
  ObjectsAreUsedInTurn
  ServedUnlessOvertaken
CHECK_DEADLOCK FALSE
