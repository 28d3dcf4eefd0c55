\* Four visits to one host.
SPECIFICATION FairToolSpec
CONSTANTS
  Calls = {c1, c2, c3, c4}
  Keys = {k1}
  MaxConnectionsPerHost = 2
  MaxConcurrentRequests = 3
INVARIANTS
  CacheOutlivesCalls
  NoLostCompletion
PROPERTY ProgramEnds
CHECK_DEADLOCK FALSE
