SPECIFICATION FairSpec
CONSTANTS
  Calls = {c1, c2, c3, c4}
  Keys = {k1, k2}
  MaxConnectionsPerHost = 1
  MaxConcurrentRequests = 2
PROPERTIES
  CallsFinishUnlessUnwound
  HostsAreIndependent
CHECK_DEADLOCK FALSE
