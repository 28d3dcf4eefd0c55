\* Three calls to one host: one rest_call that throws empties a slot for good.
SPECIFICATION Spec
CONSTANTS
  Calls = {c1, c2, c3}
  Keys = {k1}
  MaxConnectionsPerHost = 2
  MaxConcurrentRequests = 3
INVARIANT EmptySlotIsInUse
CHECK_DEADLOCK FALSE
