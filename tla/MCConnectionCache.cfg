\* Safety of the pool: six calls to two hosts, two connections a host, four
\* concurrent requests, so that calls queue on both timers and new calls
\* overtake resumed ones.
SPECIFICATION Spec
CONSTANTS
  Calls = {c1, c2, c3, c4, c5, c6}
  Keys = {k1, k2}
  MaxConnectionsPerHost = 2
  MaxConcurrentRequests = 4
SYMMETRY Symmetry
INVARIANTS
  TypeOK
  NoSharedConnection
  SlotsConserved
  RequestsConserved
  NoLostHostWakeup
  NoLostRequestWakeup
  QueuesMatchSuspensions
  NoStandstill
\* The system stops when every call has finished or is stuck behind a leak.
PROPERTY ImplementsPool
CHECK_DEADLOCK FALSE
