\* Three calls on one connection object.
SPECIFICATION FairSpec
CONSTANT Calls = {1, 2, 3}
INVARIANTS
  TypeOK
  SentAgainOnlyAfterReuse
PROPERTIES
  StopIsFinal
  ImplementsExchange
  AnswersUnlessStale
  DrainedUnlessStale
  RestCallEnds
\* The system stops when the calls are over or the connection is destroyed.
CHECK_DEADLOCK FALSE
