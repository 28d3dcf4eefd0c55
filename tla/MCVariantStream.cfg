\* Names of up to three endpoints, tcp and tls, any number of connects.
SPECIFICATION FairSpec
CONSTANT MaxEndpoints = 3
INVARIANTS
  TypeOK
  FrameOutlivesHandlers
  NoLostCvWakeup
  ResolvedOrFailed
PROPERTIES
  StopEndsTheStep
  ImplementsStream
  ConnectEnds
