CONSTANTS
  Client = {c1}
  Conn = Conn
  MaxSessions = 2
SPECIFICATION FairSpec
INVARIANTS
  TypeOK
  ClosedMeansReset
PROPERTIES
  ShutdownFollowsStarted
  ImplementsLifecycle
  Reconnects
  EveryRequestReturns
CHECK_DEADLOCK FALSE
