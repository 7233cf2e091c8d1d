CONSTANTS
  Client = {c1}
  Conn = Conn
  MaxSessions = 1
SPECIFICATION Spec
INVARIANT DeferredShutdownHandled
CHECK_DEADLOCK FALSE
