CONSTANTS
  Client = {c1}
  Conn = Conn
  MaxSessions = 1
SPECIFICATION Spec
INVARIANT StateIsCurrent
CHECK_DEADLOCK FALSE
