CONSTANTS
  Task = {t1, t2}
  MaxAttempts = 2
  RebootEnabled = TRUE
  MaxFaults = 1
  MaxRequests = 2
SPECIFICATION FairSpec
INVARIANTS
  TypeOK
  AttemptsCapped
  RestartsExclusive
PROPERTIES
  ImplementsIncident
  PersistentFaultGivesUp
  ReadyResolves
CHECK_DEADLOCK FALSE
