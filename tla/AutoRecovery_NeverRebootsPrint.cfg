CONSTANTS
  Task = {t1, t2}
  MaxAttempts = 1
  RebootEnabled = TRUE
  MaxFaults = 1
  MaxRequests = 1
SPECIFICATION FairSpec
PROPERTY NeverRebootsPrint
CHECK_DEADLOCK FALSE
