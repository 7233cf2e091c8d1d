CONSTANTS
  q1 = q1
  q2 = q2
  Request = {q1, q2}
  None = None
  Budget <- MCBudget
  Spool = {s1, s2}
  MaxPos = 1
  Devices <- MCDevices
  Topic = {"api", "reply"}
  ApiTopic = "api"
  Order <- MCOrder
  IsGit = {"klipper"}
  Managed <- MCManaged
  LastVersion = 1
  File = {a, b}
  MaxJobs = 2
SPECIFICATION FairSpec
INVARIANTS
  TypeOK
  UsageCounted
  RollbackIsPrevious
  MetadataCurrent
  FramesKept
  KeptIsTrue
  FollowsTheWorld
  DoneOnce
PROPERTIES
  EveryTaskEnds
  UsageReported
  PoweredOffAfterShutdown
CHECK_DEADLOCK FALSE
