CONSTANTS
  w1 = w1
  w2 = w2
  u1 = u1
  b1 = b1
  Web = {w1, w2}
  Unix = {u1}
  Bridge = {b1}
  Name = {"timelapse"}
  Method = {"render"}
  CallNo = {k1, k2}
  None = None
  Plans <- MCPlans
  AwaitsClients = TRUE
SPECIFICATION FairSpec
INVARIANTS
  TypeOK
  AgentsReachable
PROPERTIES
  EndsWithItsPeer
  EveryMessageLeaves
  ServerStops
CHECK_DEADLOCK FALSE
