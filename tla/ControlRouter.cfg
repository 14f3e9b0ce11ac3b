CONSTANTS
  agent = agent
  sub_agent = sub_agent
  home = home
  outer = outer
  other = other
  t1 = t1
  t2 = t2
  outer_sub = outer_sub
  c1 = c1
  Agent <- MCAgent
  Session <- MCSession
  Stream <- MCStream
  Request <- MCRequest
  Control <- MCControl
  MaxSubs = 3
  QueueMax = 1
SPECIFICATION FairSpec
CHECK_DEADLOCK FALSE
INVARIANTS
  NoSettledWaiter
  SuccessMeansAcked
  FailureHidesNoSuccess
PROPERTIES
  DeliverReturns
