CONSTANTS
  Stream = {"a", "b"}
  Session = {"s1", "s2"}
  Sweeper = "sweeper"
  MaxRestarts = 1
SPECIFICATION FairSpec
CHECK_DEADLOCK FALSE
INVARIANTS
  RowsAndRegistryAgree
  AgentEndsDisconnected
PROPERTIES
  HeartbeatsConnect
