SPECIFICATION StoreSpec
CONSTANTS
  Agent = {"worker", "goldfive", "__goldfive__", "__user__"}
  Compound = {"goldfive"}
  Legacy = "__goldfive__"
  User = "__user__"
  Forever = 5
  Budget = 1
  Frame <- MCFrame
  MaxVisits = 2
  MaxQueue = 2
INVARIANTS
  StoreConsistent
  
  LanesPacked
  CaughtUp
CHECK_DEADLOCK FALSE
