CONSTANTS
  NoPlan = NoPlan
  NoTask = NoTask
  a = a
  b = b
  c = c
  d = d
  e = e
  TaskId = {a, b, c, d, e}
  Shape <- MCShape
  MaxRevision = 2
  MaxTaskEvents = 1
  MaxVisits = 2
  MaxNotices = 2
SPECIFICATION PlansSpec
CHECK_DEADLOCK FALSE
INVARIANTS
  HistoryFaithful
  PlansCatchUp
  HistoryCatchesUp
  FoldsAgree
