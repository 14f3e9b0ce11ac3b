CONSTANTS
  s1 = s1
  s2 = s2
  invocation = invocation
  tool = tool
  Stream = {s1, s2}
  Span = {invocation, tool}
  Owner <- MCOwner
  Invocation = {invocation}
  Early = {invocation}
  Watcher = {"w1"}
  EndStatus = {"FAILED"}
  Maxsize = 2
  MaxUpdates = 1
  MaxRuns = 2
SPECIFICATION Spec
CHECK_DEADLOCK FALSE
INVARIANTS
  CatchesUp
PROPERTIES
  SpansEndBeforeSession
