SPECIFICATION Spec
CONSTANTS
    d1 = d1
    d2 = d2
    d3 = d3
    x1 = x1
    x2 = x2
    s1 = s1
    s2 = s2
    Digests = {d1, d2, d3}
    Parts <- MCParts
    Capacity = 2
    Spans = {x1, x2}
    SessionOf <- MCSessionOf
    Carries <- MCCarries
    Kept = {s2}
    MaxEmits = 3
    MaxWire = 1
    MaxCleanups = 2
INVARIANTS
  BufferConsistent
  PayloadsWhole
  ReferencedFound
PROPERTIES
  ReferencedKept
  SweepSparesLive
CHECK_DEADLOCK FALSE
