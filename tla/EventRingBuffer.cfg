CONSTANTS
  Capacity = 2
  EnvelopeKind <- MCKinds
  BatchMax = 2
  MaxEmits = 5
SPECIFICATION Spec
CHECK_DEADLOCK FALSE
INVARIANTS
  Bounded
PROPERTIES
  BoundariesDroppedLast
  ImplementsCountedLossQueue
