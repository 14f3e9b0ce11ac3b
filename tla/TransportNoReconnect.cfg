CONSTANTS
  Capacity = 1
  BatchMax = 1
  ChunkInterleave = 1
  BreakerThreshold = 2
  MaxEmits = 1
  MaxPayloads = 0
  MaxAcks = 0
  MaxHeartbeats = 0
  MaxFailures = 0
SPECIFICATION Spec
CHECK_DEADLOCK FALSE
INVARIANT WorkerOutlivesConnection
