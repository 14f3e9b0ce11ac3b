CONSTANTS
  Capacity = 1
  BatchMax = 1
  ChunkInterleave = 1
  BreakerThreshold = 2
  MaxEmits = 3
  MaxPayloads = 1
  MaxAcks = 1
  MaxHeartbeats = 1
  MaxFailures = 3
SPECIFICATION FairSpec
CHECK_DEADLOCK FALSE
INVARIANTS
  ThreadConsistent
  EnvelopesAccounted
  StreamFramed
PROPERTIES
  ShutdownEnds
  EnvelopesArrive
