SPECIFICATION FairSpec
CONSTANTS
  p1 = p1
  p2 = p2
  Pods = {p1, p2}
  ChunkTotal = 2
  MaxAttempts = 2
  DigestServer = TRUE
  Troubles = {}
  MaxUploads = 2
  MaxEpoch = 1
  MaxFaults = 3
INVARIANTS
  AtMostOneExecutor
PROPERTIES
  AbandonedRelayIsPickedUp
CHECK_DEADLOCK FALSE
