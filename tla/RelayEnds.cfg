SPECIFICATION FairSpec
CONSTANTS
  p1 = p1
  Pods = {p1}
  ChunkTotal = 2
  MaxAttempts = 2
  DigestServer = TRUE
  Troubles = {}
  MaxUploads = 2
  MaxEpoch = 1
  MaxFaults = 0
PROPERTIES
  EveryRelayEnds
CHECK_DEADLOCK FALSE
