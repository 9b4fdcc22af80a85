SPECIFICATION Spec
CONSTANTS
  p1 = p1
  p2 = p2
  Pods = {p1, p2}
  ChunkTotal = 3
  MaxAttempts = 2
  DigestServer = TRUE
  Troubles = {"force", "graceful", "correct", "stall"}
  MaxUploads = 2
  MaxEpoch = 2
  MaxFaults = 1
SYMMETRY PodSymmetry
INVARIANTS
  TypeOK
  PersistedIndexBacked
  SuccessWasArchived
CHECK_DEADLOCK FALSE
