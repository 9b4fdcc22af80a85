SPECIFICATION FairSpec
CONSTANTS
  u1 = u1
  u2 = u2
  c1 = c1
  c2 = c2
  w1 = w1
  None = None
  Uploads = {u1, u2}
  Contents = {c1, c2}
  Supplements = {c2}
  Workers = {w1}
  Items = 1
  MaxAttempts = 2
  AutoSupplement = TRUE
  Operations = {"start", "terminate", "retry", "request"}
  MaxFaults = 1
INVARIANTS
  SucceededIsDiagnosed
PROPERTIES
  JobsEnd
  UploadsSettle
CHECK_DEADLOCK FALSE
