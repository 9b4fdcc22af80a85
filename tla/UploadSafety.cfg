SPECIFICATION FairSpec
CONSTANTS
  d1 = d1
  d2 = d2
  Jobs = {d1, d2}
  None = None
  PartCount = 2
  FingerprintsDiffer = FALSE
  UploadsRoute = TRUE
  MaxAborts = 1
  MaxCrashes = 1
INVARIANTS
  TypeOK
  RecordedIsWhole
PROPERTIES
  SignedIsDelivered
CHECK_DEADLOCK FALSE
