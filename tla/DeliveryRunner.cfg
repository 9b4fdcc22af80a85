SPECIFICATION FairSpec
CONSTANTS
  Deliveries = 2
  SlotCount = 2
  PartCount = 1
  Size = 1
  MaxAttempts = 2
  MaxTransient = 2
  Troubles = {"fail", "auth", "fatal", "disk", "stall", "expire", "lost", "vanish", "crash", "cancel", "resume"}
  MaxTroubles = 1
INVARIANTS
  TypeOK
  OneActs
  CompleteIsWhole
  
  GoneStaysGone
PROPERTIES
  StatusSettles
CHECK_DEADLOCK FALSE
