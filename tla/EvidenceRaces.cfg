SPECIFICATION Spec
CONSTANTS
  u1 = u1
  u2 = u2
  c1 = c1
  w1 = w1
  w2 = w2
  None = None
  Uploads = {u1, u2}
  Contents = {c1}
  Supplements = {}
  Workers = {w1, w2}
  Items = 2
  MaxAttempts = 2
  AutoSupplement = FALSE
  Operations = {"abort", "publish", "terminate", "retry", "hold", "request", "retention"}
  MaxFaults = 1
INVARIANTS
  TypeOK
  OneProcessor
  CompletedIsQueued
  ReadyIsComplete
PROPERTIES
  HeldIsKept
CHECK_DEADLOCK FALSE
