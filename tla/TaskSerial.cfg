SPECIFICATION Spec
CONSTANTS
  t1 = t1
  r1 = r1
  Tasks = {t1}
  Requests = {r1}
  Operations = {"create", "update", "cancel", "attest", "verify", "deliver", "arrive", "relay"}
  Targets = {"probing", "installing", "collecting", "packaging", "uploading", "completed", "failed", "cancelled"}
  ClientProgress = {0, 1, 2}
  ClientModes = {"acli_direct", "bridge_relay", "none"}
  ClientErrors = {"reported"}
  Full = 2
INVARIANTS
  TypeOK
  ActiveIsUnfinished
  DirectDeliveryHasBasis
CHECK_DEADLOCK FALSE
