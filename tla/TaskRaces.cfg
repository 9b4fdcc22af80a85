SPECIFICATION Spec
CONSTANTS
  t1 = t1
  t2 = t2
  r1 = r1
  r2 = r2
  Tasks = {t1, t2}
  Requests = {r1, r2}
  Operations = {"create", "update", "arrive", "relay"}
  Targets = {"collecting", "completed"}
  ClientProgress = {}
  ClientModes = {"bridge_relay"}
  ClientErrors = {}
  Full = 1
SYMMETRY RequestSymmetry
INVARIANTS
  OneActiveTask
  TerminalIsFinished
CHECK_DEADLOCK FALSE
