SPECIFICATION Spec
CONSTANTS
  c1 = c1
  c2 = c2
  ta = ta
  r1 = r1
  r2 = r2
  p1 = p1
  p2 = p2
  None = None
  Cases = {c1, c2}
  Types = {ta}
  Requests = {r1, r2}
  Pods = {p1, p2}
  TypeOf <- OneType
  WarmPoolSize <- OneWarm
  MaxPoolSize <- OneMax
  MaxRestarts = 1
  MaxFaults = 1
SYMMETRY Symmetric
INVARIANTS
  PodServesOneCase
  TerminatedIsForgotten
  PoolIsReplenished
CHECK_DEADLOCK FALSE
