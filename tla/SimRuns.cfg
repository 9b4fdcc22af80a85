SPECIFICATION FairSpec
CONSTANTS
  r1 = r1
  h1 = h1
  h2 = h2
  k1 = k1
  c1 = c1
  c2 = c2
  Runs = {r1}
  Handlers = {h1, h2}
  Cases = {k1}
  Outcomes = {"passed"}
  Reconcilers = {c1, c2}
  Kinds = {"lease.created", "run.result"}
  None = None
  MaxAttempts = 2
  MaxVersion = 2
  MaxFaults = 1
INVARIANTS
  TypeOK
  ResultIsEnd
PROPERTIES
  TerminalIsFinal
  ImplementsDelivery
  EventsSettle
CHECK_DEADLOCK FALSE
