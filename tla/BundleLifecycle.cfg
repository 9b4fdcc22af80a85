SPECIFICATION FairSpec
CONSTANTS
  d1 = d1
  d2 = d2
  a1 = a1
  a2 = a2
  a3 = a3
  r1 = r1
  Digests = {d1, d2}
  Actors = {a1, a2, a3}
  Authors = {a1}
  Requests = {r1}
  GitOps = GitOps
  None = None
  MaxRequests = 3
  MaxFaults = 1
INVARIANTS
  TypeOK
  ReferencedIsPublished
  ActiveIsLoaded
  PublishedWasReviewed
PROPERTIES
  RequestIsSettled
CHECK_DEADLOCK FALSE
