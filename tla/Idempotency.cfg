CONSTANTS
  Keys = {k1}
  Bodies = {b1, b2}
  Requests = {r1, r2}
  None = None
  RequestLimit = 1
  PendingTimeout = 1
  Retention = 2
  k1 = k1
  b1 = b1
  b2 = b2
  r1 = r1
  r2 = r2
SPECIFICATION FairSpec
INVARIANTS OwnerKeepsKey
PROPERTIES ImplementsKeyedWrites RefusalIsFinal InProgressEnds
