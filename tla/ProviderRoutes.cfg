SPECIFICATION Spec
CONSTANTS
  Ledgers = {l1, l2}
  RequestIds = {q1, q2}
  Models = {m1, m2}
  Stamps = {s1, s2, s3}
  MaxClaims = 2
  MaxBatch = 2
  MaxLive = 2
  None = None
  provider1 = provider1
  provider2 = provider2
  route1 = route1
  route2 = route2
  route3 = route3
  slot1 = slot1
  slot2 = slot2
  Claims <- MCClaims
  Owners <- MCOwners
SYMMETRY MCSymmetry
INVARIANTS IndexesAgree LiveExactly
PROPERTIES ImplementsUsageRequests
CHECK_DEADLOCK FALSE
