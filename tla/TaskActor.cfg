SPECIFICATION Spec
CONSTANTS
  MaxInvocations = 2
  Capacity = 1
  MaxOpenOperations = 2
INVARIANTS ClosedHoldsNothing DeadHoldsNothing KeptIsReachable
PROPERTIES AdmissionReleased
CHECK_DEADLOCK FALSE
