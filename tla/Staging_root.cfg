SPECIFICATION Spec
CONSTANTS
  Ids = {t1}
  Procs = {p1, p2}
  Files = {g}
  Nested = {g}
  Capacity = 2
  MaxFaults = 2
  None = None
INVARIANTS StagedSurvives
CHECK_DEADLOCK FALSE
