SPECIFICATION FairSpec
CONSTANTS
  Ids = {t1, t2}
  Procs = {p1, p2}
  Files = {g}
  Nested = {g}
  Capacity = 2
  MaxFaults = 1
  None = None
INVARIANTS StagedDurable LiveUntouched PassedIsGone
PROPERTIES GlobalLockFreed
CHECK_DEADLOCK FALSE
