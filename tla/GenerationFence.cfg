SPECIFICATION FairSpec
CONSTANTS
  Fences = {f1}
  Threads = {t1, t2}
  Waiters = {w1}
  NoOne = NoOne
  Publisher = Publisher
  Closed = Closed
  MaxEpoch = 3
  MaxActivities = 2
INVARIANTS CountIsHolders ReclaimQuiescent CommitWindowExclusive
PROPERTIES AdmittedOnCurrent ImplementsAtomicFence WaitersDrain
