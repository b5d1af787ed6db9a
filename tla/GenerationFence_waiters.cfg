SPECIFICATION FairSpec
CONSTANTS
  Fences = {f1}
  Threads = {t1, t2}
  Waiters = {w1, w2}
  NoOne = NoOne
  Publisher = Publisher
  Closed = Closed
  MaxEpoch = 2
  MaxActivities = 2
PROPERTIES WaitersDrain
