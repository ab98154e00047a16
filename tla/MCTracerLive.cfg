CONSTANTS
  t1 = t1
  t2 = t2
  t3 = t3
  k1 = k1
  k2 = k2
  None = None
  Absent = Absent
  Sentinel = Sentinel
  Capacity = 1
  Threads = {t1, t2}
  Calls = {k1}
  MaxCloses = 1
SPECIFICATION FairSpec
PROPERTIES WrapReturns QueuedIsSettled
