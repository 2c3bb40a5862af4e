SPECIFICATION FairSpec
CONSTANTS
  p1 = p1  w1 = w1  w2 = w2  j1 = j1  j2 = j2  j3 = j3  t1 = t1
  NoJob = NoJob
  NoPool = NoPool
  Pools = {p1}
  Workers = {w1, w2}
  PoolOf <- OnePool
  Jobs = {j1, j2, j3}
  Waiters = {t1}
  MaxPauses = 1
INVARIANTS CountersExact NoLostWakeup NoFreeUnderJob
PROPERTIES ImplementsJobPool EveryJobRuns CallsReturn
CHECK_DEADLOCK FALSE
