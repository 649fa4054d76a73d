CONSTANTS
  t1 = t1  t2 = t2  t3 = t3  l1 = l1  c1 = c1  q1 = q1
  NULL = NULL  Gone = Gone
  TCB = {t1, t2, t3}
  MaxThreads = 3
  Lock = {l1}
  CV = {c1}
  WQ = {}
  Preemptive = TRUE
  DestroyBusy = FALSE
SPECIFICATION Spec
SYMMETRY Symmetry
INVARIANTS FreeLockNoSleepers CvSleepersHoldNoLock
PROPERTIES OnlyHolderReleases
