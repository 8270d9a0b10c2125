CONSTANTS
  t1 = t1
  t2 = t2
  Threads <- MCThreads2
  kMaxCpus = 3
  CpuIds <- MCCpuIds
  Online <- MCOnline
  MaxCalls = 2
SYMMETRY MCSymmetry
SPECIFICATION Spec
INVARIANTS
  TypeOK
  CacheNamesBoundThread
\* A failed CHECK aborts the process; nothing runs after it.
CHECK_DEADLOCK FALSE
