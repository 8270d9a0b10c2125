CONSTANTS
  t1 = t1
  t2 = t2
  Threads <- MCThreads1
  kMaxCpus = 3
  CpuIds <- MCCpuIds
  Online <- MCOnline
  MaxCalls = 5
SPECIFICATION Spec
PROPERTIES
  NoSyscallAgreesWithGetcpu
\* A failed CHECK aborts the process; nothing runs after it.
CHECK_DEADLOCK FALSE
