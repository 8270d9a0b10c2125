\* Zero to four tests, mmap may fail: every synthesized test lies in the
\* mapping, aligned and contiguous.
CONSTANTS
  NumTestsValues <- MCNumTests
  BodySizes <- MCBodySizes
  kMaxTestBytes = 1024
  kPageSize = 4096
  MapBase = 65536
  MmapMayFail = TRUE
SPECIFICATION Spec
INVARIANTS
  TypeOK
  TestsInMapping
\* SynthesizeCorpus returns and the process goes on; a crashed process stops.
CHECK_DEADLOCK FALSE
