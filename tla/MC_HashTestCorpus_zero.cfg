\* SynthesizeCorpus(num_tests = 0): the mapping's destructor CHECK fails.
CONSTANTS
  NumTestsValues <- MCNumTestsZero
  BodySizes <- MCBodySizes
  kMaxTestBytes = 1024
  kPageSize = 4096
  MapBase = 65536
  MmapMayFail = FALSE
SPECIFICATION Spec
INVARIANT TeardownSucceeds
CHECK_DEADLOCK FALSE
