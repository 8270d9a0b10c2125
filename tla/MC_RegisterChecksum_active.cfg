CONSTANTS
  Values <- MCValues
  TailValues <- MCTailValues
  SveWidths <- MCSveWidths
  kSveZRegMaxSizeBytes = 256
  kSvePRegSizeZRegFactor = 8
  kSveNumPReg = 16
  kSveNumZReg = 32
  kYmmBytes = 512
  kZmmBytes = 2048
  kOpmaskBytes = 64
SPECIFICATION Spec
INVARIANTS
  ActiveBytesOnly
\* Both runs end after checksumming; nothing is left to do.
CHECK_DEADLOCK FALSE
