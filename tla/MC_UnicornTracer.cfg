CONSTANTS
  Snippets <- MCSnippets
  MaxInsnValues <- MCMaxInsnValues
  FuzzingConfigs <- MCFuzzingConfigs
  MaxDrops = 1
  MaxRuns = 2
SPECIFICATION Spec
INVARIANTS
  TypeOK
  ConfigWellFormed
  EngineClosedOnce
  VerdictSound
  ExactCapAccepted
  CleanCutoff
  CapStopBounded
PROPERTIES
  RunTerminates
  CallbacksComplete
  ContractSpec
\* The tracer's life ends at Destroy(); runs that cannot end are caught by
\* RunTerminates.
CHECK_DEADLOCK FALSE
