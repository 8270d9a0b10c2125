CONSTANTS
  Snippets <- MCSnippets
  MaxInsnValues <- MCMaxInsnValues
  FuzzingConfigs <- MCFuzzingConfigs
  MaxDrops = 1
  MaxRuns = 1
SPECIFICATION Spec
INVARIANTS
  UserStopBounded
CHECK_DEADLOCK FALSE
