CONSTANTS
  Snippets <- MCSnippets
  CapValues <- MCCapValues
  Regs <- MCRegs
SPECIFICATION Spec
INVARIANTS
  TypeOK
PROPERTIES
  RunReturns
\* A tracer runs one snippet once (spec 3, 4.1) and then stops.
CHECK_DEADLOCK FALSE
