CONSTANTS
  NumTests <- MCNumTests
  NumInputs <- MCNumInputs
  BatchSize <- MCBatchSize
  NumRepeat <- MCNumRepeat
  MaxSDC <- MCMaxSDC
  NumBadValues <- MCNumBadValues
SPECIFICATION Spec
PROPERTIES
  NoTestTwiceInARow
\* RunTests returns after the last batch; the run then has nothing left to do.
CHECK_DEADLOCK FALSE
