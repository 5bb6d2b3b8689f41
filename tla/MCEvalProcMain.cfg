CONSTANTS
  FileInputs <- MCFileInputs
  FileExpected <- MCFileExpected
  Ticks <- MCTicks
  Rate = 1
  FailOnAssert = FALSE
  MayAssert = FALSE
  TickMayFail = FALSE
SPECIFICATION Spec
INVARIANTS NoInputWithheld
\* EvaluateProcs returns: every behaviour ends in phase "done".
CHECK_DEADLOCK FALSE
