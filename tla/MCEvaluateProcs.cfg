CONSTANTS
  Inputs <- MCInputs2
  TickLists <- MCTickLists
  ExpectedChoices <- MCExpected2
  Rate = 1
  FailOnAssert = TRUE
  MayAssert = TRUE
  TickMayFail = TRUE
SPECIFICATION Spec
INVARIANTS TypeOK
PROPERTIES Termination
\* EvaluateProcs returns: every behaviour ends in phase "done".
CHECK_DEADLOCK FALSE
