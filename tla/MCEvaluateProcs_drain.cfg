CONSTANTS
  Inputs <- MCInputs3
  TickLists <- MCDrainTicks
  ExpectedChoices <- MCExpected3
  Rate = 1
  FailOnAssert = FALSE
  MayAssert = FALSE
  TickMayFail = FALSE
SPECIFICATION Spec
INVARIANTS RunsSeeUnconsumedInputs
\* EvaluateProcs returns: every behaviour ends in phase "done".
CHECK_DEADLOCK FALSE
