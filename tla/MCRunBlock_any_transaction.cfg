CONSTANTS
  Inputs <- MCInputs
  OutChannels = {"out0", "out1"}
  Expected <- MCExpectedTwo
  MaxNoOutput = 2
  ProbIsOne = FALSE
  FailOnAssert = TRUE
  UseMemory = FALSE
  Size = 2
  Values = {0, 1}
  InitialValue = 0
  ReadDisabledValue = 1
  WrongWidthValue = WrongWidthValue
  None = None
SPECIFICATION Spec
INVARIANTS TimeoutOnlyWithoutTransactions
\* RunBlock returns: every behaviour ends in a status other than "running".
CHECK_DEADLOCK FALSE
