CONSTANTS
  Inputs <- MCInputs
  OutChannels = {"out0"}
  Expected <- MCExpectedOne
  MaxNoOutput = 2
  ProbIsOne = FALSE
  FailOnAssert = TRUE
  UseMemory = TRUE
  Size = 2
  Values = {0, 1}
  InitialValue = 0
  ReadDisabledValue = 1
  WrongWidthValue = WrongWidthValue
  None = None
SPECIFICATION Spec
INVARIANTS TypeOK MemoryNeverMisused TimeoutExact
PROPERTIES Termination
\* RunBlock returns: every behaviour ends in a status other than "running".
CHECK_DEADLOCK FALSE
