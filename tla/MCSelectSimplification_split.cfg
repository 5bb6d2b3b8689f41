CONSTANTS
  ParamWidths <- MCParamWidths
  Functions <- SplitFunctions
  OptLevel = 3
  MaxNodes <- MCMaxNodes
SPECIFICATION Spec
INVARIANTS IrVerifies SemanticsPreserved
PROPERTIES Termination
\* The pass returns after the split worklist empties: every behaviour ends
\* in phase "done" (or "error"), where the system stops.
CHECK_DEADLOCK FALSE
