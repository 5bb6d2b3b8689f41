CONSTANTS
  ParamWidths <- MCParamWidths
  Functions <- AllFunctions
  OptLevel = 3
  MaxNodes <- MCMaxNodes
SPECIFICATION Spec
INVARIANTS TypeOK IrVerifies SemanticsPreserved PassNeverFails QueryAnswersSound
\* The modelled pass is one TopoSort sweep: every behaviour ends in phase
\* "done" (or "error"), where the pass has returned and the system stops.
CHECK_DEADLOCK FALSE
