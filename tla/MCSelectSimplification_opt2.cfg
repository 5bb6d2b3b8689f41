CONSTANTS
  ParamWidths <- MCParamWidths
  Functions <- NarrowingFunctions
  OptLevel = 2
  MaxNodes <- MCMaxNodes
SPECIFICATION Spec
INVARIANTS IrVerifies SemanticsPreserved
\* The modelled pass is one TopoSort sweep: every behaviour ends in phase
\* "done" (or "error"), where the pass has returned and the system stops.
CHECK_DEADLOCK FALSE
