---------------------------- MODULE MCEvalProcMain ----------------------------
(* Bounds for EvalProcMain: a three-value input file, the proc's expected *)
(* outputs for it, and a --ticks list with a fixed count before a          *)
(* negative one.                                                           *)
EXTENDS EvalProcMain

MCFileInputs == <<1, 2, 3>>
MCFileExpected == [ch \in {"out"} |-> <<1, 2, 3>>]
MCTicks == <<2, -1>>
====
