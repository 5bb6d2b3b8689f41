----------------------------- MODULE MCRunBlock -----------------------------
(* Bounds for RunBlock: two inputs, two output channels expecting one or  *)
(* two values, a two-cell RAM of 1-bit values.                             *)
EXTENDS RunBlock

MCInputs == <<0, 1>>
MCExpectedTwo == [ch \in {"out0", "out1"} |-> IF ch = "out0" THEN <<1, 0>> ELSE <<1>>]
MCExpectedOne == [ch \in {"out0"} |-> <<1, 0>>]
====
