---------------------------- MODULE EvalProcMain ----------------------------
(***************************************************************************)
(* RealMain of eval_proc_main for the proc backends: it sums the --ticks   *)
(* list into total_ticks, parses at most that many values of every input   *)
(* and expected-output channel file, and hands them to EvaluateProcs.      *)
(***************************************************************************)
EXTENDS Integers, Sequences, SequencesExt

CONSTANTS
  FileInputs,    \* the values in the input channel's file
  FileExpected,  \* the expected-output files: a map on {} or {"out"}
  Ticks,         \* the --ticks list
  Rate, FailOnAssert, MayAssert, TickMayFail

VARIABLES ticks, expected, run, i, phase, inQ, outQ, pstate, consumed, status

(* total_ticks: std::accumulate over the --ticks list, negative counts     *)
(* included.                                                               *)
TotalTicks == FoldLeft(LAMBDA a, b : a + b, 0, Ticks)

(* ParseValuesFile / ParseChannelValuesFromFile(file, max): the first max  *)
(* values of the file, or all of them when max is negative.                *)
ParseLimit(vals, max) ==
  IF max < 0 THEN vals ELSE SubSeq(vals, 1, Min({max, Len(vals)}))

(* The maps RealMain builds from the channel files.                        *)
ParsedInputs == ParseLimit(FileInputs, TotalTicks)
ParsedExpected == [ch \in DOMAIN FileExpected |-> ParseLimit(FileExpected[ch], TotalTicks)]

EP == INSTANCE EvaluateProcs
        WITH Inputs <- ParsedInputs, TickLists <- {Ticks},
             ExpectedChoices <- {ParsedExpected}

Spec == EP!Spec

-----------------------------------------------------------------------------
(* RealMain parses no more input "than can possibly be consumed": the proc *)
(* never comes to a tick having received every parsed input value while    *)
(* the file still holds values it could receive.                           *)
NoInputWithheld ==
  (/\ phase = "ticking"
   /\ ticks[run] < 0 \/ i < ticks[run]
   /\ Len(consumed) = Len(ParsedInputs))
    => Len(ParsedInputs) = Len(FileInputs)
====
