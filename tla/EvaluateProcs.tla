---------------------------- MODULE EvaluateProcs ----------------------------
(***************************************************************************)
(* EvaluateProcs of eval_proc_main: the input channel's values are written *)
(* to its queue once, then for every element of the --ticks list the proc  *)
(* state is reset and the network is ticked (a fixed number of times, or,  *)
(* for a negative count, until every expected-output channel holds as many *)
(* values as expected), and finally the output queues are compared with   *)
(* the expected values.                                                    *)
(*                                                                         *)
(* The proc network is one proc that receives one value per tick from the  *)
(* input channel (blocking when it is empty) and sends every Rate-th value *)
(* it receives on the output channel "out"; its state is the count of      *)
(* values received since the last send.                                    *)
(***************************************************************************)
EXTENDS Integers, Sequences, SequencesExt

CONSTANTS
  Inputs,          \* inputs_for_channels: the values of the input channel
  TickLists,       \* the --ticks lists (EvaluateProcsOptions::ticks)
  ExpectedChoices, \* expected_outputs_for_channels: maps on {} or {"out"}
  Rate,            \* the proc sends every Rate-th value it receives
  FailOnAssert,    \* EvaluateProcsOptions::fail_on_assert
  MayAssert,       \* the proc has an assert that may fire
  TickMayFail      \* runtime->Tick() may return an error

ASSUME Rate \in Nat \ {0} /\ TickLists \subseteq Seq(Int)

VARIABLES
  ticks,    \* options.ticks
  expected, \* expected_outputs_for_channels
  run,      \* index of this_ticks in ticks
  i,        \* the tick counter of a run with a non-negative count
  phase,    \* "reset" | "ticking" | "check" | "done"
  inQ,      \* the input channel's queue
  outQ,     \* the output channel's queue
  pstate,   \* the proc's state
  consumed, \* history: the values the proc received, in order
  status    \* "running", "ok" or the error EvaluateProcs returns

vars == <<ticks, expected, run, i, phase, inQ, outQ, pstate, consumed, status>>

Init ==
  /\ ticks \in TickLists
  /\ expected \in ExpectedChoices
  /\ run = 1
  /\ i = 0
  /\ phase = "reset"
  /\ inQ = Inputs
  /\ outQ = <<>>
  /\ pstate = 0
  /\ consumed = <<>>
  /\ status = "running"

(* runtime->ResetState() at the start of each run; after the last run the *)
(* outputs are checked.                                                    *)
StartRun ==
  /\ phase = "reset"
  /\ IF run <= Len(ticks)
       THEN /\ pstate' = 0
            /\ i' = 0
            /\ phase' = "ticking"
       ELSE /\ phase' = "check"
            /\ UNCHANGED <<pstate, i>>
  /\ UNCHANGED <<ticks, expected, run, inQ, outQ, consumed, status>>

(* Variant of AllOutputsProduced demanding more values than expected.     *)
AllOutputsProducedStrict(q) == \A ch \in DOMAIN expected : Len(q) > Len(expected[ch])
(* The --ticks<0 stop condition: every channel with expected values has at *)
(* least as many values in its queue.                                      *)
AllOutputsProduced(q) == \A ch \in DOMAIN expected : Len(q) >= Len(expected[ch])

(* One iteration of the tick loop in which Tick() succeeds: the proc's   *)
(* tick, the assertions collected when fail_on_assert (asrt: one fired),   *)
(* and for a negative count the stop check, which drains the unconsumed    *)
(* inputs into its warning.                                                *)
Tick(asrt) ==
  /\ phase = "ticking"
  /\ ticks[run] < 0 \/ i < ticks[run]
  /\ LET recv  == inQ # <<>>
         inQ1  == IF recv THEN Tail(inQ) ELSE inQ
         outQ1 == IF recv /\ pstate + 1 = Rate THEN Append(outQ, Head(inQ)) ELSE outQ
     IN /\ outQ' = outQ1
        /\ pstate' = IF recv THEN (pstate + 1) % Rate ELSE pstate
        /\ consumed' = IF recv THEN Append(consumed, Head(inQ)) ELSE consumed
        /\ UNCHANGED <<ticks, expected>>
        /\ CASE asrt /\ FailOnAssert ->
                  /\ status' = "assert" /\ phase' = "done"
                  /\ inQ' = inQ1 /\ UNCHANGED <<run, i>>
             [] ticks[run] < 0 /\ AllOutputsProduced(outQ1) ->
                  /\ inQ' = <<>>
                  /\ run' = run + 1 /\ phase' = "reset"
                  /\ UNCHANGED <<i, status>>
             [] OTHER ->
                  \* i only bounds runs with a non-negative count
                  /\ inQ' = inQ1
                  /\ i' = IF ticks[run] < 0 THEN i ELSE i + 1
                  /\ UNCHANGED <<run, phase, status>>

TickStep == Tick(FALSE)

(* A tick in which one of the proc's asserts fires.                       *)
TickAsserts == MayAssert /\ Tick(TRUE)

(* runtime->Tick() returns an error, which EvaluateProcs returns.         *)
TickFails ==
  /\ TickMayFail
  /\ phase = "ticking"
  /\ ticks[run] < 0 \/ i < ticks[run]
  /\ status' = "tick_error"
  /\ phase' = "done"
  /\ UNCHANGED <<ticks, expected, run, i, inQ, outQ, pstate, consumed>>

(* A run with a non-negative count ends after that many ticks.            *)
EndRun ==
  /\ phase = "ticking"
  /\ ticks[run] >= 0 /\ i >= ticks[run]
  /\ run' = run + 1
  /\ phase' = "reset"
  /\ UNCHANGED <<ticks, expected, i, inQ, outQ, pstate, consumed, status>>

(* The comparison of each expected channel with its queue: it fails when  *)
(* the queue runs out or a value differs.                                  *)
ChannelMatches(ch) == IsPrefix(expected[ch], outQ)

(* Variant of FinalCheck that records the verdict but does not return.    *)
FinalCheckKeepsPhase ==
  /\ phase = "check"
  /\ status' = IF \E ch \in DOMAIN expected : ~ChannelMatches(ch) THEN "mismatch" ELSE "ok"
  /\ UNCHANGED <<ticks, expected, run, i, phase, inQ, outQ, pstate, consumed>>
(* The final check: mismatches, then "no output verified", else success.  *)
(* (With no expected channels the queues are printed.)                     *)
FinalCheck ==
  /\ phase = "check"
  /\ status' = CASE \E ch \in DOMAIN expected : ~ChannelMatches(ch) -> "mismatch"
                 [] DOMAIN expected # {} /\ \A ch \in DOMAIN expected : expected[ch] = <<>>
                                                                 -> "no_output"
                 [] OTHER -> "ok"
  /\ phase' = "done"
  /\ UNCHANGED <<ticks, expected, run, i, inQ, outQ, pstate, consumed>>

Next == StartRun \/ TickStep \/ TickAsserts \/ TickFails \/ EndRun \/ FinalCheck

(* The loop runs on as long as EvaluateProcs has not returned; nothing     *)
(* makes an assert fire or Tick() fail, so those steps are not fair.       *)
Spec == Init /\ [][Next]_vars /\ WF_vars(StartRun \/ TickStep \/ EndRun \/ FinalCheck)

-----------------------------------------------------------------------------
TypeOK ==
  /\ run \in 1 .. Len(ticks) + 1
  /\ phase \in {"reset", "ticking", "check", "done"}
  /\ IsSuffix(inQ, Inputs) /\ IsPrefix(consumed, Inputs)
  /\ pstate \in 0 .. Rate - 1
  /\ status \in {"running", "ok", "tick_error", "assert", "mismatch", "no_output"}
  /\ (phase = "done") = (status # "running")

(* EvaluateProcs returns: every run of the --ticks list ends (a negative   *)
(* count once the expected outputs are in the queues) and the outputs are  *)
(* checked, whatever the list and the proc's asserts and errors.           *)
Termination == <>(phase = "done")

(* Spec: queues are not cleared between the runs of a --ticks list and    *)
(* the unconsumed-input check is a non-fatal warning, so every run starts  *)
(* with the input values the proc has not yet received.                    *)
RunsSeeUnconsumedInputs ==
  phase = "reset" /\ run <= Len(ticks) => inQ = SubSeq(Inputs, Len(consumed) + 1, Len(Inputs))
====
