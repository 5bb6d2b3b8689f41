--------------------------- MODULE MCEvaluateProcs ---------------------------
(* Bounds for EvaluateProcs: two to four input values, --ticks lists of    *)
(* one or two runs mixing negative and fixed counts, and expected-output   *)
(* maps that are right, wrong, empty or absent.                            *)
EXTENDS EvaluateProcs

(* What the proc sends from a fresh state on the values s.                 *)
RefOutputs(s) == [j \in 1 .. Len(s) \div Rate |-> s[j * Rate]]

Out(s) == [ch \in {"out"} |-> s]
NoChannels == [ch \in {} |-> <<>>]

MCInputs2 == <<1, 2>>
MCTickLists == {<<-1>>, <<3>>, <<-1, -1>>, <<1, -1>>, <<-1, 2>>, <<1, 1>>}
MCExpected2 == {Out(RefOutputs(MCInputs2)), Out(<<2>>), Out(<<>>), NoChannels}

(* A first run that stops while inputs remain, then a fixed-count run.     *)
MCInputs3 == <<1, 2, 3>>
MCDrainTicks == {<<-1, 2>>}
MCExpected3 == {Out(<<1>>)}
====
