-------------------------- MODULE UnionQueryEngine --------------------------
(***************************************************************************)
(* UnownedUnionQueryEngine: answers each query by combining, in order, the *)
(* answers of the engines it holds (in SelectSimplificationPass: the       *)
(* stateless engine, then the ternary engine).  An engine is given by its  *)
(* answers: for a node, whether it tracks it and its ternary vector        *)
(* [k |-> known-bit mask, v |-> values of known bits].                     *)
(***************************************************************************)
EXTENDS Integers, Sequences, SequencesExt, Bitwise

(* ternary_ops::UpdateWithUnion: an error when a bit known to both sides   *)
(* has different values, else every bit known to either side.             *)
TernaryConflict(a, b) == (a.k & b.k & (a.v ^^ b.v)) # 0
TernaryUnion(a, b) == [k |-> a.k | b.k, v |-> a.v | b.v]
UpdateWithUnion(lhs, rhs) ==
  IF TernaryConflict(lhs, rhs) THEN [lhs EXCEPT !.ok = FALSE]
  ELSE LET u == TernaryUnion(lhs, rhs) IN [k |-> u.k, v |-> u.v, ok |-> TRUE]

(* GetTernary: all bits unknown, then, for each engine in order, the     *)
(* union with its answer when it tracks the node.  ok is FALSE where the  *)
(* CHECK_OK on UpdateWithUnion aborts the process.                         *)
NoTernary == [k |-> 0, v |-> 0, ok |-> TRUE]
UnionStep(acc, tracked, t) == IF ~acc.ok \/ ~tracked THEN acc ELSE UpdateWithUnion(acc, t)

(* AtMostOneTrue, AtLeastOneTrue, KnownEquals, KnownNotEquals, Implies:    *)
(* true as soon as one engine answers true.                                *)
UnionAnyTrue(answers) == FoldLeft(LAMBDA acc, b : acc \/ b, FALSE, answers)

====
