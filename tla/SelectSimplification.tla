------------------------ MODULE SelectSimplification ------------------------
(***************************************************************************)
(* SelectSimplificationPass::RunOnFunctionBaseInternal on one IR function: *)
(* the union (stateless + ternary) query engine is populated once, every   *)
(* node of TopoSort(func) is visited once by SimplifyNode, whose rules are *)
(* tried in source order with the first applicable one rewriting the node  *)
(* through ReplaceUsesWith / ReplaceUsesWithNew; at opt level 3 a        *)
(* worklist then splits one-hot selects on runs of common case bits.       *)
(*                                                                         *)
(* The IR is a sequence of node records; node ids are positions, MakeNode  *)
(* appends.  Values are naturals of the node's width; a function's meaning *)
(* is the value of its return node under every assignment of its params.  *)
(* A tuple of bits values has elems = its element widths (<<>> for bits)  *)
(* and is packed like a Concat of its elements, element 0 most significant.*)
(***************************************************************************)
EXTENDS Integers, Sequences, FiniteSets, Bitwise, FiniteSetsExt, SequencesExt, UnionQueryEngine

CONSTANTS
  ParamWidths,  \* <<w1, ..., wk>>: widths of the function's params
  Functions,    \* set of [nodes |-> Seq(Node), ret |-> id]: the IR functions the pass runs on
  OptLevel,     \* SelectSimplificationPass::opt_level_
  MaxNodes      \* bound on the node count of a function during the pass

ASSUME OptLevel \in 0 .. 3 /\ MaxNodes \in Nat

VARIABLES
  g,        \* the function's nodes: Seq of node records, id = position
  ret,      \* id of the function's return value
  tern,     \* query engine state: ternary per node id, computed by Populate
  expected, \* [env |-> value of the function before the pass] (history)
  pos,      \* index of the next node of the TopoSort sweep
  phase,    \* "sweep" | "split" | "done" | "error"
  changed,  \* the pass's result
  worklist  \* the one-hot selects still to be split, front first

vars == <<g, ret, tern, expected, pos, phase, changed, worklist>>

-----------------------------------------------------------------------------
(* Nodes and their values.                                                 *)

Mask(w) == 2^w - 1
BitOf(x, i) == (x \div 2^i) % 2

Node(op, w, ops, val, start, dflt) ==
  [op |-> op, w |-> w, ops |-> ops, val |-> val, start |-> start, dflt |-> dflt, elems |-> <<>>]
(* A node of the tuple type with element widths ws.                        *)
OfTupleType(nd, ws) == [nd EXCEPT !.w = FoldLeft(+, 0, ws), !.elems = ws]
Param(i)      == Node("param", ParamWidths[i], <<>>, i, 0, FALSE)
Literal(v, w) == Node("lit", w, <<>>, v, 0, FALSE)
BitSlice(x, start, w) == Node("slice", w, <<x>>, 0, start, FALSE)
(* Select(selector, cases, default); default 0 means none.                 *)
SelectNode(w, s, cases, d) ==
  Node("sel", w, <<s>> \o cases \o (IF d = 0 THEN <<>> ELSE <<d>>), 0, 0, d # 0)
OneHotSelectNode(w, s, cases)   == Node("ohs", w, <<s>> \o cases, 0, 0, FALSE)
PrioritySelectNode(w, s, cases) == Node("psel", w, <<s>> \o cases, 0, 0, FALSE)
Nary(op, w, ops) == Node(op, w, ops, 0, 0, FALSE)
(* Tuple(ops) and TupleIndex(x, i) (start: the element's bit offset).     *)
TupleNode(ops, ws) == OfTupleType(Node("tuple", 0, ops, 0, 0, FALSE), ws)
TupleIndexNode(x, i, ws) ==
  Node("tindex", ws[i + 1], <<x>>, i, FoldLeft(+, 0, SubSeq(ws, i + 2, Len(ws))), FALSE)
(* OneHot(x, priority): priority 0 is kLsb, 1 is kMsb.                     *)
OneHotNode(x, w, prio) == Node("onehot", w + 1, <<x>>, prio, 0, FALSE)

Envs == { e \in [1 .. Len(ParamWidths) -> 0 .. Mask(Max(Range(ParamWidths)))] :
            \A i \in 1 .. Len(ParamWidths) : e[i] <= Mask(ParamWidths[i]) }

LowestSetBit(x) == CHOOSE i \in 0 .. x : BitOf(x, i) = 1 /\ \A j \in 0 .. i - 1 : BitOf(x, j) = 0
HighestSetBit(x) == CHOOSE i \in 0 .. x : BitOf(x, i) = 1 /\ x < 2^(i + 1)
(* bits_ops::OneHotLsbToMsb / OneHotMsbToLsb of an m-bit value: the       *)
(* lowest (highest) set bit, or bit m when none is set.                    *)
OneHotValue(x, m, prio) ==
  IF x = 0 THEN 2^m ELSE 2^(IF prio = 0 THEN LowestSetBit(x) ELSE HighestSetBit(x))
SignExtend(x, from, to) ==
  IF from > 0 /\ BitOf(x, from - 1) = 1 THEN x + 2^to - 2^from ELSE x

(* The IR interpreter's value of node n under env (bit 0 is the lsb,      *)
(* Concat's operand 0 is the most significant).                            *)
RECURSIVE Eval(_, _, _)
Eval(gr, n, env) ==
  LET nd == gr[n]
      k  == Len(nd.ops)
      V(i) == Eval(gr, nd.ops[i], env)
  IN CASE nd.op = "param" -> env[nd.val]
       [] nd.op = "lit"   -> nd.val
       [] nd.op = "sel"   ->
            LET s == V(1)
            IN IF s < k - 1 - (IF nd.dflt THEN 1 ELSE 0) THEN V(s + 2) ELSE V(k)
       [] nd.op = "ohs"   ->
            LET s == V(1)
            IN FoldSet(LAMBDA x, y : x | y, 0, {V(i) : i \in {j \in 2 .. k : BitOf(s, j - 2) = 1}})
       [] nd.op = "psel"  ->
            LET s == V(1) IN IF s = 0 THEN 0 ELSE V(LowestSetBit(s) + 2)
       [] nd.op \in {"slice", "tindex"} -> (V(1) \div 2^nd.start) % 2^nd.w
       [] nd.op \in {"concat", "tuple"} ->
            FoldLeft(LAMBDA acc, i : acc * 2^gr[nd.ops[i]].w + V(i), 0, [j \in 1 .. k |-> j])
       [] nd.op = "and"   -> FoldSet(LAMBDA x, y : x & y, Mask(nd.w), {V(i) : i \in 1 .. k})
       [] nd.op = "or"    -> FoldSet(LAMBDA x, y : x | y, 0, {V(i) : i \in 1 .. k})
       [] nd.op = "nand"  -> Mask(nd.w) - FoldSet(LAMBDA x, y : x & y, Mask(nd.w), {V(i) : i \in 1 .. k})
       [] nd.op = "not"   -> Mask(nd.w) - V(1)
       [] nd.op = "eq"    -> IF V(1) = V(2) THEN 1 ELSE 0
       [] nd.op = "uge"   -> IF V(1) >= V(2) THEN 1 ELSE 0
       [] nd.op = "signext"  -> SignExtend(V(1), gr[nd.ops[1]].w, nd.w)
       [] nd.op = "orreduce" -> IF V(1) # 0 THEN 1 ELSE 0
       [] nd.op = "onehot"   -> OneHotValue(V(1), gr[nd.ops[1]].w, nd.val)

-----------------------------------------------------------------------------
(* The query engines.  A ternary vector is [k |-> known-bit mask,          *)
(* v |-> values of the known bits].                                         *)

(* StatelessQueryEngine: knows exactly the bits of literals, and tracks    *)
(* every node (it keeps no state, so it also answers for nodes made after  *)
(* Populate).                                                              *)
Stateless(gr, n) ==
  IF gr[n].op = "lit" THEN [k |-> Mask(gr[n].w), v |-> gr[n].val]
                      ELSE [k |-> 0, v |-> 0]

(* TernaryQueryEngine::Populate, taken at its most precise: a bit is known *)
(* iff it has one value under every env.  Any sound engine knows a subset. *)
PreciseTernary(gr, n) ==
  LET vals == {Eval(gr, n, e) : e \in Envs}
      v0   == CHOOSE v \in vals : TRUE
      diff == FoldSet(LAMBDA x, y : x | y, 0, {v ^^ v0 : v \in vals})
      kn   == Mask(gr[n].w) - diff
  IN [k |-> kn, v |-> v0 & kn]

(* The engines of the pass's union, in order, answering about node n: the *)
(* stateless engine tracks every node, the ternary engine the nodes that   *)
(* existed when Populate ran.                                              *)
EngineAnswers(n) ==
  << [tracked |-> TRUE, t |-> Stateless(g, n)],
     [tracked |-> n \in DOMAIN tern, t |-> IF n \in DOMAIN tern THEN tern[n] ELSE [k |-> 0, v |-> 0]] >>
(* UnownedUnionQueryEngine::GetTernary over those two engines (ok is FALSE *)
(* where its CHECK_OK aborts).                                             *)
UnionTernary(n) ==
  LET tracked == n \in DOMAIN tern
  IN UnionStep(UnionStep(NoTernary, TRUE, Stateless(g, n)),
               tracked, IF tracked THEN tern[n] ELSE NoTernary)
(* The ternary the rules read: where the engines do not conflict (which  *)
(* QueryAnswersSound checks), GetTernary is the union of their bits.       *)
GetTernary(n) ==
  LET s == Stateless(g, n)
  IN IF n \in DOMAIN tern THEN TernaryUnion(s, tern[n]) ELSE s

IsFullyKnown(n) == GetTernary(n).k = Mask(g[n].w)
KnownValue(n)   == GetTernary(n).v
IsAllZeros(n)   == IsFullyKnown(n) /\ KnownValue(n) = 0
KnownZeroBit(n, i) == BitOf(GetTernary(n).k, i) = 1 /\ BitOf(GetTernary(n).v, i) = 0
KnownOneBit(n, i)  == BitOf(GetTernary(n).k, i) = 1 /\ BitOf(GetTernary(n).v, i) = 1
(* UnownedUnionQueryEngine::AtMostOneTrue: true when one engine answers   *)
(* true, each from its own ternary (at most one bit not known zero).        *)
AtMostOneTrueIn(t, w) ==
  Cardinality({i \in 0 .. w - 1 : ~(BitOf(t.k, i) = 1 /\ BitOf(t.v, i) = 0)}) <= 1
AtMostOneBitTrue(n) ==
  UnionAnyTrue([j \in 1 .. 2 |-> AtMostOneTrueIn(EngineAnswers(n)[j].t, g[n].w)])
(* QueryEngine::ExactlyOneBitUnknown: the bits the engine does not know.   *)
UnknownBits(n) == {i \in 0 .. g[n].w - 1 : BitOf(GetTernary(n).k, i) = 0}

-----------------------------------------------------------------------------
(* Graph mutation.                                                         *)

(* Node::ReplaceUsesWith: every operand slot naming old names new, and the *)
(* function's return value moves with it.                                  *)
ReplaceUses(gr, old, new) ==
  [i \in DOMAIN gr |-> [gr[i] EXCEPT !.ops = [j \in DOMAIN @ |-> IF @[j] = old THEN new ELSE @[j]]]]

(* MakeNode of the sequence ns (their ids are Len(g)+1, ...), then replace *)
(* the uses of n with node r.  A type mismatch is the RET_CHECK that fails *)
(* the pass.                                                               *)
Rewrite(n, ns, r) ==
  \E g2 \in {g \o ns} :   \* evaluated once, ENABLED included
     /\ Len(g2) <= MaxNodes
     /\ IF g2[r].w = g[n].w /\ g2[r].elems = g[n].elems
          THEN /\ g' = ReplaceUses(g2, n, r)
               /\ ret' = IF ret = n THEN r ELSE ret
               /\ phase' = phase
          ELSE /\ phase' = "error"
               /\ UNCHANGED <<g, ret>>

NarrowingEnabled == OptLevel >= 2
SplitsEnabled    == OptLevel >= 3

IsBitsTyped(n) == g[n].elems = <<>>
IsSel(n)  == g[n].op = "sel"
IsOhs(n)  == g[n].op = "ohs"
IsPsel(n) == g[n].op = "psel"
Selector(n) == g[n].ops[1]
Cases(n)    == SubSeq(g[n].ops, 2, Len(g[n].ops) - (IF g[n].dflt THEN 1 ELSE 0))
Default(n)  == g[n].ops[Len(g[n].ops)]
NumCases(n) == Len(Cases(n))
SelWidth(n) == g[Selector(n)].w

-----------------------------------------------------------------------------
(* SimplifyNode's rules, in source order.  XApplies(n) is the rule's       *)
(* condition (a rule whose body returns without rewriting counts as not    *)
(* applying, so the next rule is tried); X(n) is its rewrite.              *)

(* Select with a fully known selector: the indexed case, or the default   *)
(* when the selector is past the last case.                                *)
(* Variant of ConstSel treating the last case as past the end.           *)
ConstSelLastCaseAsDefault(n) ==
  LET s == KnownValue(Selector(n))
  IN IF s >= NumCases(n) - 1
       THEN IF g[n].dflt THEN Rewrite(n, <<>>, Default(n))
                         ELSE phase' = "error" /\ UNCHANGED <<g, ret>>
       ELSE Rewrite(n, <<>>, Cases(n)[s + 1])
ConstSelApplies(n) == IsSel(n) /\ IsFullyKnown(Selector(n))
ConstSel(n) ==
  LET s == KnownValue(Selector(n))
  IN IF s > NumCases(n) - 1
       THEN IF g[n].dflt THEN Rewrite(n, <<>>, Default(n))
                         ELSE phase' = "error" /\ UNCHANGED <<g, ret>>
       ELSE Rewrite(n, <<>>, Cases(n)[s + 1])

(* ZeroOfType(n): a zero literal of node n's type.                         *)
ZeroOfType(n) == [Literal(0, g[n].w) EXCEPT !.elems = g[n].elems]

(* Priority select: the first selector bit that is not known zero.         *)
FirstNotKnownZero(n) ==
  LET nz == {i \in 0 .. SelWidth(n) - 1 : ~KnownZeroBit(Selector(n), i)}
  IN IF nz = {} THEN -1 ELSE Min(nz)
PrioKnownPrefixApplies(n) ==
  IsPsel(n) /\ (FirstNotKnownZero(n) = -1 \/ KnownOneBit(Selector(n), FirstNotKnownZero(n)))
PrioKnownPrefix(n) ==
  IF FirstNotKnownZero(n) = -1
    THEN Rewrite(n, <<ZeroOfType(n)>>, Len(g) + 1)
    ELSE Rewrite(n, <<>>, Cases(n)[FirstNotKnownZero(n) + 1])

(* One-hot select with a fully known selector: a chain of Ors of the      *)
(* activated cases (lowest first), or a zero literal.                      *)
(* Variant of OhsConstSelApplies without the bits-type check.            *)
OhsConstSelAnyType(n) == IsOhs(n) /\ IsFullyKnown(Selector(n))
OhsConstSelApplies(n) == IsOhs(n) /\ IsFullyKnown(Selector(n)) /\ IsBitsTyped(n)
OhsConstSel(n) ==
  LET on  == SetToSortSeq({i \in 0 .. SelWidth(n) - 1 : BitOf(KnownValue(Selector(n)), i) = 1}, <)
      c(j) == Cases(n)[on[j] + 1]
      L   == Len(g)
      ors == [j \in 1 .. Len(on) - 1 |->
                Nary("or", g[n].w, <<IF j = 1 THEN c(1) ELSE L + j - 1, c(j + 1)>>)]
  IN CASE Len(on) = 0 -> Rewrite(n, <<Literal(0, g[n].w)>>, L + 1)
       [] Len(on) = 1 -> Rewrite(n, <<>>, c(1))
       [] OTHER       -> Rewrite(n, ors, L + Len(ors))

(* Select whose cases (and default) are all the same node.                *)
SelIdenticalApplies(n) ==
  IsSel(n) /\ \A i \in 2 .. Len(g[n].ops) : g[n].ops[i] = Cases(n)[1]
SelIdentical(n) == Rewrite(n, <<>>, Cases(n)[1])

(* One-hot / priority select with identical cases:                         *)
(* select(selector == 0, [case, 0]).                                       *)
OhsPselIdenticalApplies(n) ==
  (IsOhs(n) \/ IsPsel(n)) /\ IsBitsTyped(n) /\ \A i \in 1 .. NumCases(n) : Cases(n)[i] = Cases(n)[1]
OhsPselIdentical(n) ==
  LET L == Len(g)
  IN Rewrite(n, << Literal(0, SelWidth(n)),
                   Nary("eq", 1, <<Selector(n), L + 1>>),
                   Literal(0, g[n].w),
                   SelectNode(g[n].w, L + 2, <<Cases(n)[1], L + 3>>, 0) >>, L + 4)

(* A select, one-hot select or priority select of tuple type becomes a    *)
(* Tuple of selects of the elements: for each element i, a TupleIndex of   *)
(* every case (and, for a Select, of the default), then a select of the    *)
(* same kind on the same selector; d says whether the default is carried.  *)
TupleSelectNodes(n, d) ==
  LET ws  == g[n].elems
      dn  == IF d THEN 1 ELSE 0
      per == NumCases(n) + dn + 1
      at(i) == Len(g) + (i - 1) * per   \* the id before element i's nodes
      cs(i) == [c \in 1 .. NumCases(n) |-> at(i) + c]
      sel(i) ==
        CASE IsSel(n) -> SelectNode(ws[i], Selector(n), cs(i), IF d THEN at(i) + per - 1 ELSE 0)
          [] IsOhs(n) -> OneHotSelectNode(ws[i], Selector(n), cs(i))
          [] OTHER    -> PrioritySelectNode(ws[i], Selector(n), cs(i))
      made(i) ==
        [c \in 1 .. NumCases(n) |-> TupleIndexNode(Cases(n)[c], i - 1, ws)]
          \o (IF d THEN <<TupleIndexNode(Default(n), i - 1, ws)>> ELSE <<>>)
          \o <<sel(i)>>
  IN FlattenSeq([i \in 1 .. Len(ws) |-> made(i)])
       \o <<TupleNode([i \in 1 .. Len(ws) |-> at(i) + per], ws)>>
TupleSelectApplies(n) == (IsSel(n) \/ IsOhs(n) \/ IsPsel(n)) /\ ~IsBitsTyped(n)
(* Variant of TupleSelect whose element selects drop the default.         *)
TupleSelectNoDefault(n) ==
  LET ns == TupleSelectNodes(n, FALSE) IN Rewrite(n, ns, Len(g) + Len(ns))
TupleSelect(n) ==
  LET ns == TupleSelectNodes(n, g[n].dflt) IN Rewrite(n, ns, Len(g) + Len(ns))

(* A rule that builds its nodes in a fold keeps them in acc.nodes: the id *)
(* MakeNode gives the next one, and the width of an old or new node.       *)
NextId(acc) == Len(g) + Len(acc.nodes) + 1
WidthOf(acc, x) == IF x <= Len(g) THEN g[x].w ELSE acc.nodes[x - Len(g)].w

(* Common out equal cases of a one-hot select: the first occurrence of a  *)
(* case keeps a slot whose selector bit is ORed with the bits of its later *)
(* occurrences; the slots' bits are concatenated msb first.                *)
OhsDedupeApplies(n) ==
  NarrowingEnabled /\ IsOhs(n) /\ NumCases(n) > 0 /\ ~IsInjective(Cases(n))
(* One iteration of the loop over the cases (i is 0-based): the case's    *)
(* selector bit is always made; a repeated case ORs it into its slot.      *)
DedupeCase(n, acc, i) ==
  LET c   == Cases(n)[i + 1]
      bit == NextId(acc)
      acc1 == [acc EXCEPT !.nodes = Append(@, BitSlice(Selector(n), i, 1))]
  IN IF \E j \in DOMAIN acc.cases : acc.cases[j] = c
       THEN LET j == CHOOSE j \in DOMAIN acc.cases : acc.cases[j] = c
            IN [acc1 EXCEPT !.nodes = Append(@, Nary("or", 1, <<acc.parts[j], bit>>)),
                            !.parts[j] = bit + 1]
       ELSE [acc1 EXCEPT !.parts = Append(@, bit), !.cases = Append(@, c)]
(* Variant of OhsDedupe concatenating the slots' bits lsb first.          *)
OhsDedupeUnreversed(n) ==
  LET acc == FoldLeft(LAMBDA a, i : DedupeCase(n, a, i),
                      [nodes |-> <<>>, parts |-> <<>>, cases |-> <<>>],
                      [j \in 1 .. NumCases(n) |-> j - 1])
      L   == NextId(acc)
  IN Rewrite(n, acc.nodes \o << Nary("concat", Len(acc.parts), acc.parts),
                               OneHotSelectNode(g[n].w, L, acc.cases) >>, L + 1)
OhsDedupe(n) ==
  LET acc == FoldLeft(LAMBDA a, i : DedupeCase(n, a, i),
                      [nodes |-> <<>>, parts |-> <<>>, cases |-> <<>>],
                      [j \in 1 .. NumCases(n) |-> j - 1])
      L   == NextId(acc)
  IN Rewrite(n, acc.nodes \o << Nary("concat", Len(acc.parts), Reverse(acc.parts)),
                               OneHotSelectNode(g[n].w, L, acc.cases) >>, L + 1)

(* Common out adjacent equal cases of a priority select: each maximal run *)
(* of equal cases keeps one case, selected by the OR-reduce of the run's   *)
(* selector bits; consecutive runs of length one share one selector slice. *)
PselRanges(n) ==
  LET cs == Cases(n)
  IN FoldLeft(LAMBDA rs, i : IF cs[i + 1] = cs[rs[Len(rs)].start + 1]
                               THEN [rs EXCEPT ![Len(rs)].width = @ + 1]
                               ELSE Append(rs, [start |-> i, width |-> 1]),
              << [start |-> 0, width |-> 1] >>, [j \in 1 .. NumCases(n) - 1 |-> j])
PselMergeApplies(n) ==
  SplitsEnabled /\ IsPsel(n) /\ NumCases(n) > 0 /\ Len(PselRanges(n)) < NumCases(n)
(* commit_original_slice: the pending run of length-one ranges becomes one *)
(* slice of the selector.                                                  *)
CommitOriginalSlice(n, acc) ==
  IF acc.cur = <<>> THEN acc
  ELSE [acc EXCEPT !.nodes = Append(@, BitSlice(Selector(n), acc.cur[1], acc.cur[2])),
                   !.parts = Append(@, NextId(acc)), !.cur = <<>>]
(* Variant of SelectorRange giving a long range its lowest selector bit   *)
(* instead of the OR-reduce of its bits.                                  *)
SelectorRangeFirstBit(n, acc, r) ==
  IF r.width = 1 /\ acc.cur # <<>> THEN [acc EXCEPT !.cur[2] = @ + 1]
  ELSE LET a == CommitOriginalSlice(n, acc)
       IN IF r.width = 1 THEN [a EXCEPT !.cur = <<r.start, 1>>]
          ELSE [a EXCEPT !.nodes = Append(@, BitSlice(Selector(n), r.start, 1)),
                         !.parts = Append(@, NextId(a))]
(* One iteration of the loop over the ranges.                              *)
SelectorRange(n, acc, r) ==
  IF r.width = 1 /\ acc.cur # <<>> THEN [acc EXCEPT !.cur[2] = @ + 1]
  ELSE LET a == CommitOriginalSlice(n, acc)
       IN IF r.width = 1 THEN [a EXCEPT !.cur = <<r.start, 1>>]
          ELSE [a EXCEPT !.nodes = @ \o << BitSlice(Selector(n), r.start, r.width),
                                          Nary("orreduce", 1, <<NextId(a)>>) >>,
                         !.parts = Append(@, NextId(a) + 1)]
PselMerge(n) ==
  LET rs  == PselRanges(n)
      acc == CommitOriginalSlice(n,
               FoldLeft(LAMBDA a, r : SelectorRange(n, a, r),
                        [nodes |-> <<>>, parts |-> <<>>, cur |-> <<>>], rs))
      sw  == FoldLeft(+, 0, [j \in DOMAIN acc.parts |-> WidthOf(acc, acc.parts[j])])
      L   == NextId(acc)
  IN Rewrite(n, acc.nodes \o << Nary("concat", sw, Reverse(acc.parts)),
                               PrioritySelectNode(g[n].w, L,
                                 [j \in DOMAIN rs |-> Cases(n)[rs[j].start + 1]]) >>, L + 1)

(* MaybeConvertSelectToMask: the arms that are not known all-zero (-1 is  *)
(* the select's default).                                                  *)
NonzeroArms(n) ==
  {i \in 0 .. NumCases(n) - 1 : ~IsAllZeros(Cases(n)[i + 1])}
    \cup (IF IsSel(n) /\ g[n].dflt /\ ~IsAllZeros(Default(n)) THEN {-1} ELSE {})
ConvertToMaskApplies(n) ==
  SplitsEnabled /\ (IsSel(n) \/ IsOhs(n) \/ IsPsel(n)) /\ Cardinality(NonzeroArms(n)) <= 1
(* Variant of NonzeroCondition comparing the selector against the last   *)
(* case index instead of the case count for the default arm.              *)
NonzeroConditionDefaultOffByOne(n, arm) ==
  LET L == Len(g)  s == Selector(n)  sw == SelWidth(n)
  IN CASE IsSel(n) /\ arm = -1 ->
            << <<Literal(NumCases(n) - 1, sw), Nary("uge", 1, <<s, L + 1>>)>>, L + 2 >>
       [] IsSel(n) /\ sw = 1 /\ arm = 0 -> << <<Nary("not", 1, <<s>>)>>, L + 1 >>
       [] IsSel(n) /\ sw = 1 -> << <<>>, s >>
       [] IsSel(n) -> << <<Literal(arm, sw), Nary("eq", 1, <<s, L + 1>>)>>, L + 2 >>
       [] IsOhs(n) /\ sw = 1 -> << <<>>, s >>
       [] IsOhs(n) -> << <<BitSlice(s, arm, 1)>>, L + 1 >>
       [] sw = 1 -> << <<>>, s >>
       [] arm = 0 -> << <<BitSlice(s, 0, 1)>>, L + 1 >>
       [] OTHER -> << <<BitSlice(s, 0, arm + 1), Literal(2^arm, arm + 1),
                        Nary("eq", 1, <<L + 1, L + 2>>)>>, L + 3 >>
(* <<nodes to make, id of the 1-bit "arm is selected" condition>>.         *)
NonzeroCondition(n, arm) ==
  LET L == Len(g)  s == Selector(n)  sw == SelWidth(n)
  IN CASE IsSel(n) /\ arm = -1 ->
            << <<Literal(NumCases(n), sw), Nary("uge", 1, <<s, L + 1>>)>>, L + 2 >>
       [] IsSel(n) /\ sw = 1 /\ arm = 0 -> << <<Nary("not", 1, <<s>>)>>, L + 1 >>
       [] IsSel(n) /\ sw = 1 -> << <<>>, s >>
       [] IsSel(n) -> << <<Literal(arm, sw), Nary("eq", 1, <<s, L + 1>>)>>, L + 2 >>
       [] IsOhs(n) /\ sw = 1 -> << <<>>, s >>
       [] IsOhs(n) -> << <<BitSlice(s, arm, 1)>>, L + 1 >>
       [] sw = 1 -> << <<>>, s >>
       [] arm = 0 -> << <<BitSlice(s, 0, 1)>>, L + 1 >>
       [] OTHER -> << <<BitSlice(s, 0, arm + 1), Literal(2^arm, arm + 1),
                        Nary("eq", 1, <<L + 1, L + 2>>)>>, L + 3 >>
ConvertToMask(n) ==
  IF NonzeroArms(n) = {}
    THEN Rewrite(n, <<Literal(0, g[n].w)>>, Len(g) + 1)
    ELSE LET arm   == CHOOSE a \in NonzeroArms(n) : TRUE
             value == IF arm = -1 THEN Default(n) ELSE Cases(n)[arm + 1]
             cond  == NonzeroCondition(n, arm)
             M     == Len(g) + Len(cond[1])
             ext   == IF g[n].w = 1 THEN <<>> ELSE <<Nary("signext", g[n].w, <<cond[2]>>)>>
             mask  == IF g[n].w = 1 THEN cond[2] ELSE M + 1
         IN Rewrite(n, cond[1] \o ext \o <<Nary("and", g[n].w, <<value, mask>>)>>,
                    M + Len(ext) + 1)

(* Single-bit select with a known arm or an arm equal to the selector:    *)
(* or(and(s, on_true), and(not(s), on_false)).  The condition reads        *)
(* operand(2) whatever it is; the RET_CHECK then rejects a default.        *)
OneBitMuxApplies(n) ==
  /\ NarrowingEnabled
  /\ IsSel(n) /\ g[n].w = 1 /\ SelWidth(n) = 1
  /\ \/ IsFullyKnown(g[n].ops[2]) \/ IsFullyKnown(g[n].ops[3])
     \/ Selector(n) = g[n].ops[2] \/ Selector(n) = g[n].ops[3]
OneBitMux(n) ==
  IF g[n].dflt
    THEN phase' = "error" /\ UNCHANGED <<g, ret>>
    ELSE LET L == Len(g)  s == Selector(n)
         IN Rewrite(n, << Nary("and", 1, <<s, Cases(n)[2]>>),
                          Nary("not", 1, <<s>>),
                          Nary("and", 1, <<L + 2, Cases(n)[1]>>),
                          Nary("or", 1, <<L + 1, L + 3>>) >>, L + 4)

(* HasSingleUse: one user node (dead ones count; a user naming it in two *)
(* operand slots is one user) and not the function's return value.        *)
HasSingleUse(c) ==
  /\ Cardinality({u \in DOMAIN g : \E k \in DOMAIN g[u].ops : g[u].ops[k] = c}) = 1
  /\ ret # c

(* Merging consecutive one-hot / priority selects: a case that is a       *)
(* single-use select of the same op contributes its cases, selected by    *)
(* its selector masked with the outer selector bit (and, for a priority   *)
(* select, a zero case selected when the outer bit is set but the inner    *)
(* selector is zero).                                                      *)
IsSingleUserMatchingSelect(n, c) == g[c].op = g[n].op /\ HasSingleUse(c)
ConsecutiveMergeApplies(n) ==
  /\ NarrowingEnabled /\ (IsOhs(n) \/ IsPsel(n))
  /\ \E i \in 1 .. NumCases(n) : IsSingleUserMatchingSelect(n, Cases(n)[i])

(* The fold state: nodes to make, selector parts (lsb first), new cases,  *)
(* the count of passed-over selector bits, and the shared zero literal.   *)

(* add_unhandled_selector_bits(index).                                     *)
AddUnhandledSelectorBits(n, acc, index) ==
  IF acc.unhandled = 0 THEN acc
  ELSE [acc EXCEPT
          !.nodes = Append(@, BitSlice(Selector(n), index - acc.unhandled, acc.unhandled)),
          !.parts = Append(@, NextId(acc)),
          !.cases = @ \o SubSeq(Cases(n), index - acc.unhandled + 1, index),
          !.unhandled = 0]

(* Variant of MergeCase sign-extending the outer selector bit to the     *)
(* outer case count.                                                       *)
MergeCaseOuterWidthMask(n, acc, i) ==
  LET c == Cases(n)[i + 1]
  IN IF ~IsSingleUserMatchingSelect(n, c) THEN [acc EXCEPT !.unhandled = @ + 1]
     ELSE LET a == AddUnhandledSelectorBits(n, acc, i)
              b == NextId(a)
          IN [a EXCEPT !.nodes = @ \o << BitSlice(Selector(n), i, 1),
                                         Nary("signext", NumCases(n), <<b>>),
                                         Nary("and", NumCases(c), <<b + 1, Selector(c)>>) >>,
                       !.parts = Append(@, b + 2), !.cases = @ \o Cases(c)]
(* Variant of MergeCase giving a priority select no zero case.            *)
MergeCaseNoZeroArm(n, acc, i) ==
  LET c == Cases(n)[i + 1]
  IN IF ~IsSingleUserMatchingSelect(n, c) THEN [acc EXCEPT !.unhandled = @ + 1]
     ELSE LET a == AddUnhandledSelectorBits(n, acc, i)
              b == NextId(a)
          IN [a EXCEPT !.nodes = @ \o << BitSlice(Selector(n), i, 1),
                                         Nary("signext", NumCases(c), <<b>>),
                                         Nary("and", NumCases(c), <<b + 1, Selector(c)>>) >>,
                       !.parts = Append(@, b + 2), !.cases = @ \o Cases(c)]
(* One iteration of the loop over the outer cases (i is 0-based).          *)
MergeCase(n, acc, i) ==
  LET c == Cases(n)[i + 1]
  IN IF ~IsSingleUserMatchingSelect(n, c) THEN [acc EXCEPT !.unhandled = @ + 1]
     ELSE LET a   == AddUnhandledSelectorBits(n, acc, i)
              b   == NextId(a)
              nc  == NumCases(c)
              sel == << BitSlice(Selector(n), i, 1),
                        Nary("signext", nc, <<b>>),
                        Nary("and", nc, <<b + 1, Selector(c)>>) >>
              isZero == IF SelWidth(c) = 1
                          THEN << <<Nary("not", 1, <<Selector(c)>>)>>, b + 3 >>
                          ELSE << <<Literal(0, SelWidth(c)), Nary("eq", 1, <<Selector(c), b + 3>>)>>,
                                  b + 4 >>
              zb  == b + 3 + Len(isZero[1])
              zeroNode == IF a.zero = 0 THEN <<Literal(0, g[n].w)>> ELSE <<>>
              zero == IF a.zero = 0 THEN zb + 1 ELSE a.zero
          IN IF IsOhs(n)
               THEN [a EXCEPT !.nodes = @ \o sel, !.parts = Append(@, b + 2),
                              !.cases = @ \o Cases(c)]
               ELSE [a EXCEPT !.nodes = @ \o sel \o isZero[1]
                                          \o <<Nary("and", 1, <<b, isZero[2]>>)>> \o zeroNode,
                              !.parts = @ \o <<b + 2, zb>>,
                              !.cases = @ \o Cases(c) \o <<zero>>,
                              !.zero = zero]

(* Variant of ConsecutiveMerge concatenating the parts lsb first.       *)
ConsecutiveMergeUnreversed(n) ==
  LET acc0 == [nodes |-> <<>>, parts |-> <<>>, cases |-> <<>>, unhandled |-> 0, zero |-> 0]
      acc1 == FoldLeft(LAMBDA a, i : MergeCase(n, a, i), acc0, [j \in 1 .. NumCases(n) |-> j - 1])
      acc  == AddUnhandledSelectorBits(n, acc1, NumCases(n))
      sw   == FoldLeft(+, 0, [j \in DOMAIN acc.parts |-> WidthOf(acc, acc.parts[j])])
      L    == NextId(acc)
  IN Rewrite(n, acc.nodes \o << Nary("concat", sw, acc.parts),
                               Node(g[n].op, g[n].w, <<L>> \o acc.cases, 0, 0, FALSE) >>,
             L + 1)
(* The whole merge: the fold, the last passed-over bits, the reversed     *)
(* concat of the selector parts and the new select.                        *)
ConsecutiveMerge(n) ==
  LET acc0 == [nodes |-> <<>>, parts |-> <<>>, cases |-> <<>>, unhandled |-> 0, zero |-> 0]
      acc1 == FoldLeft(LAMBDA a, i : MergeCase(n, a, i), acc0, [j \in 1 .. NumCases(n) |-> j - 1])
      acc  == AddUnhandledSelectorBits(n, acc1, NumCases(n))
      sw   == FoldLeft(+, 0, [j \in DOMAIN acc.parts |-> WidthOf(acc, acc.parts[j])])
      L    == NextId(acc)
  IN Rewrite(n, acc.nodes \o << Nary("concat", sw, Reverse(acc.parts)),
                               Node(g[n].op, g[n].w, <<L>> \o acc.cases, 0, 0, FALSE) >>,
             L + 1)

(* GatherBits(node, indices): the selector bits at indices, index 0 lowest *)
(* (one 1-bit slice per index, concatenated most significant first).       *)
GatherBits(x, idx) ==
  LET L == Len(g)
      sl == [j \in 1 .. Len(idx) |-> BitSlice(x, idx[j], 1)]
  IN IF Len(idx) = 1 THEN << sl, L + 1 >>
     ELSE << sl \o <<Nary("concat", Len(idx), [j \in 1 .. Len(idx) |-> L + Len(idx) + 1 - j])>>,
             L + Len(idx) + 1 >>

(* Dead case removal from one-hot and priority selects.                    *)
FirstKnownOne(n) ==
  LET ones == {c \in 0 .. NumCases(n) - 1 : KnownOneBit(Selector(n), c)}
  IN IF IsPsel(n) /\ ones # {} THEN Min(ones) ELSE NumCases(n)
(* Variant of RemovableCase that also drops all-zero priority-select     *)
(* cases, which would let a lower-priority case win.                       *)
RemovableCaseZeroPsel(n, c) ==
  \/ c > FirstKnownOne(n)
  \/ /\ c # FirstKnownOne(n)
     /\ KnownZeroBit(Selector(n), c) \/ IsAllZeros(Cases(n)[c + 1])
RemovableCase(n, c) ==
  \/ c > FirstKnownOne(n)
  \/ /\ c # FirstKnownOne(n)
     /\ KnownZeroBit(Selector(n), c) \/ (IsOhs(n) /\ IsAllZeros(Cases(n)[c + 1]))
HasRemovableCase(n) == \E c \in 0 .. NumCases(n) - 1 : RemovableCase(n, c)
(* nonremovable_indices after the trailing-zero pop of priority selects.   *)
RECURSIVE PopTrailingZeros(_, _)
PopTrailingZeros(n, idx) ==
  IF idx # <<>> /\ IsAllZeros(Cases(n)[Last(idx) + 1])
    THEN PopTrailingZeros(n, Front(idx)) ELSE idx
Kept(n) ==
  LET idx == SelectSeq([c \in 1 .. NumCases(n) |-> c - 1], LAMBDA c : ~RemovableCase(n, c))
  IN IF IsPsel(n) THEN PopTrailingZeros(n, idx) ELSE idx
(* Without splits only the range from the first to the last kept case.     *)
KeptIndices(n) ==
  IF ~SplitsEnabled /\ Kept(n) # <<>> /\ HasRemovableCase(n)
    THEN [j \in 1 .. Last(Kept(n)) - Head(Kept(n)) + 1 |-> Head(Kept(n)) + j - 1]
    ELSE Kept(n)
DeadCasesApplies(n) ==
  /\ NarrowingEnabled /\ (IsOhs(n) \/ IsPsel(n))
  /\ HasRemovableCase(n)
  /\ Len(KeptIndices(n)) # NumCases(n)
(* Variant of DeadCases that gathers the selector but keeps every case.   *)
DeadCasesKeepAllCases(n) ==
  IF KeptIndices(n) = <<>>
    THEN Rewrite(n, <<Literal(0, g[n].w)>>, Len(g) + 1)
    ELSE LET gb == GatherBits(Selector(n), KeptIndices(n))
         IN Rewrite(n, gb[1] \o <<Node(g[n].op, g[n].w, <<gb[2]>> \o Cases(n), 0, 0, FALSE)>>,
                    gb[2] + 1)
DeadCases(n) ==
  IF KeptIndices(n) = <<>>
    THEN Rewrite(n, <<Literal(0, g[n].w)>>, Len(g) + 1)
    ELSE LET idx == KeptIndices(n)
             gb  == GatherBits(Selector(n), idx)
             cs  == [j \in 1 .. Len(idx) |-> Cases(n)[idx[j] + 1]]
         IN Rewrite(n, gb[1] \o <<Node(g[n].op, g[n].w, <<gb[2]>> \o cs, 0, 0, FALSE)>>,
                    gb[2] + 1)

(* Squeeze: the known leading and trailing bits of a select's value become *)
(* literals around a narrower select of sliced operands.                   *)
KnownMsbs(n) ==
  LET k == GetTernary(n).k
  IN Max({j \in 0 .. g[n].w : \A i \in g[n].w - j .. g[n].w - 1 : BitOf(k, i) = 1})
KnownLsbs(n) ==
  LET k == GetTernary(n).k
  IN Max({j \in 0 .. g[n].w : \A i \in 0 .. j - 1 : BitOf(k, i) = 1})
SqueezeApplies(n) ==
  SplitsEnabled /\ IsSel(n) /\ (KnownMsbs(n) # 0 \/ KnownLsbs(n) # 0)
(* Variant of Squeeze whose operand slices are one bit too wide.          *)
SqueezeWideSlices(n) ==
  LET w    == g[n].w
      lead == KnownMsbs(n)
      lsbW == IF lead = w THEN 0 ELSE KnownLsbs(n)
      nw   == w - lead - lsbW
      v    == GetTernary(n).v
      m    == Len(g[n].ops) - 1
      L    == Len(g)
      nc   == [j \in 1 .. m |-> L + j]
  IN Rewrite(n,
       [j \in 1 .. m |-> BitSlice(g[n].ops[j + 1], lsbW, nw + 1)]
         \o << Literal(v \div 2^(w - lead), lead),
               Literal(v % 2^lsbW, lsbW),
               SelectNode(nw, Selector(n),
                          IF g[n].dflt THEN Front(nc) ELSE nc,
                          IF g[n].dflt THEN L + m ELSE 0),
               Nary("concat", w, <<L + m + 1, L + m + 3, L + m + 2>>) >>,
       L + m + 4)
(* Variant of Squeeze that concatenates the pieces lsb first.            *)
SqueezeConcatReversed(n) ==
  LET w    == g[n].w
      lead == KnownMsbs(n)
      lsbW == IF lead = w THEN 0 ELSE KnownLsbs(n)
      nw   == w - lead - lsbW
      v    == GetTernary(n).v
      m    == Len(g[n].ops) - 1
      L    == Len(g)
      nc   == [j \in 1 .. m |-> L + j]
  IN Rewrite(n,
       [j \in 1 .. m |-> BitSlice(g[n].ops[j + 1], lsbW, nw)]
         \o << Literal(v \div 2^(w - lead), lead),
               Literal(v % 2^lsbW, lsbW),
               SelectNode(nw, Selector(n),
                          IF g[n].dflt THEN Front(nc) ELSE nc,
                          IF g[n].dflt THEN L + m ELSE 0),
               Nary("concat", w, <<L + m + 2, L + m + 3, L + m + 1>>) >>,
       L + m + 4)
Squeeze(n) ==
  LET w    == g[n].w
      lead == KnownMsbs(n)
      lsbW == IF lead = w THEN 0 ELSE KnownLsbs(n)
      nw   == w - lead - lsbW
      v    == GetTernary(n).v
      m    == Len(g[n].ops) - 1
      L    == Len(g)
      nc   == [j \in 1 .. m |-> L + j]
  IN Rewrite(n,
       [j \in 1 .. m |-> BitSlice(g[n].ops[j + 1], lsbW, nw)]
         \o << Literal(v \div 2^(w - lead), lead),
               Literal(v % 2^lsbW, lsbW),
               SelectNode(nw, Selector(n),
                          IF g[n].dflt THEN Front(nc) ELSE nc,
                          IF g[n].dflt THEN L + m ELSE 0),
               Nary("concat", w, <<L + m + 1, L + m + 3, L + m + 2>>) >>,
       L + m + 4)

(* Two consecutive two-way selects sharing a case: select(p_x, [y, x]).   *)
Is2Way(n) == IsSel(n) /\ SelWidth(n) = 1 /\ NumCases(n) = 2
Case(n, i) == Cases(n)[i + 1]
(* <<nodes making p_x, p_x, y, x>>, or <<>> when no case is shared.       *)
CommonCaseMatch(n) ==
  LET L == Len(g)  p0 == Selector(n)  c0 == Case(n, 0)  c1 == Case(n, 1)
  IN IF Is2Way(c0)
       THEN CASE c1 = Case(c0, 0) ->
                   << <<Nary("not", 1, <<Selector(c0)>>), Nary("or", 1, <<p0, L + 1>>)>>,
                      L + 2, Case(c0, 1), c1 >>
              [] c1 = Case(c0, 1) ->
                   << <<Nary("or", 1, <<p0, Selector(c0)>>)>>, L + 1, Case(c0, 0), c1 >>
              [] OTHER -> <<>>
     ELSE IF Is2Way(c1)
       THEN CASE c0 = Case(c1, 0) ->
                   << <<Nary("nand", 1, <<p0, Selector(c1)>>)>>, L + 1, Case(c1, 1), c0 >>
              [] c0 = Case(c1, 1) ->
                   << <<Nary("not", 1, <<p0>>), Nary("or", 1, <<L + 1, Selector(c1)>>)>>,
                      L + 2, Case(c1, 0), c0 >>
              [] OTHER -> <<>>
     ELSE <<>>
CommonCaseApplies(n) == Is2Way(n) /\ CommonCaseMatch(n) # <<>>
CommonCase(n) ==
  LET m == CommonCaseMatch(n)
  IN Rewrite(n, m[1] \o <<SelectNode(g[n].w, m[2], <<m[3], m[4]>>, 0)>>, Len(g) + Len(m[1]) + 1)

(* Two consecutive two-way selects on the same selector: the outer one's  *)
(* operand is replaced in place by ReplaceOperandNumber.                  *)
SameSelectorApplies(n) ==
  Is2Way(n) /\ \E i \in 0 .. 1 : Is2Way(Case(n, i)) /\ Selector(Case(n, i)) = Selector(n)
SameSelector(n) ==
  LET i == IF Is2Way(Case(n, 0)) /\ Selector(Case(n, 0)) = Selector(n) THEN 0 ELSE 1
  IN /\ g' = [g EXCEPT ![n].ops[i + 2] = Case(Case(n, i), i)]
     /\ UNCHANGED <<ret, phase>>

(* Decompose a single-bit, two-way one-hot select into ANDs and ORs.       *)
OhsDecomposeApplies(n) == SplitsEnabled /\ IsOhs(n) /\ g[n].w = 1 /\ NumCases(n) = 2
(* Variant of OhsDecompose pairing each case with the other case's bit.    *)
OhsDecomposeSwapped(n) ==
  LET L == Len(g)
  IN Rewrite(n, << BitSlice(Selector(n), 0, 1), BitSlice(Selector(n), 1, 1),
                   Nary("and", 1, <<L + 2, Cases(n)[1]>>), Nary("and", 1, <<L + 1, Cases(n)[2]>>),
                   Nary("or", 1, <<L + 3, L + 4>>) >>, L + 5)
OhsDecompose(n) ==
  LET L == Len(g)
  IN Rewrite(n, << BitSlice(Selector(n), 0, 1), BitSlice(Selector(n), 1, 1),
                   Nary("and", 1, <<L + 1, Cases(n)[1]>>), Nary("and", 1, <<L + 2, Cases(n)[2]>>),
                   Nary("or", 1, <<L + 3, L + 4>>) >>, L + 5)

(* The kOneHot rules; Operand(n) is the one-hot's input.                   *)
IsOneHot(n) == g[n].op = "onehot"
Operand(n) == g[n].ops[1]

(* A one-hot of a single-bit input is concat(not(x), x).                   *)
OneHotSingleBitApplies(n) == NarrowingEnabled /\ IsOneHot(n) /\ g[n].w = 2
OneHotSingleBit(n) ==
  LET L == Len(g)
  IN Rewrite(n, << Nary("not", 1, <<Operand(n)>>), Nary("concat", 2, <<L + 1, Operand(n)>>) >>,
             L + 2)

(* A one-hot of an input with at most one bit true is concat(x == 0, x).   *)
OneHotMutexApplies(n) == IsOneHot(n) /\ AtMostOneBitTrue(Operand(n))
OneHotMutex(n) ==
  LET L == Len(g)  x == Operand(n)
  IN Rewrite(n, << Literal(0, g[x].w), Nary("eq", 1, <<x, L + 1>>),
                   Nary("concat", g[n].w, <<L + 2, x>>) >>, L + 3)

(* A one-hot of an input with exactly one unknown bit is a select on that  *)
(* bit between the one-hots of the input with the bit cleared and set.     *)
OneHotOneUnknownApplies(n) == IsOneHot(n) /\ Cardinality(UnknownBits(Operand(n))) = 1
(* Variant of OneHotOneUnknown that always takes the lsb priority.         *)
OneHotOneUnknownLsb(n) ==
  LET x == Operand(n)  m == g[x].w  L == Len(g)
      u == CHOOSE i \in UnknownBits(x) : TRUE
      onFalse == GetTernary(x).v & GetTernary(x).k
  IN Rewrite(n, << BitSlice(x, u, 1), Literal(OneHotValue(onFalse, m, 0), m + 1),
                   Literal(OneHotValue(onFalse + 2^u, m, 0), m + 1),
                   SelectNode(g[n].w, L + 1, <<L + 2, L + 3>>, 0) >>, L + 4)
OneHotOneUnknown(n) ==
  LET x == Operand(n)  m == g[x].w  L == Len(g)
      u == CHOOSE i \in UnknownBits(x) : TRUE
      onFalse == GetTernary(x).v & GetTernary(x).k
  IN Rewrite(n, << BitSlice(x, u, 1), Literal(OneHotValue(onFalse, m, g[n].val), m + 1),
                   Literal(OneHotValue(onFalse + 2^u, m, g[n].val), m + 1),
                   SelectNode(g[n].w, L + 1, <<L + 2, L + 3>>, 0) >>, L + 4)

RuleOrder == <<"ConstSel", "PrioKnownPrefix", "OhsConstSel", "SelIdentical",
               "OhsPselIdentical", "TupleSelect", "OhsDedupe", "PselMerge", "OneBitMux", "ConsecutiveMerge", "ConvertToMask", "DeadCases",
               "Squeeze", "CommonCase", "SameSelector", "OhsDecompose", "OneHotSingleBit",
               "OneHotMutex", "OneHotOneUnknown">>

Applies(r, n) ==
  CASE r = "ConstSel"         -> ConstSelApplies(n)
    [] r = "PrioKnownPrefix"  -> PrioKnownPrefixApplies(n)
    [] r = "OhsConstSel"      -> OhsConstSelApplies(n)
    [] r = "SelIdentical"     -> SelIdenticalApplies(n)
    [] r = "OhsPselIdentical" -> OhsPselIdenticalApplies(n)
    [] r = "TupleSelect"      -> TupleSelectApplies(n)
    [] r = "OhsDedupe"        -> OhsDedupeApplies(n)
    [] r = "PselMerge"        -> PselMergeApplies(n)
    [] r = "OneBitMux"        -> OneBitMuxApplies(n)
    [] r = "ConsecutiveMerge" -> ConsecutiveMergeApplies(n)
    [] r = "ConvertToMask"    -> ConvertToMaskApplies(n)
    [] r = "DeadCases"        -> DeadCasesApplies(n)
    [] r = "Squeeze"          -> SqueezeApplies(n)
    [] r = "CommonCase"       -> CommonCaseApplies(n)
    [] r = "SameSelector"     -> SameSelectorApplies(n)
    [] r = "OhsDecompose"     -> OhsDecomposeApplies(n)
    [] r = "OneHotSingleBit"  -> OneHotSingleBitApplies(n)
    [] r = "OneHotMutex"      -> OneHotMutexApplies(n)
    [] r = "OneHotOneUnknown" -> OneHotOneUnknownApplies(n)

(* The rule SimplifyNode applies to node n: the first that applies.        *)
FirstRule(n) ==
  LET app == {j \in 1 .. Len(RuleOrder) : Applies(RuleOrder[j], n)}
  IN IF app = {} THEN "none" ELSE RuleOrder[Min(app)]

-----------------------------------------------------------------------------
(* MaybeSplitOneHotSelect.  A bit source is [src |-> 0, bit |-> value] for *)
(* a known bit, or [src |-> node, bit |-> index].                          *)

(* The bit offset of operand j of concat node n (the last operand holds   *)
(* the least significant bits).                                            *)
ConcatOffset(n, j) ==
  FoldLeft(+, 0, [k \in 1 .. Len(g[n].ops) - j |-> g[g[n].ops[j + k]].w])

(* GetBitSource: traced through slices and concats, then a bits literal's *)
(* bit, then a bit of a bits-typed node the (stale) query engine knows.    *)
BitSource(n, i) ==
  LET src[p \in (DOMAIN g) \X Nat] ==
        LET nd == g[p[1]]  b == p[2]
        IN CASE nd.op = "slice"  -> src[<<nd.ops[1], b + nd.start>>]
             [] nd.op = "concat" ->
                  LET j == CHOOSE j \in DOMAIN nd.ops :
                             ConcatOffset(p[1], j) <= b /\ b < ConcatOffset(p[1], j) + g[nd.ops[j]].w
                  IN src[<<nd.ops[j], b - ConcatOffset(p[1], j)>>]
             [] nd.op = "lit" /\ nd.elems = <<>> -> [src |-> 0, bit |-> BitOf(nd.val, b)]
             [] nd.elems = <<>> /\ BitOf(GetTernary(p[1]).k, b) = 1 ->
                  [src |-> 0, bit |-> BitOf(GetTernary(p[1]).v, b)]
             [] OTHER            -> [src |-> p[1], bit |-> b]
  IN src[<<n, i>>]

(* PairsOfBitsWithSameSource: the index pairs a < b of cases whose bit i   *)
(* has the same source.                                                    *)
PairsWithSameSource(cs, i) ==
  {p \in (DOMAIN cs) \X (DOMAIN cs) :
     p[1] < p[2] /\ BitSource(cs[p[1]], i) = BitSource(cs[p[2]], i)}

(* RunOfDistinctCaseBits: the end of the run from start of bits at which  *)
(* no two cases share a source (w is the cases' width).                    *)
DistinctRunEnd(cs, w, start) ==
  Min({i \in start .. w : i = w \/ PairsWithSameSource(cs, i) # {}})

(* RunOfNonDistinctCaseBits: the end of the run from start over which the *)
(* intersection of the matching pairs stays non-empty.                     *)
CommonPairs(cs, start, i) ==
  {p \in (DOMAIN cs) \X (DOMAIN cs) : \A j \in start .. i : p \in PairsWithSameSource(cs, j)}
NonDistinctRunEnd(cs, w, start) ==
  Min({i \in start .. w : i = w \/ CommonPairs(cs, start, i) = {}})

(* The width of the run MaybeSplitOneHotSelect slices at start: distinct  *)
(* bits first, else bits with a common matching pair.                      *)
RunAt(n, start) ==
  LET d == DistinctRunEnd(Cases(n), g[n].w, start) - start
  IN IF d = 0 THEN NonDistinctRunEnd(Cases(n), g[n].w, start) - start ELSE d

(* The <<start, width>> runs MaybeSplitOneHotSelect slices ohs n into; a   *)
(* run of width 0 is where its RET_CHECK_GT fails.                         *)
SplitRuns(n) ==
  LET runs[start \in 0 .. g[n].w] ==
        IF start >= g[n].w THEN <<>>
        ELSE LET run == RunAt(n, start)
             IN IF run = 0 THEN << <<start, 0>> >>
                           ELSE << <<start, run>> >> \o runs[start + run]
  IN runs[0]

(* Variant of SplitApplies without the "nothing to slice" return.         *)
SplitAppliesWholeRun(n) == IsBitsTyped(n) /\ g[n].w <= 64
(* MaybeSplitOneHotSelect's early returns: not bits-typed or wider than 64 *)
(* bits, or the first run spans the whole select.                          *)
SplitApplies(n) == IsBitsTyped(n) /\ g[n].w <= 64 /\ Head(SplitRuns(n))[2] # g[n].w

(* Variant of SliceOneHotSelect that gives the new select the original   *)
(* select's width.                                                         *)
SliceOneHotSelectFullWidth(n, start, width, L) ==
  [c \in 1 .. NumCases(n) |-> BitSlice(Cases(n)[c], start, width)]
    \o <<OneHotSelectNode(g[n].w, Selector(n), [c \in 1 .. NumCases(n) |-> L + c])>>
(* SliceOneHotSelect(ohs, start, width): a slice of every case (made as   *)
(* nodes L+1, ...), then a one-hot select of them on the same selector.    *)
SliceOneHotSelect(n, start, width, L) ==
  [c \in 1 .. NumCases(n) |-> BitSlice(Cases(n)[c], start, width)]
    \o <<OneHotSelectNode(width, Selector(n), [c \in 1 .. NumCases(n) |-> L + c])>>

(* Variant of SplitNodes that concatenates the runs without reversing    *)
(* them, putting the least significant run first.                          *)
SplitNodesUnreversed(n, runs) ==
  LET ohsId(j) == Len(g) + j * (NumCases(n) + 1)
      news     == [j \in 1 .. Len(runs) |-> ohsId(j)]
  IN << FlattenSeq([j \in 1 .. Len(runs) |->
                      SliceOneHotSelect(n, runs[j][1], runs[j][2], ohsId(j - 1))])
          \o <<Nary("concat", g[n].w, news)>>,
        news >>
(* The slices of every run, then the Concat of the new selects, most      *)
(* significant run first: <<nodes to make, ids of the new selects>>.       *)
SplitNodes(n, runs) ==
  LET ohsId(j) == Len(g) + j * (NumCases(n) + 1)
      news     == [j \in 1 .. Len(runs) |-> ohsId(j)]
  IN << FlattenSeq([j \in 1 .. Len(runs) |->
                      SliceOneHotSelect(n, runs[j][1], runs[j][2], ohsId(j - 1))])
          \o <<Nary("concat", g[n].w, Reverse(news))>>,
        news >>

-----------------------------------------------------------------------------
(* RunOnFunctionBaseInternal.                                              *)

(* TopoSort(func) is taken before the sweep: the nodes that existed then,  *)
(* in id order (ids of the input functions are topological).               *)
SweepLen == Len(tern)

(* The ternary engine's result for a node whose bits are not all decided *)
(* by literals: it may prove every constant bit, or none (it is sound but  *)
(* not complete, e.g. it does not see the correlation between a select's   *)
(* selector and its cases).                                                *)
Unknown == [k |-> 0, v |-> 0]

Init ==
  \E f \in Functions :
    /\ g = f.nodes
    /\ ret = f.ret
    /\ LET exact == [n \in DOMAIN f.nodes |-> PreciseTernary(f.nodes, n)]
       IN \E proved \in SUBSET {n \in DOMAIN f.nodes : f.nodes[n].op # "lit" /\ exact[n].k # 0} :
            tern = [n \in DOMAIN f.nodes |-> IF n \in proved THEN exact[n] ELSE Unknown]
    /\ expected = [e \in Envs |-> Eval(f.nodes, f.ret, e)]
    /\ pos = 1
    /\ phase = "sweep"
    /\ changed = FALSE
    /\ worklist = <<>>

(* The rewrite of rule r on node n.                                        *)
Apply(r, n) ==
  CASE r = "ConstSel"         -> ConstSel(n)
    [] r = "PrioKnownPrefix"  -> PrioKnownPrefix(n)
    [] r = "OhsConstSel"      -> OhsConstSel(n)
    [] r = "SelIdentical"     -> SelIdentical(n)
    [] r = "OhsPselIdentical" -> OhsPselIdentical(n)
    [] r = "TupleSelect"      -> TupleSelect(n)
    [] r = "OhsDedupe"        -> OhsDedupe(n)
    [] r = "PselMerge"        -> PselMerge(n)
    [] r = "OneBitMux"        -> OneBitMux(n)
    [] r = "ConsecutiveMerge" -> ConsecutiveMerge(n)
    [] r = "ConvertToMask"    -> ConvertToMask(n)
    [] r = "DeadCases"        -> DeadCases(n)
    [] r = "Squeeze"          -> Squeeze(n)
    [] r = "CommonCase"       -> CommonCase(n)
    [] r = "SameSelector"     -> SameSelector(n)
    [] r = "OhsDecompose"     -> OhsDecompose(n)
    [] r = "OneHotSingleBit"  -> OneHotSingleBit(n)
    [] r = "OneHotMutex"      -> OneHotMutex(n)
    [] r = "OneHotOneUnknown" -> OneHotOneUnknown(n)

(* One iteration of the TopoSort loop in which SimplifyNode rewrites the  *)
(* node: changed = changed || node_changed.                                *)
SimplifyNode ==
  /\ phase = "sweep"
  /\ pos <= SweepLen
  /\ \E r \in {FirstRule(pos)} :   \* evaluated once, ENABLED included
       /\ r # "none"
       /\ Apply(r, pos)
  /\ pos' = pos + 1
  /\ changed' = TRUE
  /\ UNCHANGED <<tern, expected, worklist>>

(* Variant of NoRewrite that also skips the next node of the sweep.      *)
NoRewriteSkipping ==
  /\ phase = "sweep"
  /\ pos <= SweepLen
  /\ FirstRule(pos) = "none"
  /\ pos' = pos + 2
  /\ UNCHANGED <<g, ret, tern, expected, phase, changed, worklist>>

(* SimplifyNode returns false: no rule applies to the node.                *)
NoRewrite ==
  /\ phase = "sweep"
  /\ pos <= SweepLen
  /\ FirstRule(pos) = "none"
  /\ pos' = pos + 1
  /\ UNCHANGED <<g, ret, tern, expected, phase, changed, worklist>>

(* The end of the sweep; with splits enabled, every one-hot select of    *)
(* func->nodes() (dead ones included) goes on the worklist.                *)
EndSweep ==
  /\ phase = "sweep"
  /\ pos > SweepLen
  /\ IF SplitsEnabled
       THEN /\ phase' = "split"
            /\ worklist' = SelectSeq([n \in DOMAIN g |-> n], IsOhs)
       ELSE /\ phase' = "done"
            /\ UNCHANGED worklist
  /\ UNCHANGED <<g, ret, tern, expected, pos, changed>>

(* A worklist iteration that splits the front select: the new selects go  *)
(* to the back of the worklist and changed becomes true.                   *)
SplitOhs ==
  /\ phase = "split"
  /\ worklist # <<>>
  /\ LET n == Head(worklist)
     IN /\ SplitApplies(n)
        \* the runs and the new nodes are computed once and bound
        /\ \E runs \in {SplitRuns(n)} :
             IF \E j \in DOMAIN runs : runs[j][2] = 0
               THEN /\ phase' = "error"
                    /\ UNCHANGED <<g, ret, worklist, changed>>
               ELSE \E sn \in {SplitNodes(n, runs)} :
                      /\ Rewrite(n, sn[1], Len(g) + Len(sn[1]))
                      /\ worklist' = Tail(worklist) \o sn[2]
                      /\ changed' = TRUE
  /\ UNCHANGED <<tern, expected, pos>>

(* A worklist iteration on a select MaybeSplitOneHotSelect leaves alone.   *)
NoSplit ==
  /\ phase = "split"
  /\ worklist # <<>>
  /\ ~SplitApplies(Head(worklist))
  /\ worklist' = Tail(worklist)
  /\ UNCHANGED <<g, ret, tern, expected, pos, phase, changed>>

(* The worklist is empty: the pass returns.                                *)
SplitDone ==
  /\ phase = "split"
  /\ worklist = <<>>
  /\ phase' = "done"
  /\ UNCHANGED <<g, ret, tern, expected, pos, changed, worklist>>

Next ==
  \/ SimplifyNode
  \/ NoRewrite
  \/ EndSweep
  \/ SplitOhs
  \/ NoSplit
  \/ SplitDone

Spec == Init /\ [][Next]_vars /\ WF_vars(Next)

-----------------------------------------------------------------------------
(* Properties.                                                             *)

NodeRec == [op : STRING, w : Nat, ops : Seq(Nat), val : Nat, start : Nat, dflt : BOOLEAN,
            elems : Seq(Nat)]
TypeOK ==
  /\ g \in Seq(NodeRec)
  /\ ret \in DOMAIN g
  /\ tern \in Seq([k : Nat, v : Nat])
  /\ pos \in 1 .. SweepLen + 1
  /\ phase \in {"sweep", "split", "done", "error"}
  /\ changed \in BOOLEAN
  /\ worklist \in Seq(DOMAIN g)

(* Every rewrite is value preserving: after each step of the pass the     *)
(* function returns, under every assignment of its params, what it        *)
(* returned before the pass (SimplifyNode's rewrites and the splitting     *)
(* worklist, with the query engine's cached facts).                        *)
SemanticsPreserved ==
  phase # "error" => \A e \in Envs : Eval(g, ret, e) = expected[e]

(* The rules act on a union of the stateless engine, which answers from  *)
(* the current graph, and the ternary engine, whose facts date from        *)
(* Populate and are read after earlier rewrites rewired operands           *)
(* (ReplaceUsesWith).  For every node, GetTernary never reaches the        *)
(* CHECK_OK on conflicting engines at any point of the pass, and every    *)
(* bit it reports known has that value, under every parameter value, in   *)
(* the graph the pass returns (the nodes made after Populate are answered *)
(* by the stateless engine alone, and a literal's known bits are its       *)
(* value).  With a stateless engine that knows literals only, the conflict *)
(* half holds whenever the facts do; the facts half is the one at risk.    *)
QueryAnswersSound ==
  \A n \in DOMAIN tern :
    LET u == UnionTernary(n)
    IN /\ u.ok
       /\ phase = "done" /\ g[n].op # "lit" /\ u.k # 0 =>
            \A e \in Envs : (Eval(g, n, e) & u.k) = u.v

(* Every node of the function, the ones the rules make included, passes  *)
(* the IR verifier's type rules: operands exist, a select's cases have its *)
(* type (width and tuple elements) and its selector is bits and fits its  *)
(* case count, slices stay in range, Concat's and Tuple's widths are the   *)
(* sums of their operands', a TupleIndex is in range, and every other op   *)
(* takes and makes bits.                                                   *)
WellTypedNode(n) ==
  LET nd == g[n]  k == Len(nd.ops)  ow(i) == g[nd.ops[i]].w
      AllOpsW(w) == \A i \in 1 .. k : ow(i) = w
      SameType(i) == ow(i) = nd.w /\ g[nd.ops[i]].elems = nd.elems
      \* operands other than a select's cases and a Tuple's elements are bits
      BitsOps(is) == \A i \in is : g[nd.ops[i]].elems = <<>>
  IN /\ \A i \in 1 .. k : nd.ops[i] \in DOMAIN g
     /\ nd.op \notin {"sel", "ohs", "psel", "lit", "tuple", "tindex"} => nd.elems = <<>> /\ BitsOps(1 .. k)
     /\ CASE nd.op = "param" -> k = 0 /\ nd.w = ParamWidths[nd.val]
          [] nd.op = "lit"   -> k = 0 /\ nd.val < 2^nd.w
          [] nd.op = "sel"   -> /\ k >= 2 /\ BitsOps({1}) /\ \A i \in 2 .. k : SameType(i)
                                /\ IF nd.dflt THEN k - 2 < 2^ow(1) ELSE k - 1 = 2^ow(1)
          [] nd.op \in {"ohs", "psel"} ->
                                k >= 2 /\ BitsOps({1}) /\ ow(1) = k - 1 /\ \A i \in 2 .. k : SameType(i)
          [] nd.op = "tuple" -> BitsOps(1 .. k) /\ nd.elems = [i \in 1 .. k |-> ow(i)]
          [] nd.op = "tindex" ->
                                LET ws == g[nd.ops[1]].elems
                                IN /\ k = 1 /\ nd.elems = <<>> /\ nd.val < Len(ws)
                                   /\ nd.w = ws[nd.val + 1]
                                   /\ nd.start = FoldLeft(+, 0, SubSeq(ws, nd.val + 2, Len(ws)))
          [] nd.op = "slice" -> k = 1 /\ nd.start + nd.w <= ow(1)
          [] nd.op \in {"concat", "tuple"} -> nd.w = FoldLeft(+, 0, [i \in 1 .. k |-> ow(i)])
          [] nd.op \in {"and", "or", "nand"} -> k >= 1 /\ AllOpsW(nd.w)
          [] nd.op = "not"   -> k = 1 /\ AllOpsW(nd.w)
          [] nd.op \in {"eq", "uge"} -> k = 2 /\ nd.w = 1 /\ ow(1) = ow(2)
          [] nd.op = "signext" -> k = 1 /\ ow(1) <= nd.w
          [] nd.op = "orreduce" -> k = 1 /\ nd.w = 1
          [] nd.op = "onehot"   -> k = 1 /\ nd.w = ow(1) + 1 /\ nd.val \in {0, 1}
          [] OTHER -> FALSE
IrVerifies == \A n \in DOMAIN g : WellTypedNode(n)

(* The pass never fails on a well-formed function: no RET_CHECK of a rule  *)
(* and no type mismatch in ReplaceUsesWith fires.                           *)
PassNeverFails == phase # "error"

(* The pass returns: the sweep visits each node once, and the split      *)
(* worklist, which re-queues every select MaybeSplitOneHotSelect makes,    *)
(* empties (a split's new selects are narrower and are not split again).   *)
Termination == <>(phase \in {"done", "error"})

====
