----------------------- MODULE MCSelectSimplification -----------------------
(* Small IR functions for SelectSimplification.  Every function starts   *)
(* with the same leaves and selectors, followed by one or two select      *)
(* nodes whose selector, cases and kind range over small sets.             *)
EXTENDS SelectSimplification

MCParamWidths == <<2, 2>>

(* The leaves, ids 1 .. 11: params p, a (2 bits) and b = not(a); 2-bit  *)
(* literals 0 and 1; 1-bit slices q = p[0], r = p[1], x = a[0], y = b[0]; *)
(* 1-bit literals 0 and 1.                                                 *)
P == 1
A == 2
B == 3
Z2 == 4
C2 == 5
Q == 6
R == 7
X == 8
Y == 9
Z1 == 10
O1 == 11
Prelude ==
  << Param(1), Param(2), Nary("not", 2, <<A>>), Literal(0, 2), Literal(1, 2),
     BitSlice(P, 0, 1), BitSlice(P, 1, 1), BitSlice(A, 0, 1), BitSlice(B, 0, 1),
     Literal(0, 1), Literal(1, 1) >>
Base == Len(Prelude)

(* 2-bit selectors: <<nodes to append after Prelude, selector id>>.  p is *)
(* unknown, a literal (the first or the last index) fully known, a concat of a literal bit and q known  *)
(* in one bit only.                                                        *)
Selectors2 ==
  {<< <<>>, P >>}
  \cup {<< <<Literal(v, 2)>>, Base + 1 >> : v \in {0, 3}}
  \cup {<< <<Nary("concat", 2, <<l, Q>>)>>, Base + 1 >> : l \in {Z1, O1}}
  \cup {<< <<Nary("concat", 2, <<Q, l>>)>>, Base + 1 >> : l \in {Z1, O1}}
Selectors1 == {<< <<>>, Q >>, << <<>>, Z1 >>, << <<>>, O1 >>}

Fn(sel, root) ==
  [nodes |-> Prelude \o sel[1] \o <<root>>, ret |-> Base + Len(sel[1]) + 1]

Leaves2 == {A, B, Z2, C2}
Leaves1 == {X, Y, Z1, O1, Q}

(* Select with a 2-bit selector: four cases, or three and a default.      *)
SelFunctions ==
  {Fn(s, SelectNode(2, s[2], <<c[1], c[2], c[3], c[4]>>, 0)) :
      s \in Selectors2, c \in [1 .. 4 -> Leaves2 \ {B}]}
  \cup {Fn(s, SelectNode(2, s[2], <<c[1], c[2], c[3]>>, c[4])) :
      s \in Selectors2, c \in [1 .. 4 -> Leaves2]}

(* One-hot and priority selects with two cases.                            *)
OhsPselFunctions ==
  {Fn(s, OneHotSelectNode(2, s[2], <<c[1], c[2]>>)) :
      s \in Selectors2, c \in [1 .. 2 -> Leaves2]}
  \cup {Fn(s, PrioritySelectNode(2, s[2], <<c[1], c[2]>>)) :
      s \in Selectors2, c \in [1 .. 2 -> Leaves2]}

(* 1-bit selects with a 1-bit selector: two cases, or one and a default.   *)
OneBitFunctions ==
  {Fn(s, SelectNode(1, s[2], <<c[1], c[2]>>, 0)) : s \in Selectors1, c \in [1 .. 2 -> Leaves1]}

OneBitDefaultFunctions ==
  {Fn(s, SelectNode(1, s[2], <<c[1]>>, c[2])) : s \in Selectors1, c \in [1 .. 2 -> Leaves1]}

(* A two-way select one of whose cases is another two-way select.        *)
NestedFunctions ==
  {[nodes |-> Prelude \o << SelectNode(2, p[2], <<d[1], d[2]>>, 0),
                            SelectNode(2, p[1], IF inner = 0 THEN <<Base + 1, d[3]>>
                                                              ELSE <<d[3], Base + 1>>, 0) >>,
    ret |-> Base + 2] :
      p \in [1 .. 2 -> {Q, R}], d \in [1 .. 3 -> {A, B, C2}], inner \in 0 .. 1}

(* One-hot selects the split worklist reaches: two 2-bit cases, each the  *)
(* concat of a high bit among x, 0 and and(x, y), which is always 0 but is *)
(* known only if the ternary engine proves it, and a low bit among x, q    *)
(* and 0.  Cases then share a node's bit, a literal bit, or a bit the      *)
(* engine knows, in the high, the low or both positions.  The selector s  *)
(* (nodes making it, its id) is p, or concat(0, q), which lets dead-case   *)
(* removal rewrite the select first.                                       *)
SplitFunction(s, c) ==
  LET K == Base + Len(s[1])
      leaf(i) == IF c[i] = 0 THEN K + 1 ELSE c[i]
  IN [nodes |-> Prelude \o s[1] \o
                << Nary("and", 1, <<X, Y>>),
                   Nary("concat", 2, <<leaf(1), leaf(2)>>),
                   Nary("concat", 2, <<leaf(3), leaf(4)>>),
                   OneHotSelectNode(2, s[2], <<K + 2, K + 3>>) >>,
      ret |-> K + 4]
(* On the selector p, swapping the two cases mirrors the split, so one   *)
(* order of each pair of distinct cases is kept.  On concat(0, q) case 2   *)
(* is dead and matters only to the split of the dead select, so its bits   *)
(* are a node's bit or a known bit: x or and(x, y) high, q or 0 low.       *)
SplitCases == {X, Z1, 0} \X {X, Q, Z1} \X {X, Z1, 0} \X {X, Q, Z1}
SplitFunctions ==
  {SplitFunction(<< <<Nary("concat", 2, <<Z1, Q>>)>>, Base + 1 >>, c) :
     c \in {X, Z1, 0} \X {X, Q, Z1} \X {X, 0} \X {Q, Z1}}
    \cup {SplitFunction(<< <<>>, P >>, c) :
           c \in {c \in SplitCases : c[1] < c[3] \/ (c[1] = c[3] /\ c[2] < c[4])}}

(* Consecutive selects: a one-hot or priority select on p whose cases are *)
(* an inner select of the same or the other kind and the leaf a, in       *)
(* either order.  The inner select is on a, or on concat(0, a[0]), whose *)
(* known-zero bit lets dead-case removal narrow it to one case on a 1-bit *)
(* selector before the outer select is visited.  With extra, a dead       *)
(* not(inner) is a second user of the inner select.                        *)
ConsecutiveFunction(outer, inner, s, cs, e, first, extra) ==
  LET I == Base + Len(s[1]) + 1
      rest == IF extra THEN <<Nary("not", 2, <<I>>)>> ELSE <<>>
  IN [nodes |-> Prelude \o s[1] \o <<Node(inner, 2, <<s[2]>> \o cs, 0, 0, FALSE)>> \o rest
                \o <<Node(outer, 2, <<P>> \o (IF first THEN <<I, e>> ELSE <<e, I>>), 0, 0, FALSE)>>,
      ret |-> I + Len(rest) + 1]
ConsecutiveFunctions ==
  {ConsecutiveFunction(outer, inner, s, cs, A, first, extra) :
     outer \in {"ohs", "psel"}, inner \in {"ohs", "psel"},
     s \in {<< <<>>, A >>, << <<Nary("concat", 2, <<Z1, X>>)>>, Base + 1 >>},
     cs \in {<<A, C2>>, <<B, Z2>>}, first \in BOOLEAN, extra \in BOOLEAN}

(* Selects with repeated cases: a one-hot or priority select on the 4-bit *)
(* concat(p, a) whose four cases, drawn from a, 1 and 0, repeat one but    *)
(* are not all equal, so that one-hot dedupe and the priority-select merge *)
(* of adjacent runs (of length one or more) apply before other rules.     *)
DedupeFunction(op, cs) ==
  [nodes |-> Prelude \o << Nary("concat", 4, <<P, A>>), Node(op, 2, <<Base + 1>> \o cs, 0, 0, FALSE) >>,
   ret |-> Base + 2]
DedupeFunctions ==
  {DedupeFunction(op, cs) : op \in {"ohs", "psel"},
                            cs \in {c \in [1 .. 4 -> {A, C2, Z2}] : c[1] # c[2] \/ c[2] # c[3] \/ c[3] # c[4]}}

(* One-hot operations, lsb or msb first, of (nodes, input, width): a[0]  *)
(* (one bit); p (nothing known); concat(0, a[0]) (at most one bit true); *)
(* concat(1, a[0]) and concat(1, 0, a[0]) (exactly one bit unknown);    *)
(* and(a, b), always 0, of which the ternary engine may know any bits.   *)
OneHotInputs ==
  { << <<>>, X, 1 >>, << <<>>, P, 2 >>, << <<Nary("concat", 2, <<Z1, X>>)>>, Base + 1, 2 >>,
    << <<Nary("concat", 2, <<O1, X>>)>>, Base + 1, 2 >>,
    << <<Nary("concat", 3, <<O1, Z1, X>>)>>, Base + 1, 3 >>,
    << <<Nary("and", 2, <<A, B>>)>>, Base + 1, 2 >> }
OneHotFunctions ==
  {[nodes |-> Prelude \o x[1] \o <<OneHotNode(x[2], x[3], prio)>>, ret |-> Base + Len(x[1]) + 1] :
     x \in OneHotInputs, prio \in {0, 1}}
(* Single-bit one-hot selects on p of two distinct non-constant bits.     *)
OneBitOhsFunctions ==
  {[nodes |-> Prelude \o <<OneHotSelectNode(1, P, cs)>>, ret |-> Base + 1] :
     cs \in {<<X, 9>>, <<X, Q>>, <<R, X>>}}

(* Tuple-typed selects: the leaves tuple(a, q), tuple(b, x) and a zero    *)
(* literal of that type (elements of 2 and 1 bits), then a Select on q or  *)
(* the literal 1 with two cases or one case and a default, or a one-hot or *)
(* priority select of two cases on p or on the literal 0 or 3.             *)
TW == <<2, 1>>
T1 == Base + 1
T2 == Base + 2
T0 == Base + 3
TupleLeaves ==
  << TupleNode(<<A, Q>>, TW), TupleNode(<<B, X>>, TW), [Literal(0, 3) EXCEPT !.elems = TW] >>
TupleFn(s, root) ==
  [nodes |-> Prelude \o TupleLeaves \o s[1] \o <<OfTupleType(root, TW)>>, ret |-> T0 + Len(s[1]) + 1]
TupleFunctions ==
  {TupleFn(s, SelectNode(0, s[2], <<c[1], c[2]>>, 0)) :
     s \in {<< <<>>, Q >>, << <<>>, O1 >>}, c \in [1 .. 2 -> {T1, T2, T0}]}
  \cup {TupleFn(s, SelectNode(0, s[2], <<c[1]>>, c[2])) :
          s \in {<< <<>>, Q >>, << <<>>, O1 >>}, c \in [1 .. 2 -> {T1, T2, T0}]}
  \cup {TupleFn(s, Node(op, 0, <<s[2], c[1], c[2]>>, 0, 0, FALSE)) :
          op \in {"ohs", "psel"},
          s \in {<< <<>>, P >>} \cup {<< <<Literal(v, 2)>>, T0 + 1 >> : v \in {0, 3}},
          c \in [1 .. 2 -> {T1, T2, T0}]}

(* A select on p among the 2-bit literals 0 and 1 (not all equal), whose *)
(* high bit is always 0, used by concat(select, q): Squeeze rewrites the   *)
(* select while the ternary engine may hold facts about its user.          *)
SqueezedUserFunctions ==
  {[nodes |-> Prelude \o << SelectNode(2, P, <<c[1], c[2], c[3], c[4]>>, 0),
                            Nary("concat", 3, <<Base + 1, Q>>) >>,
    ret |-> Base + 2] :
      c \in {c \in [1 .. 4 -> {Z2, C2}] : \E i \in 2 .. 4 : c[i] # c[1]}}

AllFunctions ==
  SelFunctions \cup OhsPselFunctions \cup OneBitFunctions \cup NestedFunctions \cup DedupeFunctions
    \cup OneHotFunctions \cup OneBitOhsFunctions \cup TupleFunctions
    \cup SqueezedUserFunctions
NarrowingFunctions == OhsPselFunctions \cup OneBitFunctions \cup ConsecutiveFunctions

MCMaxNodes == 32
====
