# TLA+ models of xlsynth's select simplification, block simulation and proc evaluation

This directory holds TLA+ models of three parts of this repository, and
the TLC configurations that check them:

* `SelectSimplificationPass` in `src/xls/passes/union_query_engine.cc`,
  together with the union query engine it uses. The pass is an IR rewrite
  driven by ternary facts about nodes.
* The block simulator `RunBlock` in `eval_proc_main`
  (`src/xls/codegen/name_legalization_pass.cc`), and the `MemoryModel`
  class it uses. This is the cycle loop that drives a codegen'd block
  through ready/valid channels and a RAM.
* The proc evaluator `EvaluateProcs` in the same file: the tick loop that
  drives a proc network over the runs of a `--ticks` list and then checks
  the output queues.
* `RealMain` of `eval_proc_main`, for the proc backends: how it limits
  the channel files it parses before calling `EvaluateProcs`.

`PROJECT.json` holds the machine-readable version: components, runs,
mutants, the definition→source map, findings and hazards.

## 1. Inventory

| Part | Source | State | Operations | Status |
|---|---|---|---|---|
| SelectSimplificationPass | union_query_engine.cc 200–1747 | the function's node graph; `changed`; the split worklist | `RunOnFunctionBaseInternal`: Populate, TopoSort sweep of `SimplifyNode`, MaybeSplitOneHotSelect worklist | modelled |
| UnownedUnionQueryEngine | union_query_engine.cc 39–199 | per-engine facts computed by `Populate` | `GetTernary` (union with CHECK on conflict), boolean queries; not the `Populate` lattice, intervals, implied values or `SpecializeGivenPredicate` | partly |
| MemoryModel | name_legalization_pass.cc 1790–1871 | cells, write_this_tick, read_this_tick, read_last_tick | ctor, `Read`, `Write`, `GetValueReadLastTick`, `Tick` | modelled |
| RunBlock | name_legalization_pass.cc 1945–2300 | cycle, last_output_cycle, channel queues, memory models, the block's registers | one loop iteration per cycle | partly |
| EvaluateProcs | name_legalization_pass.cc 1458–1660 | the --ticks list, run index, tick counter, input and output queues, proc state | input seeding, ResetState per run, each tick (error, asserts, the ticks<0 stop check and its drain), the end of a run, the final output check | modelled |
| RealMain | name_legalization_pass.cc 2363–2472 | total_ticks, the parsed channel maps | the parse limit, the call of EvaluateProcs | partly |
| NameLegalizationPass, C API, flag parsing and file I/O, tests, build | rest of `src/` | — | — | not modelled (renaming through a uniquer outside `src/`, FFI glue, I/O, tests) |

How the parts interact:

* The pass builds one `UnionQueryEngine` from the stateless and ternary
  engines and populates it once.
  * Every rule of `SimplifyNode` asks that engine whether a selector or a
    case is known.
  * The rules rewrite the graph, but the facts are never recomputed.
* `RunBlock` owns one `MemoryModel` per RAM.
  * Each cycle it drives the block's `rd_data` from
    `GetValueReadLastTick`, runs the block, and services the block's write
    and read requests.
  * Then it calls `Tick`.
  * The reset cycle skips all of this.
* `EvaluateProcs` writes every input value to its channel queue once.
  * For each entry of `--ticks` it calls `ResetState` and ticks the
    runtime; the queues are not reset.
  * A negative entry ticks until every expected channel holds enough
    values, then reads the unconsumed inputs out of their queues to warn.
  * At the end it compares each expected channel with its queue.

What makes these parts hard to test:

* stale query-engine facts used after rewrites;
* rule order, where the first applicable rule wins;
* RET_CHECKs reached on valid IR;
* the boundaries of known-bit counts and selector values;
* the read-first, one-cycle-latency RAM protocol;
* the reset cycle that skips servicing;
* the sticky-valid ready/valid protocol;
* the exact cycle of the no-output timeout;
* termination of the cycle loop, of the split worklist, and of a
  negative tick count;
* state that carries over, or is lost, between the runs of `--ticks`.

`PROJECT.json` lists each of these as a hazard, at its source line.

## 2. Modules

### SelectSimplification.tla (+ MCSelectSimplification.tla)

**State.** `g` is the function's nodes, a sequence of records
`[op, w, ops, val, start, dflt, elems]`. A node id is its position, and
`MakeNode` appends. `elems` is `<<>>` for a bits type and the element widths
for a tuple type. A tuple value is packed into one integer, element 0 in the
most significant bits, so `tuple` evaluates like `concat` and `tindex` like a
slice. The other variables:

* `ret`: the return node;
* `tern`: what the ternary engine proved, per node that existed at
  `Populate`;
* `expected`: the function's value under every parameter assignment before
  the pass, a history variable;
* `pos`: the sweep index;
* `phase`: `sweep`, `done` or `error`;
* `changed`: the pass's result.

**Query engine.** The union is taken from `UnionQueryEngine.tla` over the
pass's two engines (`EngineAnswers`, the order of
`RunOnFunctionBaseInternal`): the stateless engine (literals only, for
every node, including new ones) and `tern` (only for the nodes Populate
saw). `UnionTernary` is `UnownedUnionQueryEngine::GetTernary` with its
`CHECK_OK`; `GetTernary`, what the rules read, is its bits, which is the
same wherever the CHECK does not abort (QueryAnswersSound checks that it
never does). `AtMostOneBitTrue` asks each engine and is true when one is.

* `Init` lets the ternary engine prove any subset of the bits that are
  truly constant.
* The engine is sound, but it is not complete: TernaryQueryEngine may miss
  a fact, and the model does not fix which ones.

**Rules.** Each rule is an `XApplies(n)` guard plus an `X(n)` rewrite. Both
are translated from the rule's block in `SimplifyNode`:

* ConstSel, PrioKnownPrefix, OhsConstSel, SelIdentical, OhsPselIdentical,
  TupleSelect (a tuple-typed select, one-hot select or priority select
  becomes a `tuple` of per-element selects of `tuple_index` nodes; a
  Select's default is carried per element), OhsDedupe, PselMerge, OneBitMux, ConsecutiveMerge;
* ConvertToMask (MaybeConvertSelectToMask), DeadCases (GatherBits),
  Squeeze (SqueezeSelect);
* CommonCase, SameSelector;
* OhsDecompose (single-bit two-way one-hot selects into ANDs and an OR);
* the kOneHot rules: OneHotSingleBit, OneHotMutex (AtMostOneBitTrue) and
  OneHotOneUnknown (ExactlyOneBitUnknown).

`FirstRule` picks the first rule in source order that applies.
`SimplifyNode` and `NoRewrite` are one iteration of the TopoSort loop.
`EndSweep` is the end of the loop.

**Errors.** A RET_CHECK in a rule, or a type mismatch (width or tuple
elements) in `ReplaceUsesWith`, sets `phase = "error"`. The bits-only rules
(OhsConstSel, OhsPselIdentical, MaybeSplitOneHotSelect) carry the code's
`IsBits()` guard; `GetBitSource` traces only concats and slices and reads
literals and engine facts only of bits-typed nodes, as in the code.

**Values.** The IR semantics (`Eval`) and node constructors come from
`xls/ir`, which is not under `src/`. They are marked `spec_modelled` in the
map.

**The functions checked.**

* Params `p` and `a` are 2 bits wide; `b = not(a)`.
* The leaves are 1- and 2-bit literals and 1-bit slices.
* The root is one of:
  * a select with four cases, or three cases and a default;
  * a one-hot or priority select with two cases;
  * a 1-bit mux;
  * a two-way select nested in another.
* Selectors are unknown, fully known (indices 0 and 3), or known in one bit
  only (`concat` of a literal bit and `p[0]`).
* `TupleFunctions` add tuple-typed selects of type `(bits[2], bits[1])` over
  the leaves `tuple(a, q)`, `tuple(b, x)` and a zero tuple literal: a select
  on `q` or an unknown selector with two cases or one case and a default, and
  a one-hot or priority select on `p` or a literal selector (0 or 3). The
  literal selectors make OhsConstSel and PrioKnownPrefix meet a tuple type.

These reach every modelled rule and both branches of their boundaries.
`MaxNodes = 32` bounds growth; it is never reached.

**The split worklist.** At opt level 3, `EndSweep` puts every one-hot
select of the function on `worklist`, dead ones included, since
`func->nodes()` still holds them. Each iteration is `SplitOhs` or
`NoSplit`, and `SplitDone` returns.

* `BitSource` is `GetBitSource`: it traces a bit through slices and
  concats to a literal, to a bit the query engine knows, or to a node's
  bit.
  * The engine is the one populated before the sweep, so the new nodes
    are known to the stateless engine only.
* `DistinctRunEnd` and `NonDistinctRunEnd` are the two run finders.
  * The loop with a running intersection is stated as the first bit at
    which the pairs common to the whole run become empty.
* `SplitRuns` is the loop of `MaybeSplitOneHotSelect`. `SplitApplies`
  holds its early returns: wider than 64 bits, or one run spans the select.
* `SliceOneHotSelect` and `SplitNodes` build the slices, the new selects
  and the reversed `Concat`. The new selects go back on the worklist.

The recursions are recursive functions rather than RECURSIVE operators.
TLC evaluates the `ENABLED` that weak fairness needs without caching, so
an operator's lazy arguments would be re-evaluated at every level.

`SplitFunctions` are one-hot selects with two 2-bit cases. Each case is
the concat of a high bit from `x`, `0` or `and(x, y)`, and a low bit from
`x`, `q` or `0`. `and(x, y)` is always 0, but it is known only if the
ternary engine proves it. So cases share a node's bit, a literal bit, or
an engine-known bit, in one position or both. The selector is `p`, or
`concat(0, q)`, which lets dead-case removal rewrite the select first.

* On `p`, swapping the two cases mirrors the split, so one order of each
  pair is kept.
* On `concat(0, q)`, case 2 is dead. It matters only to the split of the
  dead select, so its bits are `x` or `and(x, y)` high and `q` or `0` low.
The same bound is never reached here.

**Repeated cases.** Two rules handle selects with repeated cases.

* `OhsDedupe` (opt level 2 and above) folds `DedupeCase` over a one-hot
  select's cases.
  * Every case gets a slice of its selector bit.
  * A case seen before ORs that bit into the first occurrence's slot.
  * The slots are reversed into the new selector.
* `PselMerge` (opt level 3) merges runs of equal adjacent cases of a
  priority select.
  * `PselRanges` finds the runs.
  * `SelectorRange` gives a longer run the OR-reduce of its bits.
  * Consecutive runs of length one collect into one slice of the selector,
    which `CommitOriginalSlice` makes.

`DedupeFunctions` are one-hot and priority selects on the 4-bit
`concat(p, a)`. Their four cases come from `a`, `1` and `0`, with some
case repeated but not all equal. This reaches every run shape of a 4-case
priority select (1+1+2, 1+2+1, 2+1+1, 2+2, 1+3, 3+1), as well as
non-adjacent repeats that the priority rule must leave alone.

**One-hot operations.** A `onehot` node has its priority (lsb or msb
first) in `val`, and `OneHotValue` is its value. The engine's
`AtMostOneBitTrue` and `ExactlyOneBitUnknown` are answered from
`GetTernary`: an engine answers from its own ternary, and only the
ternary engine knows bits of a non-literal.

* `OneHotOneUnknown` computes its two literals as `bits_ops` would. It
  sets the unknown bit to 0 or 1 over the known bits, and applies the
  node's priority.
* `OneHotFunctions` take one-hots, of either priority, of:
  * `a[0]`;
  * `p`;
  * `concat(0, a[0])`, where at most one bit is true;
  * `concat(1, a[0])` and `concat(1, 0, a[0])`, where exactly one bit is
    unknown;
  * `and(a, not a)`, where what is known depends on the ternary engine.
* `OneBitOhsFunctions` are 1-bit one-hot selects on `p` of two different
  non-constant bits.

**The consecutive-select merge.** `ConsecutiveMergeApplies` is the guard
at opt level 2 and above: some case is a select of the outer select's kind
with a single user (`HasSingleUse`, from `xls/ir`).

* `ConsecutiveMerge` folds `MergeCase` over the cases.
  * A passed-over case only counts a selector bit.
  * `AddUnhandledSelectorBits` slices the counted bits and their cases
    into the new select.
  * A merged case contributes the inner cases, selected by the inner
    selector masked with its outer bit.
  * A priority select also gets a zero case, selected by the outer bit and
    "inner selector is zero". That test is a `not` for a 1-bit selector
    and an `eq` with a zero literal otherwise. All merged cases share one
    zero literal.
* The selector parts are reversed into a `Concat`, as in the source.
* Single use only keeps the inner select from being duplicated. The merge
  computes the same value either way, so no property depends on it.

`ConsecutiveFunctions` put an inner select, of either kind, on `a` or on
`concat(0, a[0])` inside an outer select on `p`, in either case position.
Both selectors are independent of `p`, so the inner selector can be zero
while its outer bit is set.

* With `concat(0, a[0])`, dead-case removal first narrows the inner select
  to one case on a 1-bit selector, so the `not` branch is reached.
* An optional dead `not(inner)` gives the inner select a second user.
* One-case inner selects are not used: OhsPselIdentical always rewrites
  them before the outer select is visited.

They are checked in ss_opt2, at opt level 2, because at opt level 3 ConvertToMask rewrites
the inner selects first.

**Stale facts about users.** `SqueezedUserFunctions` are a select on `p`
among the 2-bit literals 0 and 1 (not all equal), used by
`concat(select, q)`. Squeeze rewrites the select into a concat of a known
zero and a one-bit select, while the ternary engine keeps the facts it
proved at Populate about the select and its user. `QueryAnswersSound`
(ss_opt3) says that `UnionTernary` never reaches its `CHECK_OK` at any
state of the pass, and that every bit it reports known for a node Populate
saw holds, under every parameter value, in the graph the pass returns.
Nodes made after Populate are answered by the stateless engine alone, and
a literal's known bits are its value, so both are skipped. The `CHECK_OK`
half cannot fail in this model: the stateless engine knows literal bits
only, the ternary engine's facts are about non-literals, and no rewrite
turns a node into a literal. What the property checks is the other half,
that the stale Populate facts still hold.

**Rules left out.** The functions are chosen so that none of these would
apply before a modelled rule:

* consecutive-select merge, outside `ConsecutiveFunctions`: no other
  family nests a one-hot or priority select in one of its own kind;

### UnionQueryEngine.tla

`UnownedUnionQueryEngine` (union_query_engine.cc 68–168), as operators
over the engines' answers, with no state of its own:

* `UnionStep` is one iteration of `GetTernary`'s loop: an untracked
  engine is skipped, and `UpdateWithUnion` marks `ok = FALSE` where
  `CHECK_OK(ternary_ops::UpdateWithUnion)` aborts on a bit known to both
  sides with different values;
* `UnionAnyTrue` is the shape of `AtMostOneTrue`, `AtLeastOneTrue`,
  `KnownEquals`, `KnownNotEquals` and `Implies`.

### EvaluateProcs.tla (+ MCEvaluateProcs.tla)

**State.**

* `ticks` and `expected` are the options and the expected outputs. They
  are chosen in `Init` from small sets.
* `run` indexes `ticks`. `i` is the tick counter of a run with a
  non-negative count.
* `phase` is `reset`, `ticking`, `check` or `done`.
* `inQ` and `outQ` are the queues of one input and one output channel.
* `pstate` is the proc's state. `consumed` records what the proc
  received, as a history variable.
* `status` is what EvaluateProcs returns.

**The proc.** `runtime->Tick()` and `ResetState` live in `xls/interpreter`,
which is not under `src/`. The network is abstracted to one proc. Each
tick it receives a value if one is queued, and it sends every `Rate`-th
value it receives. Its state is the count since the last send, which
`ResetState` zeroes.

**Actions.**

* `StartRun` is `ResetState` at the head of each run. After the last run
  it moves to the output check.
* `TickStep`, `TickAsserts` and `TickFails` are one iteration of the
  tick loop:
  * `Tick(asrt)` covers a successful tick, the assertions collected under
    `fail_on_assert`, and, for a negative count, the stop check
    (`AllOutputsProduced`) with its drain of the unconsumed inputs;
  * `TickFails` is `Tick()` returning an error.
* `EndRun` is the end of a run with a non-negative count.
* `FinalCheck` compares each channel with `ChannelMatches`, then applies
  the "no output verified" rule.

**Bounds.** Two input values. `--ticks` lists of one or two entries,
mixing `-1` and small counts. Expected outputs that are right, wrong or
empty, or no expected channels at all. These reach every return of
EvaluateProcs. The violation run ep_drain uses three inputs.

### EvalProcMain.tla (+ MCEvalProcMain.tla)

`EvalProcMain` composes RealMain's input preparation with EvaluateProcs.

* `TotalTicks` is `std::accumulate` over the `--ticks` list. Negative
  entries are added like any other.
* `ParseLimit(vals, max)` is what the value-file parsers do with
  `total_ticks`: keep the first `max` values, or all of them when `max` is
  negative. The parsers are not under `src/`, so this is taken from their
  interface.
* `ParsedInputs` and `ParsedExpected` are the maps RealMain builds. The
  choice between the four file formats is abstracted away; every format
  gets the same limit.
* `EP` instantiates EvaluateProcs with those maps and the one `--ticks`
  list, and `Spec` is its specification. The module declares
  EvaluateProcs's variables, so its state is exactly EvaluateProcs's.

**Bounds.** A three-value input file, the matching expected file and
`--ticks=2,-1`, the smallest list that mixes a fixed and a negative count
with a fixed count above one. Lists of fixed counts only, or of negative
counts only, satisfy `NoInputWithheld`; this was checked with `<<2, 1>>`,
`<<3>>`, `<<1, 1, 1>>`, `<<-1>>` and `<<-1, -1>>`.

### MemoryModel.tla and SyncRam.tla

`MemoryModel` keeps the class's state as one record. Each method is an
operator:

* `Read` and `ReadStatus`, and `Write` and `WriteStatus`, split each
  method's result into the new state and the status it returns;
* `GetValueReadLastTick`;
* `Tick`.

The actions `DoRead`, `DoWrite` and `DoTick` call the API in any order,
with in-range and out-of-range addresses and wrong-width values.

`SyncRam` is the abstract specification: a synchronous read-first RAM. The
refinement mapping is `cells <- mem.cells`,
`rd_data <- GetValueReadLastTick(mem)` and `failed <- status # "ok"`.

### RunBlock.tla (+ MCRunBlock.tla)

`RunBlock` models one iteration of the cycle loop as the action `Cycle`.
The block is arbitrary. In each cycle it may:

* drive ready;
* drive a value, or nothing, on each output;
* issue any memory request;
* fire an assertion.

The harness's Bernoulli draw is `go`.

| Code | Model |
|---|---|
| the assertion check | `asrt /\ FailOnAssert` |
| the reset `continue` | `ResetCycle` |
| input consumption, output checks (`OutputError`, `Matched`), memory servicing (`ServiceMemory`: Write then Read, each returning on error), the all-outputs-empty break, the timeout (`TimedOut`) and `Tick` | `NormalCycle` |
| each memory method | `INSTANCE MemoryModel` (as `M`), whose operators are called |

`last_transaction` is a history variable. It records the last handshake on
any channel.

**Bounds.**

* Two input values.
* Two output channels, expecting `<<1, 0>>` and `<<1>>`, in the violation
  runs; one output channel, expecting `<<1, 0>>`, in rb_memory.
* `max_cycles_no_output = 2`.
* A two-cell RAM of 1-bit values (rb_memory only).

These give runs that finish, mismatch, time out, and drain after stalls.
rb_memory combines the RAM with random input valid; a second output
channel on top of that takes TLC about nine minutes, so the two-channel
case is exercised by the violation runs.

## 3. Runs

| Run | cfg | Checks | Result |
|---|---|---|---|
| ss_opt3 | MCSelectSimplification_opt3.cfg | TypeOK, IrVerifies, SemanticsPreserved, PassNeverFails, QueryAnswersSound at opt level 3 over all function families, tuple-typed selects and squeezed selects with a user included | pass (≈100k states) |
| ss_opt2 | MCSelectSimplification_opt2.cfg | IrVerifies, SemanticsPreserved at opt level 2 (no splits: dead-case removal keeps a contiguous range), including the consecutive-select merge | pass (≈12k states) |
| ss_onebit_default | MCSelectSimplification_onebit_default.cfg | PassNeverFails on 1-bit selects with one case and a default | **violation** |
| memory_model | MemoryModel.cfg | TypeOK, ImplementsSyncRam | pass |
| ss_split | MCSelectSimplification_split.cfg | IrVerifies, SemanticsPreserved, Termination through the split worklist | pass (≈25k states) |
| rb_memory | MCRunBlock_memory.cfg | TypeOK, MemoryNeverMisused, TimeoutExact, Termination (random valid, assertions, one RAM) | pass |
| rb_sticky | MCRunBlock_sticky.cfg | ValidHeldUntilHandshake | **violation** |
| rb_any_transaction | MCRunBlock_any_transaction.cfg | TimeoutOnlyWithoutTransactions | **violation** |
| ep_runs | MCEvaluateProcs.cfg | TypeOK, Termination over mixed `--ticks` lists with asserts and tick errors | pass |
| ep_drain | MCEvaluateProcs_drain.cfg | RunsSeeUnconsumedInputs after a negative-count run | **violation** |
| ep_parse_limit | MCEvalProcMain.cfg | NoInputWithheld with `--ticks=2,-1` | **violation** |

Each property of a passing run is also checked against a mutant of the code
it is about, listed in `PROJECT.json`. Examples:

* an off-by-one in the default arm's condition;
* slices one bit too wide in Squeeze;
* dead-case removal that keeps all cases;
* a read forwarding a same-tick write;
* `>=` in the timeout;
* a reset cycle that does not advance;
* a split that does not reverse its runs, or that re-splits a select
  whose cases are all distinct;
* one-hot dedupe concatenating its slots lsb first;
* a run of equal priority cases selected by its first bit only;
* a one-hot decomposition that pairs each case with the other's selector
  bit;
* a one-unknown-bit one-hot that ignores its priority;
* a priority-select merge without the zero arm, or with the outer bit
  sign-extended to the outer case count;
* a `ticks < 0` stop check that demands one output too many.
* a tuple-select decomposition that drops a Select's default per element;
* a one-hot constant-selector rule without its bits-type check;
* a Squeeze that concatenates its pieces lsb first, which leaves the
  ternary engine's Populate facts about the select's user false
  (QueryAnswersSound).

TLC finds each mutant violating its property.

### Findings

1. **The one-bit-mux RET_CHECK fails on valid IR**
   (union_query_engine.cc:1072).
   * The guard looks at `operand(1)` and `operand(2)` of any bits[1]
     select with a 1-bit selector, and only afterwards RET_CHECKs that
     there is no default.
   * So `sel(q, cases=[q], default=x)` makes the pass return an internal
     error.
2. **Sticky valid is lost** (name_legalization_pass.cc:2073).
   * `asserted_valids` is declared inside the loop, so it is always empty
     when read.
   * With `prob_input_valid_assert < 1`, valid can drop before the block
     takes the value. This contradicts the spec's sticky-valid rule and the
     code's own comment.
3. **The timeout counts only outputs** (name_legalization_pass.cc:2261).
   * The spec says the run fails after `max_cycles_no_output` cycles with
     no channel transaction.
   * The code times out a block that keeps accepting inputs.

4. **Leftover inputs are drained** (name_legalization_pass.cc:1589).
   * The warning about unconsumed inputs reads them out of their queues.
   * So the next `--ticks` entry starts with no inputs, although the spec
     says queues are not cleared between runs and that leftover inputs
     only give a warning.
5. **A mixed `--ticks` list cuts the channel files short**
   (name_legalization_pass.cc:2380).
   * RealMain sums the entries into `total_ticks`, negative ones
     included, and parses at most that many values of every channel file.
   * The comment above it says only input that cannot be consumed is
     skipped.
   * With `--ticks=2,-1` it parses one value of a three-value file. The
     proc's second tick, and the whole run-until-done run, find the input
     empty, and only the first expected output is checked.

## 4. Fairness

* `SelectSimplification`: `WF_vars(Next)`. The pass is a sequential loop
  that runs to completion.
* `RunBlock`: `WF_vars(Next)`. The loop body runs again as long as RunBlock
  has not returned, and nothing in the loop waits on anything outside it.
* `SelectSimplification`: the split worklist is part of the same loop,
  and `WF_vars(Next)` covers it.
* `EvaluateProcs`: `WF_vars(StartRun \/ TickStep \/ EndRun \/ FinalCheck)`.
  The loop runs on until EvaluateProcs returns. An assertion firing and
  `Tick()` failing are possibilities, not obligations, so `TickAsserts`
  and `TickFails` are not fair.
* `EvalProcMain`: EvaluateProcs's fairness, through `EP!Spec`.
* `MemoryModel`: no fairness. It is a passive class, and only safety (the
  refinement) is checked.

All cfgs set `CHECK_DEADLOCK FALSE` because every model ends in a terminal
state:

* the pass has returned;
* RunBlock has returned a status;
* MemoryModel has returned an error, which RunBlock propagates and stops on;
* EvaluateProcs has returned (`phase = "done"`).

## 5. Plan for the following sittings

1. **The union engine's other queries.** `GetIntervals` and the implied
   values, once a modelled rule calls them.
2. **RunBlock extensions.**
   * Several input channels.
   * A block with internal state, to observe inputs offered during reset.
3. **EvaluateProcs with two procs** that share an internal channel.

## 6. Not modelled

* **The union engine's `Populate` lattice** (union_query_engine.cc
  38–57): the pass keeps only `Populate(func).status()` and discards the
  reached-fixpoint result, so the lattice cannot change what the pass
  does.
* **The union engine's intervals, `ImpliedNodeTernary`/`ImpliedNodeValue`
  and `SpecializeGivenPredicate`** (union_query_engine.cc 91–199): no rule
  of the select simplification pass calls them, so in this system their
  results are never read.

* **Name legalization** (`LegalizeNames`, name_legalization_pass.cc
  306–393): the pass errors on a keyword block or port name and renames
  keyword node names with `Node::SetName`. The fresh name comes from the
  function's `NameUniquer`, which is outside `src/` and which the spec leaves
  to the codegen backend. Its only checks (the new name differs and is not a
  keyword) are properties of that uniquer, so a model would check an assumed
  uniquer, not this code.
* **C API:** FFI wrappers with no state.
* **Flag parsing and file I/O.**
* **Tests, build and CI files.**
* **The IR interpreter's full op set:** only the ops the rules create are
  modelled.
* **Array types:** only bits and tuple values are modelled; the pass has
  no array rule, so arrays would only add operands of another type.
