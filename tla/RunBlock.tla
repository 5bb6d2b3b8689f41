------------------------------ MODULE RunBlock ------------------------------
(***************************************************************************)
(* RunBlock of eval_proc_main: the cycle loop that drives a codegen'd      *)
(* block with one ready/valid input channel, ready/valid output channels   *)
(* whose expected values are checked in order, and optionally one RAM      *)
(* serviced by a MemoryModel.  The block itself is arbitrary: each cycle   *)
(* it may drive any ready, any valid/data on each output, any memory       *)
(* request, and may fire an assertion.                                     *)
(***************************************************************************)
EXTENDS Integers, Sequences

CONSTANTS
  Inputs,          \* the values of the input channel, in order
  OutChannels,     \* names of the expected-output channels
  Expected,        \* [OutChannels -> Seq(Values)]: expected outputs
  MaxNoOutput,     \* RunBlockOptions::max_cycles_no_output
  ProbIsOne,       \* prob_input_valid_assert = 1.0 (Bernoulli always true)
  FailOnAssert,    \* RunBlockOptions::fail_on_assert
  UseMemory,       \* the block has a RAM given to --memory_model
  Size, Values, InitialValue, ReadDisabledValue, WrongWidthValue, None

ASSUME MaxNoOutput \in Nat /\ ProbIsOne \in BOOLEAN /\ UseMemory \in BOOLEAN

VARIABLES
  cycle,             \* the loop's cycle counter
  last_output_cycle, \* cycle of reset or of the last matched output
  inQ,               \* channel_value_queues of the input channel
  outQ,              \* channel_value_queues of the output channels
  mem,               \* the MemoryModel's state
  status,            \* "running", "ok" or the error RunBlock returns
  ports,             \* last cycle's input-channel pins (valid, ready, data)
  last_transaction   \* history: cycle of the last handshake on any channel

vars == <<cycle, last_output_cycle, inQ, outQ, mem, status, ports, last_transaction>>

M == INSTANCE MemoryModel WITH status <- "ok"

Xs == ReadDisabledValue   \* XsOfType: all ones

(* The block's memory request in one cycle: a write (wr_en all ones) of  *)
(* <<wr_addr, wr_data>> and a read (rd_en) of rd_addr, None when disabled; *)
(* addresses include the out-of-range Size.                                *)
MemoryRequests ==
  IF UseMemory THEN {[wr |-> w, rd |-> r] : w \in {None} \cup ((0 .. Size) \X Values),
                                            r \in {None} \cup (0 .. Size)}
               ELSE {[wr |-> None, rd |-> None]}

Init ==
  /\ cycle = 0
  /\ last_output_cycle = 0
  /\ inQ = Inputs
  /\ outQ = Expected
  /\ mem = M!MemoryInit
  /\ status = "running"
  /\ ports = [cycle |-> -1, valid |-> FALSE, ready |-> FALSE, data |-> Xs]
  /\ last_transaction = 0

(* The output-channel checks: an error per channel, or the matched value  *)
(* popped.                                                                 *)
OutputError(o, ch) ==
  CASE o[ch] = None     -> "none"
    [] outQ[ch] = <<>>  -> "past_end"
    [] o[ch] # Head(outQ[ch]) -> "mismatch"
    [] OTHER            -> "none"
Matched(o) == {ch \in OutChannels : o[ch] # None /\ OutputError(o, ch) = "none"}

(* Variant of ServiceMemory that stages the write whatever its status.    *)
ServiceMemoryUnchecked(m, req) ==
  LET m1 == IF req.wr = None THEN m ELSE M!Write(m, req.wr[1], req.wr[2])
      rs == IF req.rd = None THEN "ok" ELSE M!ReadStatus(m1, req.rd)
  IN <<rs, IF req.rd = None \/ rs # "ok" THEN m1 ELSE M!Read(m1, req.rd)>>

(* Memory servicing: Write then Read, each returning on error.             *)
ServiceMemory(m, req) ==
  LET ws == IF req.wr = None THEN "ok" ELSE M!WriteStatus(m, req.wr[1], req.wr[2])
      m1 == IF req.wr = None \/ ws # "ok" THEN m ELSE M!Write(m, req.wr[1], req.wr[2])
      rs == IF req.rd = None THEN "ok" ELSE M!ReadStatus(m1, req.rd)
      m2 == IF req.rd = None \/ rs # "ok" THEN m1 ELSE M!Read(m1, req.rd)
  IN IF ws # "ok" THEN <<ws, m>> ELSE <<rs, m2>>

(* Variant of ResetCycle that does not advance the cycle counter.         *)
ResetCycleStuck ==
  /\ last_output_cycle' = cycle
  /\ UNCHANGED <<cycle, inQ, outQ, mem, status, last_transaction>>

(* The no-output check (cycle - last_output_cycle) > max_cycles_no_output, *)
(* and a variant with >=.                                                  *)
TimedOutEarly(c, last) == c - last >= MaxNoOutput
TimedOut(c, last) == c - last > MaxNoOutput

(* Cycle 0 asserts reset: the loop records it as an output cycle and       *)
(* continues, before any channel or memory servicing.                      *)
ResetCycle ==
  /\ last_output_cycle' = cycle
  /\ cycle' = cycle + 1
  /\ UNCHANGED <<inQ, outQ, mem, status, last_transaction>>

(* A cycle after reset, from input consumption to the memory Tick.         *)
NormalCycle(valid, rdy, o, req) ==
  LET errs    == {OutputError(o, ch) : ch \in OutChannels} \ {"none"}
      inQ1    == IF valid /\ rdy THEN Tail(inQ) ELSE inQ
      outQ1   == [ch \in OutChannels |-> IF ch \in Matched(o) THEN Tail(outQ[ch]) ELSE outQ[ch]]
      lastOut == IF Matched(o) # {} THEN cycle ELSE last_output_cycle
      memRes  == ServiceMemory(mem, req)
  IN /\ inQ' = inQ1
     /\ last_transaction' = IF (valid /\ rdy) \/ Matched(o) # {} THEN cycle ELSE last_transaction
     /\ outQ' = outQ1
     /\ last_output_cycle' = lastOut
     /\ IF errs # {}
          THEN /\ status' = "outputs_mismatch"
               /\ UNCHANGED <<mem, cycle>>
          ELSE    CASE memRes[1] # "ok" ->
                         status' = memRes[1] /\ mem' = memRes[2] /\ UNCHANGED cycle
                    [] \A ch \in OutChannels : outQ1[ch] = <<>> ->
                         status' = "ok" /\ mem' = memRes[2] /\ UNCHANGED cycle
                    [] TimedOut(cycle, lastOut) ->
                         status' = "timeout" /\ mem' = memRes[2] /\ UNCHANGED cycle
                    [] OTHER ->
                         /\ mem' = M!Tick(memRes[2])
                         /\ cycle' = cycle + 1
                         /\ UNCHANGED status

(* One iteration of RunBlock's loop.  asserted_valids is declared inside  *)
(* the loop body, so it is empty whenever valid is computed.               *)
Cycle ==
  /\ status = "running"
  /\ \E go \in IF ProbIsOne THEN {TRUE} ELSE BOOLEAN,
        rdy \in BOOLEAN, o \in [OutChannels -> {None} \cup Values],
        req \in MemoryRequests, asrt \in BOOLEAN :
       LET asserted_valids == {}
           valid == "in" \in asserted_valids \/ (go /\ inQ # <<>>)
       IN /\ ports' = [cycle |-> cycle, valid |-> valid, ready |-> rdy,
                       data |-> IF inQ = <<>> THEN Xs ELSE Head(inQ)]
          /\ IF asrt /\ FailOnAssert
               THEN /\ status' = "assert"
                    /\ UNCHANGED <<cycle, last_output_cycle, inQ, outQ, mem, last_transaction>>
               ELSE IF cycle = 0 THEN ResetCycle
                    ELSE NormalCycle(valid, rdy, o, req)

Next == Cycle

(* The loop body runs again as long as RunBlock has not returned.          *)
Spec == Init /\ [][Next]_vars /\ WF_vars(Next)

-----------------------------------------------------------------------------
MemoryErrors == {"out_of_range", "double_read", "double_write", "bit_count"}

TypeOK ==
  /\ cycle \in Nat /\ last_output_cycle \in 0 .. cycle
  /\ inQ \in Seq(Values) /\ outQ \in [OutChannels -> Seq(Values)]
  /\ status \in {"running", "ok", "timeout", "assert", "outputs_mismatch"} \cup MemoryErrors
  /\ ports \in [cycle : -1 .. cycle, valid : BOOLEAN, ready : BOOLEAN, data : Values]
  /\ mem.cells \in [M!Addr -> Values]
  /\ mem.write_this_tick \in (M!Addr \X Values) \cup {None}
  /\ {mem.read_this_tick, mem.read_last_tick} \subseteq Values \cup {None}

(* The no-output timeout fires exactly when the block has gone             *)
(* max_cycles_no_output + 1 cycles after reset or its last matched output  *)
(* without producing one, never earlier, and the loop never runs past      *)
(* that cycle.                                                             *)
TimeoutExact ==
  /\ status = "timeout" => cycle - last_output_cycle = MaxNoOutput + 1
  /\ status = "running" => cycle - last_output_cycle <= MaxNoOutput + 1

(* RunBlock calls the memory model at most once per port per tick: a      *)
(* double read or double write, which MemoryModel rejects, never happens   *)
(* (in particular the reset cycle, which skips Tick, issues no request).   *)
MemoryNeverMisused == status \notin {"double_read", "double_write"}

(* RunBlock always returns: whatever the block does, the loop ends with   *)
(* success, an error or the no-output timeout.                             *)
Termination == <>(status # "running")

(* Ready/valid protocol (spec: valid stays asserted until acknowledged,    *)
(* "sticky-valid, to avoid protocol violations"): after a cycle past reset *)
(* in which the harness drove the input's valid high and the block did not *)
(* take it, the next cycle drives valid high again with the same data.     *)
ValidHeldUntilHandshake ==
  [][ports.cycle > 0 /\ ports.valid /\ ~ports.ready
       => ports'.valid /\ ports'.data = ports.data]_ports

(* Spec: the run fails when max_cycles_no_output consecutive cycles pass   *)
(* with no channel transaction; a block that keeps accepting inputs is     *)
(* not timed out.                                                          *)
TimeoutOnlyWithoutTransactions ==
  status = "timeout" => cycle - last_transaction > MaxNoOutput
====
