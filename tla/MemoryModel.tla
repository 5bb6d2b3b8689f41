---------------------------- MODULE MemoryModel ----------------------------
(***************************************************************************)
(* class MemoryModel of eval_proc_main: a RAM whose reads and writes are   *)
(* staged during a tick and take effect at Tick().  Its state is one       *)
(* record; the operators below are its methods, so that RunBlock can call  *)
(* them on its own copy, and the actions drive the class through its API  *)
(* in any order.                                                           *)
(***************************************************************************)
EXTENDS Integers

CONSTANTS
  Size,              \* cells_.size()
  Values,            \* the values of the cells' type
  InitialValue,      \* the value every cell starts with
  ReadDisabledValue, \* read_disabled_value_ (XsOfType: all ones)
  WrongWidthValue,   \* a value whose bit count differs from the cells'
  None               \* an empty std::optional

VARIABLES mem, status

Addr == 0 .. Size - 1

(* MemoryModel(name, size, initial_value, read_disabled_value, ...).       *)
MemoryInit ==
  [cells |-> [a \in Addr |-> InitialValue],
   write_this_tick |-> None, read_this_tick |-> None, read_last_tick |-> None]

(* Read(addr): the status it returns, and the state when it is Ok.         *)
ReadStatus(m, addr) ==
  CASE addr \notin Addr             -> "out_of_range"
    [] m.read_this_tick # None      -> "double_read"
    [] OTHER                        -> "ok"
(* Variant of Read that forwards a write staged in the same tick.         *)
ReadForwardingWrite(m, addr) ==
  [m EXCEPT !.read_this_tick =
     IF m.write_this_tick # None /\ m.write_this_tick[1] = addr
       THEN m.write_this_tick[2] ELSE m.cells[addr]]
Read(m, addr) == [m EXCEPT !.read_this_tick = m.cells[addr]]

GetValueReadLastTick(m) ==
  IF m.read_last_tick = None THEN ReadDisabledValue ELSE m.read_last_tick

(* Variant of WriteStatus without the bit-count check.                    *)
WriteStatusNoWidthCheck(m, addr, value) ==
  CASE addr \notin Addr             -> "out_of_range"
    [] m.write_this_tick # None     -> "double_write"
    [] OTHER                        -> "ok"

(* Write(addr, value).                                                     *)
WriteStatus(m, addr, value) ==
  CASE addr \notin Addr             -> "out_of_range"
    [] m.write_this_tick # None     -> "double_write"
    [] value = WrongWidthValue      -> "bit_count"
    [] OTHER                        -> "ok"
Write(m, addr, value) == [m EXCEPT !.write_this_tick = <<addr, value>>]

(* Variant of Tick that does not clear this tick's read.                 *)
TickKeepsRead(m) ==
  [m EXCEPT
     !.cells = IF m.write_this_tick = None THEN @
               ELSE [@ EXCEPT ![m.write_this_tick[1]] = m.write_this_tick[2]],
     !.write_this_tick = None,
     !.read_last_tick = m.read_this_tick]

(* Tick(): commit the staged write, then make this tick's read visible.    *)
Tick(m) ==
  [m EXCEPT
     !.cells = IF m.write_this_tick = None THEN @
               ELSE [@ EXCEPT ![m.write_this_tick[1]] = m.write_this_tick[2]],
     !.write_this_tick = None,
     !.read_last_tick = m.read_this_tick,
     !.read_this_tick = None]

-----------------------------------------------------------------------------
(* The class driven through its API: any call, with in-range and           *)
(* out-of-range addresses; an error status ends the run.                   *)

ApiAddr == -1 .. Size

Init == mem = MemoryInit /\ status = "ok"

DoRead ==
  /\ status = "ok"
  /\ \E a \in ApiAddr :
       IF ReadStatus(mem, a) = "ok"
         THEN mem' = Read(mem, a) /\ UNCHANGED status
         ELSE status' = ReadStatus(mem, a) /\ UNCHANGED mem

DoWrite ==
  /\ status = "ok"
  /\ \E a \in ApiAddr, v \in Values \cup {WrongWidthValue} :
       IF WriteStatus(mem, a, v) = "ok"
         THEN mem' = Write(mem, a, v) /\ UNCHANGED status
         ELSE status' = WriteStatus(mem, a, v) /\ UNCHANGED mem

DoTick ==
  /\ status = "ok"
  /\ mem' = Tick(mem)
  /\ UNCHANGED status

Next == DoRead \/ DoWrite \/ DoTick

Spec == Init /\ [][Next]_<<mem, status>>

-----------------------------------------------------------------------------
TypeOK ==
  /\ mem.cells \in [Addr -> Values]
  /\ mem.write_this_tick \in (Addr \X Values) \cup {None}
  /\ mem.read_this_tick \in Values \cup {None}
  /\ mem.read_last_tick \in Values \cup {None}
  /\ status \in {"ok", "out_of_range", "double_read", "double_write", "bit_count"}

(* The staged reads and writes of MemoryModel implement a synchronous      *)
(* read-first RAM: the cells change only at Tick, the read data a block    *)
(* sees after Tick is what the cell held when the read was issued in the   *)
(* tick before (even if the same tick wrote that cell), and the read       *)
(* disabled value when no read was issued.  An error status is a failure. *)
Abstract == INSTANCE SyncRam WITH
  cells <- mem.cells, rd_data <- GetValueReadLastTick(mem), failed <- status # "ok"
ImplementsSyncRam == Abstract!Spec
====
