------------------------------ MODULE SyncRam ------------------------------
(***************************************************************************)
(* What eval_proc_main's memory model promises a block: a synchronous RAM  *)
(* with one read and one write port.  Each clock edge commits at most one  *)
(* write, and the read data seen in the next cycle is the cell's content   *)
(* before that write (read-first), or the read-disabled value when no read *)
(* was issued.  Any operation may instead fail the run.                    *)
(***************************************************************************)
EXTENDS Integers

CONSTANTS Size, Values, InitialValue, ReadDisabledValue, None

VARIABLES cells, rd_data, failed

Addr == 0 .. Size - 1

Init ==
  /\ cells = [a \in Addr |-> InitialValue]
  /\ rd_data = ReadDisabledValue
  /\ failed = FALSE

ClockEdge ==
  /\ ~failed
  /\ \E r \in Addr \cup {None}, w \in (Addr \X Values) \cup {None} :
       /\ cells' = IF w = None THEN cells ELSE [cells EXCEPT ![w[1]] = w[2]]
       /\ rd_data' = IF r = None THEN ReadDisabledValue ELSE cells[r]
  /\ UNCHANGED failed

Fail ==
  /\ ~failed
  /\ failed' = TRUE
  /\ UNCHANGED <<cells, rd_data>>

Spec == Init /\ [][ClockEdge \/ Fail]_<<cells, rd_data, failed>>
====
