---------------------------- MODULE BoardInputs -----------------------------
(***************************************************************************)
(* The input port of src/boards/Board.h.  The port's uint8_t is the set of *)
(* lines that are asserted.  The lines are wired to two ports of the       *)
(* microcontroller, read one after the other, and may move in between.     *)
(***************************************************************************)
EXTENDS Integers

CONSTANTS
  NumInputs,  (* EVENT_COUNTER_NUM_COUNTERS: 8 on the board     *)
  Bank2       (* The lines of the port read last: line 2 alone  *)

ASSUME InputsAssumption == NumInputs \in Nat

VARIABLES
  inputs,         (* The lines asserted at this moment                    *)
  pinsInputBank1  (* The local of BoardReadDigitalInputs while it is read *)

Input == 0 .. NumInputs - 1

NoRead == {-1}
PinsOfBank1 == inputs \ Bank2
PinsOfBank2 == inputs \intersect Bank2

ReadBank1 ==
  /\ pinsInputBank1 = NoRead
  /\ pinsInputBank1' = PinsOfBank1

(* The value once the second port is read. *)
BoardReadDigitalInputs == pinsInputBank1 \union PinsOfBank2

(* The world outside moves the lines when it likes. *)
LineChange == inputs' \in SUBSET Input

=============================================================================
