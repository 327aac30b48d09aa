----------------------------- MODULE BoardStart -----------------------------
(***************************************************************************)
(* How main() of src/Main.c brings the board up, by BoardInit of           *)
(* src/boards/Relacon_rev1/Board.c and the components' own Init functions. *)
(* The HAL is external: each of its calls that returns a status may fail,  *)
(* and the board then waits for ever; a port or a timer whose clock is     *)
(* still off ignores what is written to it.  The USB stack may fail too,   *)
(* and the board then goes on without it.                                  *)
(***************************************************************************)
EXTENDS Naturals, Sequences

VARIABLES
  returned,    (* How many of main()'s calls before the loop have returned *)
  hung,        (* Whether one of them never will                           *)
  clocked,     (* The peripherals whose clock is on                        *)
  pinsSet,     (* The groups of pins that are configured                *)
  timerRuns,
  attached     (* Whether the USB device answers the host                  *)

startVars == <<returned, hung, clocked, pinsSet, timerRuns, attached>>

(* Mutant: the pins are configured before their ports have a clock. *)
BoardInit_PinsFirst == <<"HAL_Init", "InitPins", "InitClocks", "InitPeripherals">>

BoardInit == <<"HAL_Init", "InitClocks", "InitPins", "InitPeripherals">>

Main == BoardInit \o <<"EventCounterInit", "WatchdogInit", "UsbInit">>

InLoop == returned = Len(Main)

(* The ports of the pins: relay outputs and the two banks of inputs. *)
Port == [Relays |-> "GPIOA", InputsBank1 |-> "GPIOB", InputsBank2 |-> "GPIOA"]

PoweredUp ==
  /\ returned = 0
  /\ hung = FALSE
  /\ clocked = {}
  /\ pinsSet = {}
  /\ timerRuns = FALSE
  /\ attached = FALSE

-----------------------------------------------------------------------------
In(call) == ~hung /\ ~InLoop /\ Main[returned + 1] = call

Returns ==
  /\ returned' = returned + 1
  /\ UNCHANGED hung

HangsForEver ==
  /\ hung' = TRUE
  /\ UNCHANGED <<returned, clocked, pinsSet, timerRuns, attached>>

(* The clocks come on only once both configurations have succeeded. *)
InitClocks ==
  /\ In("InitClocks")
  /\ \/ HangsForEver
     \/ /\ Returns
        /\ clocked' = {"GPIOA", "GPIOB", "TIM2", "USB"}
        /\ UNCHANGED <<pinsSet, timerRuns, attached>>

InitPins ==
  /\ In("InitPins")
  /\ Returns
  /\ pinsSet' = {pins \in DOMAIN Port : Port[pins] \in clocked}
  /\ UNCHANGED <<clocked, timerRuns, attached>>

InitPeripherals ==
  /\ In("InitPeripherals")
  /\ \/ HangsForEver
     \/ /\ Returns
        /\ timerRuns' = ("TIM2" \in clocked)
        /\ UNCHANGED <<clocked, pinsSet, attached>>

(* The calls that touch no peripheral. *)
InitMemory ==
  /\ \E call \in {"HAL_Init", "EventCounterInit", "WatchdogInit"} : In(call)
  /\ Returns
  /\ UNCHANGED <<clocked, pinsSet, timerRuns, attached>>

(* What tusb_init returns is not looked at: without the stack no host is answered. *)
UsbInit ==
  /\ In("UsbInit")
  /\ Returns
  /\ attached' = ("USB" \in clocked) \/ UNCHANGED attached
  /\ UNCHANGED <<clocked, pinsSet, timerRuns>>

Start == InitClocks \/ InitPins \/ InitPeripherals \/ InitMemory \/ UsbInit

=============================================================================
