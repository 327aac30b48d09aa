------------------------------- MODULE Board --------------------------------
(***************************************************************************)
(* The part of src/boards/Board.h every component needs: a free-running    *)
(* microsecond timer and the arithmetic of its readings.  The components   *)
(* EXTEND this module, so that they share one timer as the linked program  *)
(* does; BoardRelays and BoardInputs add the two ports.                    *)
(***************************************************************************)
EXTENDS Integers

CONSTANTS
  TimerMod,  (* Values of the timer: 2^32 on the board (TIM2, Period 0xffffffff) *)
  MaxLag     (* Bound: ticks between two runs of one task of the main loop       *)

ASSUME BoardAssumption ==
  /\ TimerMod \in Nat \ {0}
  /\ MaxLag \in Nat \ {0}

VARIABLE timer  (* The TIM2 counter *)

Time == 0 .. TimerMod - 1

BoardGetElapsedTimeUs == timer

(* uint32_t subtraction of two readings. *)
ElapsedUs(now, since) == (now - since) % TimerMod

(* The timer counts one microsecond and wraps at its period. *)
TimerTick == timer' = (timer + 1) % TimerMod

(* A clock of the model, not of the code: it stops at one turn of the timer. *)
Aged(age) == IF age < TimerMod THEN age + 1 ELSE age

=============================================================================
