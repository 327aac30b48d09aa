--------------------------- MODULE MCEventCounter ---------------------------
(***************************************************************************)
(* EventCounter with one line on a timer of eight values and debounce      *)
(* times of one and four ticks.                                            *)
(***************************************************************************)
EXTENDS EventCounter
=============================================================================
