----------------------------- MODULE MCWatchdog -----------------------------
(***************************************************************************)
(* Watchdog on a timer of eight values, so that it wraps within two        *)
(* periods, with periods of two and five ticks (5 + MaxLag is one less     *)
(* than a whole turn, the largest the assumption allows) and two relays.   *)
(***************************************************************************)
EXTENDS Watchdog
=============================================================================
