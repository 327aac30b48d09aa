---------------------------- MODULE BoardProofs -----------------------------
(***************************************************************************)
(* The arithmetic of timer readings, for every modulus of the timer.       *)
(***************************************************************************)
EXTENDS Board, TLAPS

(* A reading is the time since itself, plus nothing. *)
LEMMA ElapsedSelf ==
  ASSUME NEW t \in Time
  PROVE  ElapsedUs(t, t) = 0
BY BoardAssumption, Z3 DEF ElapsedUs, Time

(* A difference of readings is again below the timer's modulus. *)
LEMMA ElapsedRange ==
  ASSUME NEW now \in Time, NEW since \in Time
  PROVE  ElapsedUs(now, since) \in Time
BY BoardAssumption, Z3 DEF ElapsedUs, Time

(* The next reading is a reading. *)
LEMMA TickRange ==
  ASSUME NEW t \in Time
  PROVE  (t + 1) % TimerMod \in Time
BY BoardAssumption, Z3 DEF Time

(* One tick later the difference has grown by one, across the wrap of      *)
(* either reading, until it has come all the way round.                    *)
LEMMA ElapsedTick ==
  ASSUME NEW t \in Time, NEW since \in Time,
         ElapsedUs(t, since) + 1 < TimerMod
  PROVE  ElapsedUs((t + 1) % TimerMod, since) = ElapsedUs(t, since) + 1
<1>1. \A x, y \in Time :
        ElapsedUs(x, y) = IF x >= y THEN x - y ELSE x - y + TimerMod
  BY BoardAssumption, Z3 DEF ElapsedUs, Time
<1>2. CASE t + 1 = TimerMod
  <2>1. (t + 1) % TimerMod = 0
    BY <1>2, BoardAssumption, Z3 DEF Time
  <2> QED
    BY <1>1, <1>2, <2>1, BoardAssumption, Z3 DEF Time
<1>3. CASE t + 1 < TimerMod
  <2>1. (t + 1) % TimerMod = t + 1
    BY <1>3, BoardAssumption, Z3 DEF Time
  <2> QED
    BY <1>1, <1>3, <2>1, BoardAssumption, Z3 DEF Time
<1> QED
  BY <1>2, <1>3, BoardAssumption, Z3 DEF Time

(* Of three readings in order, the times between them add up. *)
LEMMA ElapsedSplit ==
  ASSUME NEW t \in Time, NEW s \in Time, NEW r \in Time,
         ElapsedUs(t, s) <= ElapsedUs(t, r)
  PROVE  ElapsedUs(t, r) = ElapsedUs(s, r) + ElapsedUs(t, s)
<1>1. \A x, y \in Time :
        ElapsedUs(x, y) = IF x >= y THEN x - y ELSE x - y + TimerMod
  BY BoardAssumption, Z3 DEF ElapsedUs, Time
<1> QED
  BY <1>1, BoardAssumption, Z3 DEF Time

(* The next value of a counter that wraps is one of its values, and another one. *)
LEMMA WrapRange ==
  ASSUME NEW M \in Nat \ {0, 1}, NEW c \in 0 .. M - 1
  PROVE  (c + 1) % M \in 0 .. M - 1 /\ (c + 1) % M # c
BY Z3

=============================================================================
