---------------------------- MODULE EventCounter ----------------------------
(***************************************************************************)
(* src/EventCounter.c: one debounced 16-bit counter of rising edges for    *)
(* each input line.  EventCounterTask reads the timer and then the lines,  *)
(* one port after the other; interrupts may run between any two of these   *)
(* reads, so time passes and lines move there too.                         *)
(*                                                                         *)
(* History variables, which no step of the code reads: for each line the   *)
(* real time since its last event was counted, the least and the greatest  *)
(* debounce time in force since, and whether the line has been released    *)
(* since; and the time since the timer was last sampled.                   *)
(***************************************************************************)
EXTENDS Board, BoardInputs

CONSTANTS
  CountMod,                 (* Values of a counter: 2^16 in the code         *)
  DebounceTimes,            (* The times EventCounterDebounceTimeSet is given *)
  DEFAULT_DEBOUNCE_TIME_US, (* 1000 in the code                              *)
  MaxSkew                   (* Bound: ticks between the first and the last read of a pass *)

ASSUME EventCounterAssumption ==
  /\ CountMod \in Nat \ {0, 1}
  /\ MaxSkew \in 0 .. MaxLag
  /\ DEFAULT_DEBOUNCE_TIME_US \in DebounceTimes
  /\ \A d \in DebounceTimes : d \in Nat /\ d + MaxLag + MaxSkew < TimerMod

VARIABLES
  Counters,
  DebounceTimeUs,
  sampleTime,  (* The local of EventCounterTask while a pass is under way   *)
  age,         (* History: real time since the last event of each line      *)
  shortest,    (* History: least debounce time in force since that event    *)
  longest,     (* History: greatest one                                     *)
  released,    (* History: a pass has read the line low outside the window: *)
               (* "No", "Maybe" or "Surely", given the skew of the reads    *)
  counterLag   (* History: real time since the timer was last sampled       *)

counterHistory == <<age, shortest, longest, released>>
counterState == <<Counters, DebounceTimeUs, sampleTime, pinsInputBank1>>
counterVars == <<timer, inputs, counterState, counterHistory, counterLag>>

NoSample == -1
Sampling == sampleTime # NoSample

DebounceState == {"WAITING_FOR_RISING_EDGE", "SETTLING", "WAITING_FOR_FALLING_EDGE"}
EventCounterRecord ==
  [State : DebounceState, RisingEdgeTime : Time, Count : 0 .. CountMod - 1]

EventCounterTypeOK ==
  /\ timer \in Time
  /\ inputs \in SUBSET Input
  /\ pinsInputBank1 \in (SUBSET Input) \union {NoRead}
  /\ ~Sampling => pinsInputBank1 = NoRead
  /\ Counters \in [Input -> EventCounterRecord]
  /\ DebounceTimeUs \in DebounceTimes
  /\ sampleTime \in Time \union {NoSample}
  /\ age \in [Input -> 0 .. TimerMod]
  /\ shortest \in [Input -> DebounceTimes]
  /\ longest \in [Input -> DebounceTimes]
  /\ released \in [Input -> {"No", "Maybe", "Surely"}]
  /\ counterLag \in 0 .. IF Sampling THEN MaxSkew ELSE MaxLag

-----------------------------------------------------------------------------
(* A line that is asserted at power-up counts as an event. *)
EventCounterInit ==
  /\ Counters = [i \in Input |-> [State |-> "WAITING_FOR_RISING_EDGE",
                                  RisingEdgeTime |-> 0, Count |-> 0]]
  /\ DebounceTimeUs = DEFAULT_DEBOUNCE_TIME_US
  /\ sampleTime = NoSample
  /\ pinsInputBank1 = NoRead
  /\ age = [i \in Input |-> TimerMod]
  /\ shortest = [i \in Input |-> DEFAULT_DEBOUNCE_TIME_US]
  /\ longest = [i \in Input |-> DEFAULT_DEBOUNCE_TIME_US]
  /\ released = [i \in Input |-> "Surely"]
  /\ counterLag = 0

(* Mutant: the window closes one tick early. *)
DebounceElapsed_OffByOne(counter) ==
  ElapsedUs(sampleTime, counter.RisingEdgeTime) >= DebounceTimeUs

(* Mutant: the deadline is compared with the reading, which breaks at the wrap. *)
DebounceElapsed_AbsoluteDeadline(counter) ==
  sampleTime > counter.RisingEdgeTime + DebounceTimeUs

DebounceElapsed(counter) ==
  ElapsedUs(sampleTime, counter.RisingEdgeTime) > DebounceTimeUs

(* Mutant: a wider integer that does not wrap. *)
CountEvent_NoWrap(counter) ==
  [State |-> "SETTLING", RisingEdgeTime |-> sampleTime, Count |-> counter.Count + 1]

CountEvent(counter) ==
  [State |-> "SETTLING", RisingEdgeTime |-> sampleTime,
   Count |-> (counter.Count + 1) % CountMod]

(* Mutant: the window always closes on a released line. *)
Settle_IgnoresInput(counter, asserted) ==
  [counter EXCEPT !.State = "WAITING_FOR_RISING_EDGE"]

Settle(counter, asserted) ==
  [counter EXCEPT !.State = IF asserted THEN "WAITING_FOR_FALLING_EDGE"
                                        ELSE "WAITING_FOR_RISING_EDGE"]

(* Mutant: the counter never leaves its last state. *)
Release_Forgotten(counter) == counter

Release(counter) == [counter EXCEPT !.State = "WAITING_FOR_RISING_EDGE"]

(* One turn of the loop over the counters. *)
Sampled(counter, asserted) ==
  CASE counter.State = "WAITING_FOR_RISING_EDGE" /\ asserted -> CountEvent(counter)
    [] counter.State = "SETTLING" /\ DebounceElapsed(counter) -> Settle(counter, asserted)
    [] counter.State = "WAITING_FOR_FALLING_EDGE" /\ ~asserted -> Release(counter)
    [] OTHER -> counter

EventCounterTaskStart ==
  /\ ~Sampling
  /\ sampleTime' = BoardGetElapsedTimeUs
  /\ counterLag' = 0
  /\ UNCHANGED <<timer, inputs, pinsInputBank1, Counters, DebounceTimeUs, counterHistory>>

EventCounterTaskReadBank1 ==
  /\ Sampling
  /\ ReadBank1
  /\ UNCHANGED <<timer, inputs, sampleTime, Counters, DebounceTimeUs, counterHistory,
                 counterLag>>

(* The history of a pass, from what it did to the counts. *)
Observe ==
  LET counted(i) == Counters'[i].Count # Counters[i].Count
      readLow(i) == i \notin BoardReadDigitalInputs
  IN /\ age' = [i \in Input |-> IF counted(i) THEN 0 ELSE age[i]]
     /\ shortest' = [i \in Input |-> IF counted(i) THEN DebounceTimeUs ELSE shortest[i]]
     /\ longest' = [i \in Input |-> IF counted(i) THEN DebounceTimeUs ELSE longest[i]]
     /\ released' = [i \in Input |->
          IF counted(i) THEN "No"
          ELSE IF readLow(i) /\ age[i] > longest[i] + MaxSkew THEN "Surely"
          ELSE IF readLow(i) /\ age[i] + MaxSkew > shortest[i] /\ released[i] = "No"
            THEN "Maybe"
          ELSE released[i]]

EventCounterTask ==
  /\ Sampling
  /\ pinsInputBank1 # NoRead
  /\ Counters' = [i \in Input |-> Sampled(Counters[i], i \in BoardReadDigitalInputs)]
  /\ Observe
  /\ sampleTime' = NoSample
  /\ pinsInputBank1' = NoRead
  /\ UNCHANGED <<timer, inputs, DebounceTimeUs, counterLag>>

(* What EventCounterRead returns, and what its resetAfterRead does. *)
EventCounterRead(index) == IF index \in Input THEN Counters[index].Count ELSE 0

EventCounterReset(index) ==
  Counters' = [i \in Input |-> IF i = index THEN [Counters[i] EXCEPT !.Count = 0]
                                            ELSE Counters[i]]

EventCounterDebounceTimeSet(debounceTimeUs) ==
  /\ DebounceTimeUs' = debounceTimeUs
  /\ shortest' = [i \in Input |->
       IF debounceTimeUs < shortest[i] THEN debounceTimeUs ELSE shortest[i]]
  /\ longest' = [i \in Input |->
       IF debounceTimeUs > longest[i] THEN debounceTimeUs ELSE longest[i]]

EventCounterDebounceTimeGet == DebounceTimeUs

-----------------------------------------------------------------------------
(* What the rest of the firmware does to the counters, between two passes. *)
CounterCommand ==
  /\ ~Sampling
  /\ \/ /\ \E i \in Input : EventCounterReset(i)
        /\ UNCHANGED <<DebounceTimeUs, shortest, longest>>
     \/ /\ \E d \in DebounceTimes : EventCounterDebounceTimeSet(d)
        /\ UNCHANGED Counters
  /\ UNCHANGED <<timer, inputs, pinsInputBank1, sampleTime, age, released, counterLag>>

(* The main loop is back within MaxLag, and a pass is interrupted for at   *)
(* most MaxSkew.                                                           *)
CounterAges ==
  /\ counterLag < IF Sampling THEN MaxSkew ELSE MaxLag
  /\ counterLag' = counterLag + 1
  /\ age' = [i \in Input |-> Aged(age[i])]

CounterTick ==
  /\ TimerTick
  /\ CounterAges
  /\ UNCHANGED <<inputs, counterState, shortest, longest, released>>

CounterLineChange ==
  /\ LineChange
  /\ UNCHANGED <<timer, counterState, counterHistory, counterLag>>

(* BoardInit started the timer some time ago. *)
CounterStart ==
  /\ timer \in Time
  /\ inputs \in SUBSET Input
  /\ EventCounterInit

CounterNext ==
  \/ CounterTick
  \/ CounterLineChange
  \/ EventCounterTaskStart
  \/ EventCounterTaskReadBank1
  \/ EventCounterTask
  \/ CounterCommand

CounterSpec == CounterStart /\ [][CounterNext]_counterVars

(* The main loop and the timer go on for ever. *)
CounterFairSpec ==
  /\ CounterSpec
  /\ WF_counterVars(CounterTick)
  /\ WF_counterVars(EventCounterTaskStart)
  /\ WF_counterVars(EventCounterTaskReadBank1)
  /\ WF_counterVars(EventCounterTask)

-----------------------------------------------------------------------------
(***************************************************************************)
(* Debouncing (EventCounter.h:62-66, EventCounter.c:80-103): an event is   *)
(* counted only if the line was read low since the last one, by a pass no  *)
(* sooner after it than the debounce time, within the skew of the reads,   *)
(* the line's bank being read first or last (Board.c:281-282).             *)
(***************************************************************************)
DebounceHonoured ==
  [][\A i \in Input :
       Counters'[i].Count = Counters[i].Count + 1 => released[i] # "No"]_counterVars

(***************************************************************************)
(* And none is missed: once a pass has read the line low when the window   *)
(* was surely over, the next pass that reads it high counts it, whatever   *)
(* the timer and the debounce setting have done in between.                *)
(***************************************************************************)
NoMissedEvent ==
  [][\A i \in Input :
       (Sampling /\ ~Sampling' /\ released[i] = "Surely"
          /\ i \in BoardReadDigitalInputs)
         => Counters'[i].Count = (Counters[i].Count + 1) % CountMod]_counterVars

(***************************************************************************)
(* Why both hold: while a counter settles, its timer reading measures the  *)
(* real time since the event within the skew (EventCounter.c:70-71, 91)    *)
(* and cannot come round before a pass has closed the window.              *)
(***************************************************************************)
Settling(i) ==
  LET elapsed == ElapsedUs(timer, Counters[i].RisingEdgeTime)
  IN /\ age[i] <= elapsed
     /\ elapsed <= age[i] + MaxSkew
     /\ counterLag <= elapsed
     /\ elapsed <= longest[i] + counterLag + IF Sampling THEN MaxLag ELSE 0

LineInv(i) ==
  /\ shortest[i] <= DebounceTimeUs
  /\ DebounceTimeUs <= longest[i]
  /\ Counters[i].State = "SETTLING" => Settling(i)
  /\ Counters[i].State = "WAITING_FOR_FALLING_EDGE" => age[i] + MaxSkew > shortest[i]
  /\ Counters[i].State = "WAITING_FOR_RISING_EDGE" => released[i] # "No"
  /\ released[i] = "Surely" => Counters[i].State = "WAITING_FOR_RISING_EDGE"

EventCounterInv ==
  /\ Sampling => ElapsedUs(timer, sampleTime) = counterLag
  /\ \A i \in Input : LineInv(i)

(***************************************************************************)
(* A line that is released for good is in the end ready for the next event *)
(* (EventCounter.c:89-103).                                                *)
(***************************************************************************)
Rearmed ==
  \A i \in Input :
    <>[](i \notin inputs) => <>[](Counters[i].State = "WAITING_FOR_RISING_EDGE")

=============================================================================
