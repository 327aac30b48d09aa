------------------------- MODULE EventCounterProofs -------------------------
(***************************************************************************)
(* Proofs about EventCounter for every timer width, every width of the     *)
(* counters, every number of lines and every set of debounce times that    *)
(* leaves room for one loop before the timer comes round.                  *)
(***************************************************************************)
EXTENDS EventCounter, BoardProofs

-----------------------------------------------------------------------------
(* One turn of the loop over the counters yields a counter. *)
LEMMA SampledType ==
  ASSUME NEW counter \in EventCounterRecord, NEW asserted \in BOOLEAN,
         sampleTime \in Time
  PROVE  Sampled(counter, asserted) \in EventCounterRecord
<1>1. (counter.Count + 1) % CountMod \in 0 .. CountMod - 1
  BY EventCounterAssumption, WrapRange DEF EventCounterRecord
<1>2. CountEvent(counter) \in EventCounterRecord
  BY <1>1 DEF CountEvent, EventCounterRecord, DebounceState
<1>3. Settle(counter, asserted) \in EventCounterRecord
  BY DEF Settle, EventCounterRecord, DebounceState
<1>4. Release(counter) \in EventCounterRecord
  BY DEF Release, EventCounterRecord, DebounceState
<1> QED
  BY <1>2, <1>3, <1>4 DEF Sampled

(***************************************************************************)
(* The variables keep their types: a counter is a state, a reading and a   *)
(* count below the wrap (EventCounter.c:43-48).                            *)
(***************************************************************************)
THEOREM EventCounterTypeCorrect == CounterSpec => []EventCounterTypeOK
<1>1. CounterStart => EventCounterTypeOK
  <2> SUFFICES ASSUME CounterStart PROVE EventCounterTypeOK
    OBVIOUS
  <2>1. Counters \in [Input -> EventCounterRecord]
    BY BoardAssumption, EventCounterAssumption
    DEF CounterStart, EventCounterInit, EventCounterRecord, DebounceState, Time
  <2>2. counterLag \in 0 .. IF Sampling THEN MaxSkew ELSE MaxLag
    BY BoardAssumption DEF CounterStart, EventCounterInit, Sampling
  <2>3. pinsInputBank1 = NoRead
    BY DEF CounterStart, EventCounterInit
  <2> QED
    BY <2>1, <2>2, <2>3, BoardAssumption, EventCounterAssumption
    DEF CounterStart, EventCounterInit, EventCounterTypeOK
<1>2. EventCounterTypeOK /\ [CounterNext]_counterVars => EventCounterTypeOK'
  <2> SUFFICES ASSUME EventCounterTypeOK, [CounterNext]_counterVars
               PROVE  EventCounterTypeOK'
    OBVIOUS
  <2> USE DEF EventCounterTypeOK
  <2>1. CASE CounterTick
    <3>1. timer' \in Time
      BY <2>1, TickRange DEF CounterTick, TimerTick
    <3>2. age' \in [Input -> 0 .. TimerMod]
      BY <2>1, BoardAssumption DEF CounterTick, CounterAges, Aged
    <3>3. counterLag' \in 0 .. IF Sampling THEN MaxSkew ELSE MaxLag
      BY <2>1, BoardAssumption, EventCounterAssumption DEF CounterTick, CounterAges
    <3> QED
      BY <2>1, <3>1, <3>2, <3>3 DEF CounterTick, counterState, Sampling
  <2>2. CASE CounterLineChange
    BY <2>2 DEF CounterLineChange, LineChange, counterState, counterHistory, Sampling
  <2>3. CASE EventCounterTaskStart
    <3>1. counterLag' \in 0 .. IF Sampling' THEN MaxSkew ELSE MaxLag
      BY <2>3, BoardAssumption, EventCounterAssumption DEF EventCounterTaskStart
    <3> QED
      BY <2>3, <3>1 DEF EventCounterTaskStart, counterHistory, BoardGetElapsedTimeUs
  <2>4. CASE EventCounterTask
    <3>1. sampleTime \in Time
      BY <2>4 DEF EventCounterTask, Sampling
    <3>2. Counters' \in [Input -> EventCounterRecord]
      <4>1. ASSUME NEW i \in Input
            PROVE  Sampled(Counters[i], i \in BoardReadDigitalInputs) \in EventCounterRecord
        <5>1. Counters[i] \in EventCounterRecord /\ (i \in BoardReadDigitalInputs) \in BOOLEAN
          OBVIOUS
        <5> QED
          BY <3>1, <5>1, SampledType, Zenon
      <4> QED
        BY <2>4, <4>1 DEF EventCounterTask
    <3>3. /\ age' \in [Input -> 0 .. TimerMod]
          /\ shortest' \in [Input -> DebounceTimes]
          /\ longest' \in [Input -> DebounceTimes]
      BY <2>4, BoardAssumption DEF EventCounterTask, Observe
    <3>4. released' \in [Input -> {"No", "Maybe", "Surely"}]
      BY <2>4 DEF EventCounterTask, Observe
    <3>5. counterLag' \in 0 .. IF Sampling' THEN MaxSkew ELSE MaxLag
      BY <2>4, BoardAssumption, EventCounterAssumption DEF EventCounterTask, Sampling
    <3>6. /\ DebounceTimeUs' \in DebounceTimes /\ sampleTime' = NoSample
          /\ pinsInputBank1' = NoRead /\ timer' \in Time /\ inputs' \in SUBSET Input
      BY <2>4 DEF EventCounterTask
    <3> QED
      BY <3>2, <3>3, <3>4, <3>5, <3>6
  <2>5. CASE CounterCommand
    <3>1. Counters' \in [Input -> EventCounterRecord]
      <4>1. ASSUME NEW i \in Input, EventCounterReset(i)
            PROVE  Counters' \in [Input -> EventCounterRecord]
        BY <4>1, EventCounterAssumption DEF EventCounterReset, EventCounterRecord
      <4> QED
        BY <2>5, <4>1 DEF CounterCommand
    <3>2. /\ DebounceTimeUs' \in DebounceTimes
          /\ shortest' \in [Input -> DebounceTimes]
          /\ longest' \in [Input -> DebounceTimes]
      BY <2>5 DEF CounterCommand, EventCounterDebounceTimeSet
    <3> QED
      BY <2>5, <3>1, <3>2 DEF CounterCommand, Sampling
  <2>6. CASE EventCounterTaskReadBank1
    BY <2>6 DEF EventCounterTaskReadBank1, ReadBank1, PinsOfBank1, counterHistory, Sampling
  <2>7. CASE UNCHANGED counterVars
    BY <2>7 DEF counterVars, counterState, counterHistory, Sampling
  <2> QED
    BY <2>1, <2>2, <2>3, <2>4, <2>5, <2>6, <2>7 DEF CounterNext
<1> QED
  BY <1>1, <1>2, PTL DEF CounterSpec

-----------------------------------------------------------------------------
(* Debounce times are small against the timer. *)
LEMMA DebounceBound ==
  ASSUME NEW d \in DebounceTimes
  PROVE  d \in Nat /\ d + MaxLag + MaxSkew < TimerMod
BY EventCounterAssumption

(* A counter that has not been touched keeps its invariant if the clocks   *)
(* and the debounce settings only grow apart.                              *)
LEMMA TickKeepsLine ==
  ASSUME EventCounterTypeOK, CounterTick, NEW i \in Input, LineInv(i)
  PROVE  LineInv(i)'
<1> USE DEF EventCounterTypeOK
<1>0. /\ Counters' = Counters /\ sampleTime' = sampleTime
      /\ DebounceTimeUs' = DebounceTimeUs
      /\ shortest' = shortest /\ longest' = longest /\ released' = released
      /\ Sampling' = Sampling
      /\ timer' = (timer + 1) % TimerMod
      /\ counterLag < (IF Sampling THEN MaxSkew ELSE MaxLag)
      /\ counterLag' = counterLag + 1
      /\ age'[i] = Aged(age[i])
  BY DEF CounterTick, counterState, Sampling, TimerTick, CounterAges
<1>1. age[i] \in Nat /\ age'[i] \in Nat /\ age'[i] >= age[i]
  BY <1>0, BoardAssumption DEF Aged
<1>2. ASSUME Counters[i].State = "SETTLING" PROVE Settling(i)'
  <2> DEFINE r == Counters[i].RisingEdgeTime
             e == ElapsedUs(timer, r)
  <2>1. r \in Time
    BY DEF EventCounterRecord
  <2>2. /\ age[i] <= e /\ e <= age[i] + MaxSkew /\ counterLag <= e
        /\ e <= longest[i] + counterLag + (IF Sampling THEN MaxLag ELSE 0)
    BY <1>2 DEF LineInv, Settling
  <2>3. e \in Time
    BY <2>1, ElapsedRange
  <2>4. longest[i] \in Nat /\ longest[i] + MaxLag + MaxSkew < TimerMod
    BY DebounceBound
  <2>5. counterLag \in Nat /\ MaxSkew \in Nat /\ MaxLag \in Nat
    BY BoardAssumption, EventCounterAssumption
  <2> HIDE DEF e, r
  <2>6. e + 1 < TimerMod
    BY <1>0, <2>2, <2>3, <2>4, <2>5, BoardAssumption, Z3 DEF Time
  <2>7. ElapsedUs(timer', r) = e + 1
    BY <1>0, <2>1, <2>6, ElapsedTick DEF e
  <2>8. age'[i] = age[i] + 1
    BY <1>0, <1>1, <2>2, <2>3, <2>6, BoardAssumption DEF Aged, Time
  <2>9. /\ age'[i] <= e + 1 /\ e + 1 <= age'[i] + MaxSkew /\ counterLag' <= e + 1
        /\ e + 1 <= longest[i] + counterLag' + (IF Sampling THEN MaxLag ELSE 0)
    BY <1>0, <1>1, <2>2, <2>3, <2>4, <2>5, <2>8, BoardAssumption, Z3 DEF Time
  <2> QED
    BY <1>0, <2>7, <2>9 DEF Settling, r
<1>3. ASSUME Counters[i].State = "WAITING_FOR_FALLING_EDGE"
      PROVE  age'[i] + MaxSkew > shortest[i]
  <2>1. age[i] + MaxSkew > shortest[i]
    BY <1>3 DEF LineInv
  <2>2. shortest[i] \in Nat /\ MaxSkew \in Nat
    BY DebounceBound, BoardAssumption, EventCounterAssumption
  <2> QED
    BY <1>1, <2>1, <2>2
<1> QED
  BY <1>0, <1>2, <1>3 DEF LineInv

(* A pass keeps the invariant of every line (EventCounter.c:73-105). *)
LEMMA TaskKeepsLine ==
  ASSUME EventCounterTypeOK, EventCounterInv, EventCounterTask, NEW i \in Input
  PROVE  LineInv(i)'
<1> DEFINE c == Counters[i]
           high == i \in BoardReadDigitalInputs
           e == ElapsedUs(timer, c.RisingEdgeTime)
           now == ElapsedUs(sampleTime, c.RisingEdgeTime)
<1>1. /\ sampleTime \in Time /\ timer \in Time
      /\ c \in EventCounterRecord
      /\ c.RisingEdgeTime \in Time
      /\ age[i] \in 0 .. TimerMod
      /\ counterLag \in 0 .. MaxSkew
  BY DEF EventCounterTask, Sampling, EventCounterTypeOK, EventCounterRecord
<1>2. /\ MaxSkew \in Nat /\ MaxLag \in Nat /\ MaxSkew <= MaxLag /\ TimerMod \in Nat
      /\ shortest[i] \in Nat /\ longest[i] \in Nat /\ DebounceTimeUs \in Nat
  BY DebounceBound, BoardAssumption, EventCounterAssumption DEF EventCounterTypeOK
<1>3. /\ Counters'[i] = Sampled(c, high)
      /\ timer' = timer /\ DebounceTimeUs' = DebounceTimeUs
      /\ counterLag' = counterLag /\ ~Sampling'
  BY DEF EventCounterTask, Sampling
<1>4. /\ age'[i] = IF Counters'[i].Count # c.Count THEN 0 ELSE age[i]
      /\ shortest'[i] = IF Counters'[i].Count # c.Count THEN DebounceTimeUs ELSE shortest[i]
      /\ longest'[i] = IF Counters'[i].Count # c.Count THEN DebounceTimeUs ELSE longest[i]
      /\ released'[i] = IF Counters'[i].Count # c.Count THEN "No"
           ELSE IF ~high /\ age[i] > longest[i] + MaxSkew THEN "Surely"
           ELSE IF ~high /\ age[i] + MaxSkew > shortest[i] /\ released[i] = "No"
             THEN "Maybe"
           ELSE released[i]
  BY DEF EventCounterTask, Observe
<1>5. LineInv(i) /\ ElapsedUs(timer, sampleTime) = counterLag
  BY DEF EventCounterInv, EventCounterTask
<1>6. /\ shortest[i] <= DebounceTimeUs /\ DebounceTimeUs <= longest[i]
      /\ c.State = "WAITING_FOR_FALLING_EDGE" => age[i] + MaxSkew > shortest[i]
      /\ c.State = "WAITING_FOR_RISING_EDGE" => released[i] # "No"
      /\ released[i] = "Surely" => c.State = "WAITING_FOR_RISING_EDGE"
  BY <1>5 DEF LineInv
<1>7. ASSUME c.State = "SETTLING"
      PROVE  /\ e = now + counterLag /\ now \in Nat /\ e \in Nat
             /\ age[i] <= e /\ e <= age[i] + MaxSkew /\ counterLag <= e
  <2>1. age[i] <= e /\ e <= age[i] + MaxSkew /\ counterLag <= e
    BY <1>5, <1>7 DEF LineInv, Settling
  <2>2. e = now + counterLag
    BY <1>1, <1>5, <2>1, ElapsedSplit
  <2>3. now \in Time /\ e \in Time
    BY <1>1, ElapsedRange
  <2>4. now \in Nat /\ e \in Nat
    BY <2>3 DEF Time
  <2> QED
    BY <2>1, <2>2, <2>4
<1>8. c.State \in DebounceState
  BY <1>1 DEF EventCounterRecord
<1>9. DebounceElapsed(c) <=> now > DebounceTimeUs
  BY DEF DebounceElapsed
<1> HIDE DEF c, high, e, now
<1>10. CASE c.State = "WAITING_FOR_RISING_EDGE" /\ high
  <2>1. Counters'[i] = CountEvent(c)
    BY <1>3, <1>10 DEF Sampled
  <2>2. /\ Counters'[i].Count # c.Count
        /\ Counters'[i].State = "SETTLING" /\ Counters'[i].RisingEdgeTime = sampleTime
    BY <1>1, <2>1, EventCounterAssumption, WrapRange DEF CountEvent, EventCounterRecord
  <2>3. /\ age'[i] = 0 /\ shortest'[i] = DebounceTimeUs /\ longest'[i] = DebounceTimeUs
        /\ released'[i] = "No"
    BY <1>4, <2>2
  <2>4. Settling(i)'
    BY <1>1, <1>2, <1>3, <1>5, <2>2, <2>3 DEF Settling
  <2> QED
    BY <1>2, <1>3, <2>2, <2>3, <2>4 DEF LineInv
<1>11. CASE c.State = "WAITING_FOR_RISING_EDGE" /\ ~high
  <2>1. Counters'[i] = c
    BY <1>3, <1>11 DEF Sampled
  <2> QED
    BY <1>3, <1>4, <1>6, <1>11, <2>1 DEF LineInv
<1>12. CASE c.State = "SETTLING" /\ DebounceElapsed(c)
  <2>1. Counters'[i] = Settle(c, high)
    BY <1>3, <1>12 DEF Sampled
  <2>2. /\ Counters'[i].Count = c.Count
        /\ Counters'[i].State = IF high THEN "WAITING_FOR_FALLING_EDGE"
                                        ELSE "WAITING_FOR_RISING_EDGE"
    BY <1>1, <2>1 DEF Settle, EventCounterRecord
  <2>3. age[i] + MaxSkew > shortest[i]
    BY <1>1, <1>2, <1>6, <1>7, <1>9, <1>12
  <2>4. released[i] # "Surely"
    BY <1>6, <1>12
  <2> QED
    BY <1>3, <1>4, <1>6, <2>2, <2>3, <2>4 DEF LineInv
<1>13. CASE c.State = "SETTLING" /\ ~DebounceElapsed(c)
  <2>1. Counters'[i] = c
    BY <1>3, <1>13 DEF Sampled
  <2>2. ~(now > DebounceTimeUs)
    BY <1>9, <1>13
  <2>3. ~(age[i] > longest[i] + MaxSkew)
    BY <1>1, <1>2, <1>6, <1>7, <1>13, <2>2
  <2>4. Settling(i)'
    BY <1>1, <1>2, <1>3, <1>4, <1>6, <1>7, <1>13, <2>1, <2>2 DEF Settling, e
  <2> QED
    BY <1>3, <1>4, <1>6, <1>13, <2>1, <2>3, <2>4 DEF LineInv
<1>14. CASE c.State = "WAITING_FOR_FALLING_EDGE" /\ ~high
  <2>1. Counters'[i] = Release(c)
    BY <1>3, <1>14 DEF Sampled
  <2>2. /\ Counters'[i].Count = c.Count
        /\ Counters'[i].State = "WAITING_FOR_RISING_EDGE"
    BY <1>1, <2>1 DEF Release, EventCounterRecord
  <2> QED
    BY <1>3, <1>4, <1>6, <1>14, <2>2 DEF LineInv
<1>15. CASE c.State = "WAITING_FOR_FALLING_EDGE" /\ high
  <2>1. Counters'[i] = c
    BY <1>3, <1>15 DEF Sampled
  <2> QED
    BY <1>3, <1>4, <1>6, <1>15, <2>1 DEF LineInv
<1> QED
  BY <1>8, <1>10, <1>11, <1>12, <1>13, <1>14, <1>15 DEF DebounceState

(* So does whatever the host does to the counters between two passes. *)
LEMMA CommandKeepsLine ==
  ASSUME EventCounterTypeOK, CounterCommand, NEW i \in Input, LineInv(i)
  PROVE  LineInv(i)'
<1>1. /\ Counters'[i].State = Counters[i].State
      /\ Counters'[i].RisingEdgeTime = Counters[i].RisingEdgeTime
      /\ timer' = timer /\ age' = age /\ released' = released
      /\ counterLag' = counterLag /\ Sampling' = Sampling
  BY DEF CounterCommand, EventCounterReset, EventCounterTypeOK, EventCounterRecord, Sampling
<1>2. /\ shortest'[i] <= shortest[i] /\ longest[i] <= longest'[i]
      /\ shortest'[i] <= DebounceTimeUs' /\ DebounceTimeUs' <= longest'[i]
      /\ shortest'[i] \in Nat /\ longest'[i] \in Nat
      /\ shortest[i] \in Nat /\ longest[i] \in Nat
  <2>1. shortest[i] \in Nat /\ longest[i] \in Nat
    BY DebounceBound DEF EventCounterTypeOK
  <2>2. CASE UNCHANGED <<DebounceTimeUs, shortest, longest>>
    BY <2>1, <2>2 DEF LineInv
  <2>3. ASSUME NEW d \in DebounceTimes, EventCounterDebounceTimeSet(d)
        PROVE  <1>2
    BY <2>1, <2>3, DebounceBound DEF EventCounterDebounceTimeSet
  <2> QED
    BY <2>2, <2>3 DEF CounterCommand
<1>3. age[i] \in Nat /\ MaxSkew \in Nat /\ counterLag \in Nat /\ MaxLag \in Nat
  BY BoardAssumption, EventCounterAssumption DEF EventCounterTypeOK
<1>4. ASSUME Counters[i].State = "SETTLING" PROVE Settling(i)'
  <2> DEFINE e == ElapsedUs(timer, Counters[i].RisingEdgeTime)
  <2>1. /\ age[i] <= e /\ e <= age[i] + MaxSkew /\ counterLag <= e
        /\ e <= longest[i] + counterLag + (IF Sampling THEN MaxLag ELSE 0)
    BY <1>4 DEF LineInv, Settling
  <2>2. e \in Nat
    <3>1. timer \in Time /\ Counters[i].RisingEdgeTime \in Time
      BY DEF EventCounterTypeOK, EventCounterRecord
    <3>2. e \in Time
      BY <3>1, ElapsedRange
    <3> QED
      BY <3>2 DEF Time
  <2> HIDE DEF e
  <2>3. e <= longest'[i] + counterLag + (IF Sampling THEN MaxLag ELSE 0)
    BY <1>2, <1>3, <2>1, <2>2
  <2> QED
    BY <1>1, <2>1, <2>3 DEF Settling, e
<1>5. ASSUME Counters[i].State = "WAITING_FOR_FALLING_EDGE"
      PROVE  age[i] + MaxSkew > shortest'[i]
  BY <1>2, <1>3, <1>5 DEF LineInv
<1> QED
  BY <1>1, <1>2, <1>4, <1>5 DEF LineInv

(***************************************************************************)
(* The inductive invariant: a settling counter reads the real time since   *)
(* its event off two timer readings, within the skew of a pass, and the    *)
(* main loop closes the window before the timer can come round.            *)
(***************************************************************************)
THEOREM EventCounterInvariant == CounterSpec => []EventCounterInv
<1>1. CounterStart => EventCounterInv
  <2> SUFFICES ASSUME CounterStart, NEW i \in Input
               PROVE  LineInv(i)
    BY DEF EventCounterInv, CounterStart, EventCounterInit, Sampling
  <2>1. DEFAULT_DEBOUNCE_TIME_US \in Nat
    BY DebounceBound, EventCounterAssumption
  <2> QED
    BY <2>1 DEF CounterStart, EventCounterInit, LineInv
<1>2. EventCounterTypeOK /\ EventCounterInv /\ [CounterNext]_counterVars => EventCounterInv'
  <2> SUFFICES ASSUME EventCounterTypeOK, EventCounterInv, [CounterNext]_counterVars
               PROVE  EventCounterInv'
    OBVIOUS
  <2>1. CASE CounterTick
    <3>1. \A i \in Input : LineInv(i)'
      BY <2>1, TickKeepsLine DEF EventCounterInv
    <3>2. ASSUME Sampling' PROVE ElapsedUs(timer', sampleTime') = counterLag'
      <4>1. /\ Sampling /\ sampleTime' = sampleTime /\ counterLag' = counterLag + 1
            /\ counterLag < MaxSkew /\ timer' = (timer + 1) % TimerMod
        BY <2>1, <3>2 DEF CounterTick, counterState, CounterAges, TimerTick, Sampling
      <4>2. sampleTime \in Time /\ timer \in Time
        BY <4>1 DEF EventCounterTypeOK, Sampling
      <4>3. ElapsedUs(timer, sampleTime) = counterLag
        BY <4>1 DEF EventCounterInv
      <4>4. MaxSkew < TimerMod /\ MaxSkew \in Nat /\ counterLag \in Int
        BY <4>1, DebounceBound, BoardAssumption, EventCounterAssumption
        DEF EventCounterTypeOK
      <4>5. counterLag + 1 < TimerMod
        BY <4>1, <4>4, BoardAssumption
      <4> QED
        BY <4>1, <4>2, <4>3, <4>5, ElapsedTick
    <3> QED
      BY <3>1, <3>2 DEF EventCounterInv, Sampling
  <2>2. CASE CounterLineChange
    BY <2>2 DEF CounterLineChange, counterState, counterHistory, EventCounterInv, LineInv,
                Settling, Sampling
  <2>3. CASE EventCounterTaskStart
    <3>1. ElapsedUs(timer', sampleTime') = counterLag'
      BY <2>3, ElapsedSelf DEF EventCounterTaskStart, BoardGetElapsedTimeUs, EventCounterTypeOK
    <3>2. ASSUME NEW i \in Input PROVE LineInv(i)'
      <4>1. /\ timer' = timer /\ Counters' = Counters /\ age' = age
            /\ DebounceTimeUs' = DebounceTimeUs /\ shortest' = shortest
            /\ longest' = longest /\ released' = released
            /\ counterLag' = 0 /\ ~Sampling
        BY <2>3 DEF EventCounterTaskStart, counterHistory
      <4>2. ASSUME Counters[i].State = "SETTLING" PROVE Settling(i)'
        <5> DEFINE e == ElapsedUs(timer, Counters[i].RisingEdgeTime)
        <5>1. timer \in Time /\ Counters[i].RisingEdgeTime \in Time
          BY DEF EventCounterTypeOK, EventCounterRecord
        <5>2. e \in Time
          BY <5>1, ElapsedRange
        <5>3. /\ age[i] <= e /\ e <= age[i] + MaxSkew
              /\ e <= longest[i] + counterLag + 0
          BY <4>1, <4>2 DEF EventCounterInv, LineInv, Settling
        <5>4. /\ longest[i] \in Nat /\ counterLag \in Nat /\ counterLag <= MaxLag
              /\ MaxLag \in Nat
          BY <4>1, DebounceBound, BoardAssumption DEF EventCounterTypeOK
        <5> HIDE DEF e
        <5>5. 0 <= e /\ e <= longest[i] + 0 + MaxLag /\ e <= longest[i] + 0 + 0 + MaxLag
          BY <5>2, <5>3, <5>4 DEF Time
        <5>6. Sampling'
          BY <2>3, <5>1 DEF EventCounterTaskStart, BoardGetElapsedTimeUs, Sampling,
                            NoSample, Time
        <5> QED
          BY <4>1, <5>2, <5>3, <5>4, <5>5, <5>6 DEF Settling, e
      <4> QED
        BY <4>1, <4>2 DEF EventCounterInv, LineInv
    <3> QED
      BY <3>1, <3>2 DEF EventCounterInv
  <2>4. CASE EventCounterTask
    BY <2>4, TaskKeepsLine DEF EventCounterInv, EventCounterTask, Sampling
  <2>5. CASE CounterCommand
    BY <2>5, CommandKeepsLine DEF EventCounterInv, CounterCommand, Sampling
  <2>6. CASE EventCounterTaskReadBank1
    BY <2>6 DEF EventCounterTaskReadBank1, counterHistory, EventCounterInv, LineInv,
                Settling, Sampling
  <2>7. CASE UNCHANGED counterVars
    BY <2>7 DEF counterVars, counterState, counterHistory, EventCounterInv, LineInv,
                Settling, Sampling
  <2> QED
    BY <2>1, <2>2, <2>3, <2>4, <2>5, <2>6, <2>7 DEF CounterNext
<1> QED
  BY <1>1, <1>2, EventCounterTypeCorrect, PTL DEF CounterSpec

(***************************************************************************)
(* Debouncing as EventCounter.h:62-66 promises it: no event is counted     *)
(* unless the line has been read low, no sooner after the last event than  *)
(* the debounce time within the skew of the reads.                         *)
(***************************************************************************)
THEOREM EventsAreDebounced == CounterSpec => DebounceHonoured
<1> DEFINE Debounced ==
      \A i \in Input : Counters'[i].Count = Counters[i].Count + 1 => released[i] # "No"
<1>1. EventCounterTypeOK /\ EventCounterInv /\ [CounterNext]_counterVars
        => [Debounced]_counterVars
  <2> SUFFICES ASSUME EventCounterTypeOK, EventCounterInv, CounterNext,
                      NEW i \in Input,
                      Counters'[i].Count = Counters[i].Count + 1
               PROVE  released[i] # "No"
    BY DEF counterVars, counterState
  <2>1. Counters[i] \in EventCounterRecord /\ Counters[i].Count \in Nat
    BY EventCounterAssumption DEF EventCounterTypeOK, EventCounterRecord
  <2>2. CASE Counters' = Counters
    BY <2>1, <2>2
  <2>3. CASE EventCounterTask
    <3>1. Counters'[i] = Sampled(Counters[i], i \in BoardReadDigitalInputs)
      BY <2>3 DEF EventCounterTask
    <3>2. ASSUME Counters[i].State # "WAITING_FOR_RISING_EDGE"
          PROVE  Counters'[i].Count = Counters[i].Count
      BY <2>1, <3>1, <3>2 DEF Sampled, Settle, Release, EventCounterRecord
    <3>3. Counters[i].State = "WAITING_FOR_RISING_EDGE"
      BY <2>1, <3>2
    <3> QED
      BY <3>3 DEF EventCounterInv, LineInv
  <2>4. CASE CounterCommand
    BY <2>1, <2>4 DEF CounterCommand, EventCounterReset, EventCounterRecord
  <2> QED
    BY <2>2, <2>3, <2>4
    DEF CounterNext, CounterTick, CounterLineChange, EventCounterTaskStart,
        EventCounterTaskReadBank1, counterState
<1> QED
  BY <1>1, EventCounterTypeCorrect, EventCounterInvariant, PTL
  DEF CounterSpec, DebounceHonoured

(***************************************************************************)
(* The converse (EventCounter.c:81-87): an edge after a release that came  *)
(* surely late enough is counted by the pass that first reads it.          *)
(***************************************************************************)
THEOREM EventsAreNotMissed == CounterSpec => NoMissedEvent
<1> DEFINE Caught ==
      \A i \in Input :
        (Sampling /\ ~Sampling' /\ released[i] = "Surely"
           /\ i \in BoardReadDigitalInputs)
          => Counters'[i].Count = (Counters[i].Count + 1) % CountMod
<1>1. EventCounterTypeOK /\ EventCounterInv /\ [CounterNext]_counterVars
        => [Caught]_counterVars
  <2> SUFFICES ASSUME EventCounterTypeOK, EventCounterInv, CounterNext,
                      NEW i \in Input, Sampling, ~Sampling',
                      released[i] = "Surely", i \in BoardReadDigitalInputs
               PROVE  Counters'[i].Count = (Counters[i].Count + 1) % CountMod
    BY DEF counterVars, counterState
  <2>1. EventCounterTask
    BY DEF CounterNext, CounterTick, CounterLineChange, EventCounterTaskStart,
           EventCounterTaskReadBank1, CounterCommand, counterState, Sampling
  <2>2. Counters[i].State = "WAITING_FOR_RISING_EDGE"
    BY DEF EventCounterInv, LineInv
  <2>3. Counters'[i] = CountEvent(Counters[i])
    BY <2>1, <2>2 DEF EventCounterTask, Sampled
  <2> QED
    BY <2>3 DEF CountEvent
<1> QED
  BY <1>1, EventCounterTypeCorrect, EventCounterInvariant, PTL
  DEF CounterSpec, NoMissedEvent

=============================================================================
