--------------------------- MODULE WatchdogProofs ---------------------------
(***************************************************************************)
(* Proofs about Watchdog for every timer width, every loop bound, every    *)
(* set of periods that leaves room for one loop before the timer comes     *)
(* round, and every number of relays.                                      *)
(***************************************************************************)
EXTENDS Watchdog, BoardProofs

-----------------------------------------------------------------------------
(***************************************************************************)
(* The variables keep their types: the timer and the kick are readings     *)
(* (Watchdog.c:35, 67), the period is one WatchdogTimeoutSet was given     *)
(* (Watchdog.c:38, 72).                                                    *)
(***************************************************************************)
THEOREM WatchdogTypeCorrect == WatchdogSpec => []WatchdogTypeOK
<1>1. WatchdogStart => WatchdogTypeOK
  BY BoardAssumption, WatchdogAssumption, Z3
  DEF WatchdogStart, WatchdogInit, WatchdogTypeOK, Time
<1>2. WatchdogTypeOK /\ [WatchdogNext]_watchdogVars => WatchdogTypeOK'
  <2> SUFFICES ASSUME WatchdogTypeOK, [WatchdogNext]_watchdogVars
               PROVE  WatchdogTypeOK'
    OBVIOUS
  <2> USE DEF WatchdogTypeOK
  <2>1. CASE WatchdogTick
    <3>1. timer' \in Time
      BY <2>1, TickRange DEF WatchdogTick, TimerTick
    <3>2. watchdogLag' \in 0 .. MaxLag /\ silence' \in 0 .. TimerMod
      BY <2>1, BoardAssumption DEF WatchdogTick, WatchdogAges, Aged
    <3> QED
      BY <2>1, <3>1, <3>2 DEF WatchdogTick
  <2>2. CASE WatchdogTask
    <3>1. WatchdogTimeoutPeriodUs' \in Timeouts /\ relays' \subseteq Relay
      BY <2>2, WatchdogAssumption DEF WatchdogTask, WatchdogExpire, BoardWriteRelays
    <3> QED
      BY <2>2, <3>1, BoardAssumption DEF WatchdogTask
  <2>3. CASE WatchdogCommand
    <3>1. WatchdogTimeoutPeriodUs' \in Timeouts
      BY <2>3 DEF WatchdogCommand, WatchdogTimeoutSet
    <3> QED
      BY <2>3, <3>1, BoardAssumption
      DEF WatchdogCommand, WatchdogKick, HostSpeaks, BoardGetElapsedTimeUs
  <2>4. CASE UNCHANGED watchdogVars
    BY <2>4 DEF watchdogVars
  <2> QED
    BY <2>1, <2>2, <2>3, <2>4 DEF WatchdogNext
<1> QED
  BY <1>1, <1>2, PTL DEF WatchdogSpec

(***************************************************************************)
(* The inductive invariant.  An armed watchdog reads the real silence off  *)
(* its two timer readings, which is why no wrap of the timer deceives it.  *)
(***************************************************************************)
THEOREM WatchdogInvariant == WatchdogSpec => []WatchdogInv
<1>1. WatchdogStart => WatchdogInv
  BY DEF WatchdogStart, WatchdogInit, WatchdogInv, Enabled
<1>2. WatchdogTypeOK /\ WatchdogInv /\ [WatchdogNext]_watchdogVars => WatchdogInv'
  <2> SUFFICES ASSUME WatchdogTypeOK, WatchdogInv, [WatchdogNext]_watchdogVars
               PROVE  WatchdogInv'
    OBVIOUS
  <2> USE DEF WatchdogTypeOK, WatchdogInv, Enabled
  <2>1. CASE WatchdogTick
    <3>1. CASE Enabled
      <4>0. granted \in Nat /\ granted + MaxLag < TimerMod
        BY WatchdogAssumption
      <4>1. silence + 1 < TimerMod
        BY <2>1, <3>1, <4>0, BoardAssumption DEF WatchdogTick, WatchdogAges
      <4>2. silence' = silence + 1
        BY <2>1, <4>1, BoardAssumption DEF WatchdogTick, WatchdogAges, Aged
      <4>3. ElapsedUs(timer', LastKickTimeUs') = silence'
        BY <2>1, <3>1, <4>1, <4>2, ElapsedTick DEF WatchdogTick, TimerTick
      <4>4. silence' <= granted' + watchdogLag'
        BY <2>1, <3>1, <4>0, <4>2, BoardAssumption DEF WatchdogTick, WatchdogAges
      <4> QED
        BY <2>1, <3>1, <4>3, <4>4 DEF WatchdogTick
    <3>2. CASE ~Enabled
      BY <2>1, <3>2 DEF WatchdogTick
    <3> QED
      BY <3>1, <3>2
  <2>2. CASE WatchdogTask
    <3>1. CASE Enabled /\ TimedOut
      BY <2>2, <3>1 DEF WatchdogTask, WatchdogExpire, BoardWriteRelays
    <3>2. CASE Enabled /\ ~TimedOut
      <4>1. silence <= granted
        BY <3>2, WatchdogAssumption DEF TimedOut, BoardGetElapsedTimeUs
      <4> QED
        BY <2>2, <3>2, <4>1, WatchdogAssumption DEF WatchdogTask
    <3>3. CASE ~Enabled
      BY <2>2, <3>3 DEF WatchdogTask
    <3> QED
      BY <3>1, <3>2, <3>3
  <2>3. CASE WatchdogCommand
    <3>1. granted' = WatchdogTimeoutPeriodUs' /\ silence' = 0
      BY <2>3 DEF WatchdogCommand, WatchdogKick, HostSpeaks
    <3>2. ElapsedUs(timer', LastKickTimeUs') = 0
      BY <2>3, ElapsedSelf DEF WatchdogCommand, WatchdogKick, HostSpeaks, BoardGetElapsedTimeUs
    <3>3. granted' \in Nat /\ watchdogLag' \in Nat
      BY <2>3, <3>1, BoardAssumption, WatchdogAssumption
      DEF WatchdogCommand, WatchdogTimeoutSet
    <3>4. silence' <= granted' + watchdogLag'
      <4>1. silence' = 0
        BY <3>1
      <4>2. \A g, l \in Nat : 0 <= g + l
        OBVIOUS
      <4> QED
        BY <4>1, <4>2, <3>3
    <3> QED
      BY <3>1, <3>2, <3>4
  <2>4. CASE UNCHANGED watchdogVars
    BY <2>4 DEF watchdogVars
  <2> QED
    BY <2>1, <2>2, <2>3, <2>4 DEF WatchdogNext
<1> QED
  BY <1>1, <1>2, WatchdogTypeCorrect, PTL DEF WatchdogSpec

(***************************************************************************)
(* The dead man's promise of WatchdogTask (Watchdog.c:53-58): relays the   *)
(* host left closed do not outlive its period by more than one loop.       *)
(***************************************************************************)
THEOREM SilenceOpensRelays == WatchdogSpec => []SilentHostMeansOpenRelays
<1>1. WatchdogTypeOK /\ WatchdogInv => SilentHostMeansOpenRelays
  <2> SUFFICES ASSUME WatchdogTypeOK, WatchdogInv,
                      granted # WATCHDOG_TIMEOUT_DISABLED,
                      silence > granted + MaxLag
               PROVE  relays = {}
    BY DEF SilentHostMeansOpenRelays
  <2>1. granted \in Nat /\ silence \in Int /\ watchdogLag \in Int /\ watchdogLag <= MaxLag
    BY BoardAssumption, WatchdogAssumption DEF WatchdogTypeOK
  <2>2. ~(silence <= granted + watchdogLag)
    BY <2>1, BoardAssumption
  <2> QED
    BY <2>2 DEF WatchdogInv
<1> QED
  BY <1>1, WatchdogTypeCorrect, WatchdogInvariant, PTL

(***************************************************************************)
(* The converse (Watchdog.c:55): no wrap of the timer and no late loop     *)
(* opens the relays of a host that has spoken within its period.           *)
(***************************************************************************)
THEOREM TripsAreDeserved == WatchdogSpec => TripsOnlyAfterSilence
<1> DEFINE Deserved ==
      (<<relays, WatchdogTimeoutPeriodUs>>' # <<relays, WatchdogTimeoutPeriodUs>>
         /\ silence' # 0)
        => /\ granted # WATCHDOG_TIMEOUT_DISABLED
           /\ silence > granted
           /\ relays' = {}
           /\ WatchdogTimeoutPeriodUs' = WATCHDOG_TIMEOUT_DISABLED
<1>1. WatchdogInv /\ [WatchdogNext]_watchdogVars => [Deserved]_watchdogVars
  <2> SUFFICES ASSUME WatchdogInv, WatchdogNext
               PROVE  Deserved
    BY DEF watchdogVars
  <2>1. CASE WatchdogTick
    BY <2>1 DEF WatchdogTick
  <2>2. CASE WatchdogTask
    <3>1. CASE Enabled /\ TimedOut
      BY <2>2, <3>1 DEF WatchdogTask, WatchdogExpire, BoardWriteRelays, WatchdogInv,
                        Enabled, TimedOut, BoardGetElapsedTimeUs
    <3>2. CASE ~(Enabled /\ TimedOut)
      BY <2>2, <3>2 DEF WatchdogTask
    <3> QED
      BY <3>1, <3>2
  <2>3. CASE WatchdogCommand
    BY <2>3 DEF WatchdogCommand, WatchdogKick, HostSpeaks
  <2> QED
    BY <2>1, <2>2, <2>3 DEF WatchdogNext
<1> QED
  BY <1>1, WatchdogInvariant, PTL DEF WatchdogSpec, TripsOnlyAfterSilence

(***************************************************************************)
(* Watchdog.c implements the abstract dead man's switch: each tick maps to *)
(* Pass, each command to Speak, an expiry to Trip and an idle WatchdogTask *)
(* to a stuttering step.                                                   *)
(***************************************************************************)
THEOREM WatchdogIsASwitch == WatchdogSpec => ImplementsSwitch
<1>1. WatchdogStart => Switch!Init
  BY DEF WatchdogStart, WatchdogInit, Switch!Init
<1>2. WatchdogTypeOK /\ WatchdogInv /\ [WatchdogNext]_watchdogVars
        => [Switch!Next]_(Switch!vars)
  <2> SUFFICES ASSUME WatchdogTypeOK, WatchdogInv, [WatchdogNext]_watchdogVars
               PROVE  Switch!Next \/ UNCHANGED Switch!vars
    OBVIOUS
  <2>1. CASE WatchdogTick
    <3>1. Switch!Armed => silence < WatchdogTimeoutPeriodUs + MaxLag
      <4> SUFFICES ASSUME Enabled
                   PROVE  silence < WatchdogTimeoutPeriodUs + MaxLag
        BY DEF Switch!Armed, Enabled
      <4>1. granted \in Nat /\ silence \in Int /\ watchdogLag \in Int
        BY BoardAssumption, WatchdogAssumption DEF WatchdogTypeOK
      <4>2. watchdogLag < MaxLag /\ silence <= granted + watchdogLag
        BY <2>1 DEF WatchdogTick, WatchdogAges, WatchdogInv
      <4>3. WatchdogTimeoutPeriodUs = granted
        BY DEF WatchdogInv
      <4> QED
        BY <4>1, <4>2, <4>3, BoardAssumption
    <3>2. Switch!Pass
      BY <2>1, <3>1 DEF WatchdogTick, WatchdogAges, Aged, Switch!Pass
    <3> QED
      BY <3>2 DEF Switch!Next
  <2>2. CASE WatchdogTask
    <3>1. CASE Enabled /\ TimedOut
      <4>1. silence > WatchdogTimeoutPeriodUs
        BY <3>1 DEF TimedOut, WatchdogInv, BoardGetElapsedTimeUs
      <4>2. Switch!Trip
        BY <2>2, <3>1, <4>1
        DEF WatchdogTask, WatchdogExpire, BoardWriteRelays, Enabled, Switch!Trip,
            Switch!Armed
      <4> QED
        BY <4>2 DEF Switch!Next
    <3>2. CASE ~(Enabled /\ TimedOut)
      BY <2>2, <3>2 DEF WatchdogTask, Switch!vars
    <3> QED
      BY <3>1, <3>2
  <2>3. CASE WatchdogCommand
    <3>1. Switch!Speak
      BY <2>3 DEF WatchdogCommand, WatchdogKick, HostSpeaks, WatchdogTimeoutSet, WatchdogTypeOK,
                  Switch!Speak
    <3> QED
      BY <3>1 DEF Switch!Next
  <2>4. CASE UNCHANGED watchdogVars
    BY <2>4 DEF watchdogVars, Switch!vars
  <2> QED
    BY <2>1, <2>2, <2>3, <2>4 DEF WatchdogNext
<1> QED
  BY <1>1, <1>2, WatchdogTypeCorrect, WatchdogInvariant, PTL
  DEF WatchdogSpec, ImplementsSwitch, Switch!Spec

=============================================================================
