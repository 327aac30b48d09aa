------------------------------ MODULE Watchdog ------------------------------
(***************************************************************************)
(* src/Watchdog.c: the timer that opens every relay when the host has been *)
(* silent for longer than a period the host has chosen.                    *)
(*                                                                         *)
(* The code keeps two words, the timer value at the last kick and the      *)
(* period.  The model adds three history variables that no action of the   *)
(* code reads: the real silence of the host, the period it left in force   *)
(* when it last spoke, and the time since WatchdogTask last ran.           *)
(***************************************************************************)
EXTENDS Board, BoardRelays

CONSTANT Timeouts  (* The periods WatchdogTimeoutSet is called with *)

WATCHDOG_TIMEOUT_DISABLED == 0

ASSUME WatchdogAssumption ==
  /\ WATCHDOG_TIMEOUT_DISABLED \in Timeouts
  /\ \A t \in Timeouts : t \in Nat /\ t + MaxLag < TimerMod

VARIABLES
  LastKickTimeUs,
  WatchdogTimeoutPeriodUs,
  silence,      (* History: real time since the last command               *)
  granted,      (* History: the period in force when that command was done *)
  watchdogLag   (* History: real time since WatchdogTask last ran          *)

watchdogVars ==
  <<timer, relays, LastKickTimeUs, WatchdogTimeoutPeriodUs, silence, granted,
    watchdogLag>>

WatchdogTypeOK ==
  /\ timer \in Time
  /\ relays \subseteq Relay
  /\ LastKickTimeUs \in Time
  /\ WatchdogTimeoutPeriodUs \in Timeouts
  /\ silence \in 0 .. TimerMod
  /\ granted \in Timeouts
  /\ watchdogLag \in 0 .. MaxLag

-----------------------------------------------------------------------------
(* WatchdogInit leaves LastKickTimeUs at the zero it has in .bss. *)
WatchdogInit ==
  /\ LastKickTimeUs = 0
  /\ WatchdogTimeoutPeriodUs = WATCHDOG_TIMEOUT_DISABLED
  /\ silence = TimerMod
  /\ granted = WATCHDOG_TIMEOUT_DISABLED
  /\ watchdogLag = 0

Enabled == WatchdogTimeoutPeriodUs # WATCHDOG_TIMEOUT_DISABLED

(* Mutant: the kick compares with the timer instead of the time since the kick. *)
TimedOut_NoSubtraction ==
  BoardGetElapsedTimeUs > WatchdogTimeoutPeriodUs

(* Mutant: signed comparison of absolute times, which breaks at the wrap. *)
TimedOut_AbsoluteDeadline ==
  BoardGetElapsedTimeUs > LastKickTimeUs + WatchdogTimeoutPeriodUs

TimedOut ==
  ElapsedUs(BoardGetElapsedTimeUs, LastKickTimeUs) > WatchdogTimeoutPeriodUs

(* Mutant: the timeout disarms the watchdog and forgets the relays. *)
WatchdogExpire_RelaysKept ==
  /\ WatchdogTimeoutPeriodUs' = WATCHDOG_TIMEOUT_DISABLED
  /\ UNCHANGED relays

WatchdogExpire ==
  /\ WatchdogTimeoutPeriodUs' = WATCHDOG_TIMEOUT_DISABLED
  /\ BoardWriteRelays({})

WatchdogTask ==
  /\ IF Enabled /\ TimedOut
       THEN WatchdogExpire
       ELSE UNCHANGED <<WatchdogTimeoutPeriodUs, relays>>
  /\ watchdogLag' = 0
  /\ UNCHANGED <<timer, LastKickTimeUs, silence, granted>>

(* Mutant: the command handler returns without kicking. *)
WatchdogKick_Dropped == UNCHANGED LastKickTimeUs

(* Mutant: the deadline is kept instead of the time, in a wider integer. *)
WatchdogKick_StoresDeadline ==
  LastKickTimeUs' = BoardGetElapsedTimeUs + WatchdogTimeoutPeriodUs'

WatchdogKick == LastKickTimeUs' = BoardGetElapsedTimeUs

WatchdogTimeoutSet(timeoutUs) == WatchdogTimeoutPeriodUs' = timeoutUs

WatchdogTimeoutGet == WatchdogTimeoutPeriodUs

-----------------------------------------------------------------------------
(***************************************************************************)
(* History: the host has spoken, and leaves the period then in force.  It  *)
(* has, whether or not the firmware takes note of it by a kick.            *)
(***************************************************************************)
HostSpeaks ==
  /\ silence' = 0
  /\ granted' = WatchdogTimeoutPeriodUs'

(***************************************************************************)
(* What the rest of the firmware does to the watchdog: a command may move  *)
(* relays, may set the period, and then kicks.                             *)
(***************************************************************************)
WatchdogCommand ==
  /\ \/ \E t \in Timeouts : WatchdogTimeoutSet(t)
     \/ UNCHANGED WatchdogTimeoutPeriodUs
  /\ relays' \in SUBSET Relay
  /\ WatchdogKick
  /\ HostSpeaks
  /\ UNCHANGED <<timer, watchdogLag>>

(***************************************************************************)
(* Time passes anywhere in the main loop, which comes back to WatchdogTask *)
(* within MaxLag.                                                          *)
(***************************************************************************)
WatchdogAges ==
  /\ watchdogLag < MaxLag
  /\ watchdogLag' = watchdogLag + 1
  /\ silence' = Aged(silence)

WatchdogTick ==
  /\ TimerTick
  /\ WatchdogAges
  /\ UNCHANGED <<relays, LastKickTimeUs, WatchdogTimeoutPeriodUs, granted>>

(* BoardInit started the timer some time ago. *)
WatchdogStart ==
  /\ timer \in Time
  /\ relays = {}
  /\ WatchdogInit

WatchdogNext == WatchdogTick \/ WatchdogTask \/ WatchdogCommand

WatchdogSpec == WatchdogStart /\ [][WatchdogNext]_watchdogVars

(* The main loop never stops and neither does the timer; the host may. *)
WatchdogFairSpec ==
  /\ WatchdogSpec
  /\ WF_watchdogVars(WatchdogTick)
  /\ WF_watchdogVars(WatchdogTask)

-----------------------------------------------------------------------------
(***************************************************************************)
(* The dead man's promise (Watchdog.c:53-58): once the host has left a     *)
(* period in force and has then been silent for longer than that period    *)
(* and one turn of the main loop, no relay is closed.                      *)
(***************************************************************************)
SilentHostMeansOpenRelays ==
  (granted # WATCHDOG_TIMEOUT_DISABLED /\ silence > granted + MaxLag)
    => relays = {}

(***************************************************************************)
(* The converse (Watchdog.c:55): between commands the firmware touches     *)
(* neither the relays nor the period, unless the host really has been      *)
(* silent for longer than the period it left, and then it opens all relays *)
(* and disarms in the same step.  A timer that wraps must not cause it.    *)
(***************************************************************************)
TripsOnlyAfterSilence ==
  [][(<<relays, WatchdogTimeoutPeriodUs>>' # <<relays, WatchdogTimeoutPeriodUs>>
        /\ silence' # 0)
       => /\ granted # WATCHDOG_TIMEOUT_DISABLED
          /\ silence > granted
          /\ relays' = {}
          /\ WatchdogTimeoutPeriodUs' = WATCHDOG_TIMEOUT_DISABLED]_watchdogVars

(***************************************************************************)
(* Why both hold: while armed, the difference of the two 32-bit readings   *)
(* is the real silence (Watchdog.c:55), which WatchdogTask keeps below the *)
(* period; a disarmed watchdog has either never been armed by the last     *)
(* command or has opened the relays since.                                 *)
(***************************************************************************)
WatchdogInv ==
  \/ /\ Enabled
     /\ WatchdogTimeoutPeriodUs = granted
     /\ ElapsedUs(timer, LastKickTimeUs) = silence
     /\ silence <= granted + watchdogLag
  \/ /\ ~Enabled
     /\ granted # WATCHDOG_TIMEOUT_DISABLED => relays = {}

(***************************************************************************)
(* The abstract switch, with the code's period as its limit.               *)
(***************************************************************************)
Switch == INSTANCE DeadMansSwitch
  WITH Limit <- Timeouts, Disarmed <- WATCHDOG_TIMEOUT_DISABLED,
       Slack <- MaxLag, Horizon <- TimerMod, limit <- WatchdogTimeoutPeriodUs

(* The watchdog implements the dead man's switch, wrap-around included. *)
ImplementsSwitch == Switch!Spec

(***************************************************************************)
(* A host that falls silent with the watchdog armed finds its relays open  *)
(* in the end: main() (Main.c:44-49) runs WatchdogTask for ever.           *)
(***************************************************************************)
SilenceIsNoticed ==
  (granted # WATCHDOG_TIMEOUT_DISABLED /\ silence > 0)
    ~> (silence = 0 \/ relays = {})

=============================================================================
