--------------------------- MODULE RelaconProofs ----------------------------
(***************************************************************************)
(* Proofs about the whole firmware, for every set of texts the host sends. *)
(* Each step of Relacon is a step of the watchdog's specification and of   *)
(* the counters', so that the theorems about them hold of the firmware.    *)
(***************************************************************************)
EXTENDS Relacon, WatchdogProofs, EventCounterProofs, AduCommandProofs

-----------------------------------------------------------------------------
(***************************************************************************)
(* What the handlers accept is in range (AduProtocol.c:361, 550, 603, 651):*)
(* a relay, a counter, an entry of a settings table.                       *)
(***************************************************************************)
CommandInRange(c) ==
  /\ c.op = "SK" => \E r \in Relay : c = [op |-> "SK", n |-> r]
  /\ c.op = "RC" => \E i \in Input : c = [op |-> "RC", n |-> i]
  /\ c.op = "DBn" => c.n \in 0 .. DEBOUNCE_SETTING_NUM_SETTINGS - 1
  /\ c.op = "WDn" => c.n \in 0 .. WATCHDOG_SETTING_NUM_SETTINGS - 1

LEMMA CommandsAreInRange ==
  ASSUME NEW text
  PROVE  CommandInRange(Command(text))
<1> DEFINE c == Command(text)
           args == Arguments(text)
<1>0. CommandInRange(Invalid) /\ CommandInRange(TooLong)
  BY DEF CommandInRange, Invalid, TooLong
<1>1. CASE Len(text) > MAX_CMD_STR_SIZE
  BY <1>0, <1>1 DEF Command, Processed
<1>2. CASE ~ (Len(text) > MAX_CMD_STR_SIZE) /\ ~Found(text)
  BY <1>0, <1>2 DEF Command, Processed
<1>3. CASE ~ (Len(text) > MAX_CMD_STR_SIZE) /\ Found(text)
  <2>1. CASE Entry(text) \in {"SK", "RK", "RPK"}
    <3>1. c = ReadIndex(Entry(text), args, NUM_RELAYS)
      BY <1>3, <2>1 DEF Command, Processed
    <3>2. CASE c = Invalid
      BY <1>0, <3>2
    <3>3. CASE c # Invalid
      <4>1. c = [op |-> Entry(text), n |-> Value(args)] /\ Value(args) \in 0 .. NUM_RELAYS - 1
        BY <3>1, <3>3 DEF ReadIndex
      <4> QED
        BY <2>1, <4>1, AduProtocolAssumption DEF CommandInRange, Relay
    <3> QED
      BY <3>2, <3>3
  <2>2. CASE Entry(text) = "MK"
    <3>1. c = ReadPortValue(args)
      BY <1>3, <2>2 DEF Command, Processed
    <3> QED
      BY <1>0, <3>1 DEF ReadPortValue, CommandInRange
  <2>3. CASE Entry(text) \in {"PK", "PI"}
    <3>1. c = ReadNothing(Entry(text), args)
      BY <1>3, <2>3 DEF Command, Processed
    <3> QED
      BY <1>0, <2>3, <3>1 DEF ReadNothing, CommandInRange
  <2>4. CASE Entry(text) = "RP" /\ Len(args) = 2
    <3>1. c = ReadPortLine(args)
      BY <1>3, <2>4 DEF Command, Processed
    <3> QED
      BY <1>0, <3>1 DEF ReadPortLine, CommandInRange
  <2>5. CASE Entry(text) = "RP" /\ Len(args) # 2
    <3>1. c = ReadPort("RP", args)
      BY <1>3, <2>5 DEF Command, Processed
    <3> QED
      BY <1>0, <3>1 DEF ReadPort, CommandInRange
  <2>6. CASE Entry(text) = "PA"
    <3>1. c = ReadPort("PA", args)
      BY <1>3, <2>6 DEF Command, Processed
    <3> QED
      BY <1>0, <3>1 DEF ReadPort, CommandInRange
  <2>7. CASE Entry(text) \in {"RE", "RC"}
    <3>1. c = ReadIndex(Entry(text), args, EVENT_COUNTER_NUM_COUNTERS)
      BY <1>3, <2>7 DEF Command, Processed
    <3>2. CASE c = Invalid
      BY <1>0, <3>2
    <3>3. CASE c # Invalid
      <4>1. /\ c = [op |-> Entry(text), n |-> Value(args)]
            /\ Value(args) \in 0 .. EVENT_COUNTER_NUM_COUNTERS - 1
        BY <3>1, <3>3 DEF ReadIndex
      <4> QED
        BY <2>7, <4>1, AduProtocolAssumption DEF CommandInRange, Input
    <3> QED
      BY <3>2, <3>3
  <2>8. CASE Entry(text) = "DB"
    <3>1. c = ReadSetting("DB", "DBn", args, DEBOUNCE_SETTING_NUM_SETTINGS)
      BY <1>3, <2>8 DEF Command, Processed
    <3>2. \/ c = [op |-> "DB"]
          \/ /\ c = [op |-> "DBn", n |-> Value(args)]
             /\ Value(args) \in 0 .. DEBOUNCE_SETTING_NUM_SETTINGS - 1
          \/ c = Invalid
      BY <3>1 DEF ReadSetting
    <3> QED
      BY <1>0, <3>2 DEF CommandInRange
  <2>9. CASE Entry(text) = "WD"
    <3>1. c = ReadSetting("WD", "WDn", args, WATCHDOG_SETTING_NUM_SETTINGS)
      BY <1>3, <2>9 DEF Command, Processed
    <3>2. \/ c = [op |-> "WD"]
          \/ /\ c = [op |-> "WDn", n |-> Value(args)]
             /\ Value(args) \in 0 .. WATCHDOG_SETTING_NUM_SETTINGS - 1
          \/ c = Invalid
      BY <3>1 DEF ReadSetting
    <3> QED
      BY <1>0, <3>2 DEF CommandInRange
  <2> QED
    BY <1>3, EntryIsListed, <2>1, <2>2, <2>3, <2>4, <2>5, <2>6, <2>7, <2>8, <2>9
<1> QED
  BY <1>1, <1>2, <1>3

-----------------------------------------------------------------------------
(***************************************************************************)
(* The handlers write the relays, the period and the counters only as the  *)
(* components' specifications allow (AduProtocol.c:349-658).               *)
(***************************************************************************)
LEMMA CommandMovesWatchdog ==
  ASSUME relays \subseteq Relay,
         NEW text \in Texts, AduProtocolProcessCommand(text),
         UNCHANGED <<timer, watchdogLag>>
  PROVE  WatchdogCommand
<1> DEFINE c == CommandOf[text]
<1>0. CommandInRange(c)
  BY CommandsAreInRange DEF CommandOf
<1>1. HandleCommand(c) /\ WatchdogKick /\ HostSpeaks
  BY DEF AduProtocolProcessCommand
<1> HIDE DEF c
<1>2. relays' \subseteq Relay
  <2>1. CASE HandlerSetRelay(c)
    <3>1. c.n \in Relay
      BY <1>0, <2>1 DEF CommandInRange, HandlerSetRelay
    <3> QED
      BY <2>1, <3>1 DEF HandlerSetRelay, BoardWriteRelays, BoardReadRelays
  <2>2. CASE HandlerClearRelay(c)
    BY <2>2 DEF HandlerClearRelay, BoardWriteRelays, BoardReadRelays
  <2>3. CASE HandlerWriteRelayPort(c)
    BY <2>3 DEF HandlerWriteRelayPort, BoardWriteRelays, LinesOf
  <2>4. CASE UNCHANGED relays
    BY <2>4
  <2> QED
    BY <1>1, <2>1, <2>2, <2>3, <2>4
    DEF HandleCommand, HandlerReadInputs, HandlerRead, HandlerReadAndResetEventCounter,
        HandlerDebounceSetting, HandlerWatchdogSetting, AnswerSetting, RejectCommand,
        DropLongCommand
<1>3. \/ \E t \in Timeouts : WatchdogTimeoutSet(t)
      \/ UNCHANGED WatchdogTimeoutPeriodUs
  <2>1. CASE HandlerWatchdogSetting(c) /\ c.op = "WDn"
    <3>1. WATCHDOG_TIMES_US[c.n] \in Timeouts
      BY <1>0, <2>1, AduProtocolAssumption DEF CommandInRange
    <3> QED
      BY <2>1, <3>1 DEF HandlerWatchdogSetting
  <2>2. CASE UNCHANGED WatchdogTimeoutPeriodUs
    BY <2>2
  <2> QED
    BY <1>1, <2>1, <2>2
    DEF HandleCommand, HandlerReadInputs, HandlerSetRelay, HandlerClearRelay,
        HandlerWriteRelayPort, HandlerRead, HandlerReadAndResetEventCounter,
        HandlerDebounceSetting, HandlerWatchdogSetting, AnswerSetting, RejectCommand,
        DropLongCommand
<1> QED
  BY <1>1, <1>2, <1>3 DEF WatchdogCommand

LEMMA CommandMovesCounters ==
  ASSUME ~Sampling,
         NEW text \in Texts, AduProtocolProcessCommand(text),
         UNCHANGED <<timer, pinsInputBank1, sampleTime, age, released, counterLag>>
  PROVE  CounterCommand \/ CounterLineChange \/ UNCHANGED counterVars
<1> DEFINE c == CommandOf[text]
<1>0. CommandInRange(c)
  BY CommandsAreInRange DEF CommandOf
<1>1. HandleCommand(c)
  BY DEF AduProtocolProcessCommand
<1> HIDE DEF c
<1>2. CASE HandlerReadAndResetEventCounter(c)
  <2>1. c.n \in Input
    BY <1>0, <1>2 DEF CommandInRange, HandlerReadAndResetEventCounter
  <2>2. inputs' = inputs
    BY <1>1, <1>2 DEF HandleCommand, HandlerReadInputs, HandlerReadAndResetEventCounter
  <2> QED
    BY <1>2, <2>1, <2>2 DEF HandlerReadAndResetEventCounter, CounterCommand, debounceSetting
<1>3. CASE HandlerDebounceSetting(c) /\ c.op = "DBn"
  <2>1. DEBOUNCE_TIMES_US[c.n] \in DebounceTimes
    BY <1>0, <1>3, AduProtocolAssumption DEF CommandInRange
  <2>2. inputs' = inputs
    BY <1>1, <1>3 DEF HandleCommand, HandlerReadInputs
  <2> QED
    BY <1>3, <2>1, <2>2 DEF HandlerDebounceSetting, CounterCommand
<1>4. CASE HandlerReadInputs(c)
  BY <1>4 DEF HandlerReadInputs, CounterLineChange, debounceSetting, counterState,
              counterHistory
<1>5. CASE UNCHANGED <<inputs, Counters, debounceSetting>>
  BY <1>5 DEF debounceSetting, counterVars, counterState, counterHistory
<1> QED
  BY <1>1, <1>2, <1>3, <1>4, <1>5
  DEF HandleCommand, HandlerReadInputs, HandlerSetRelay, HandlerClearRelay,
      HandlerWriteRelayPort, HandlerRead, HandlerDebounceSetting,
      HandlerWatchdogSetting, AnswerSetting, RejectCommand, DropLongCommand

(***************************************************************************)
(* A command closes no relay that it does not name (AduProtocol.c:361-369, *)
(* 425-434).                                                               *)
(***************************************************************************)
LEMMA CommandClosesNamedRelays ==
  ASSUME NEW text \in Texts, AduProtocolProcessCommand(text),
         NEW r \in relays' \ relays
  PROVE  /\ silence' = 0
         /\ \/ lastCommand' = [op |-> "SK", n |-> r]
            \/ lastCommand'.op = "MK" /\ r \in LinesOf(lastCommand'.n, Relay)
<1> DEFINE c == CommandOf[text]
<1>0. CommandInRange(c)
  BY CommandsAreInRange DEF CommandOf
<1>1. HandleCommand(c) /\ silence' = 0 /\ lastCommand' = c
  BY DEF AduProtocolProcessCommand, HostSpeaks
<1> HIDE DEF c
<1>2. CASE HandlerSetRelay(c)
  <2>1. c.n = r
    BY <1>2 DEF HandlerSetRelay, BoardWriteRelays, BoardReadRelays
  <2>2. c = [op |-> "SK", n |-> r]
    BY <1>0, <1>2, <2>1 DEF CommandInRange, HandlerSetRelay
  <2> QED
    BY <1>1, <2>2
<1>3. CASE HandlerClearRelay(c)
  BY <1>3 DEF HandlerClearRelay, BoardWriteRelays, BoardReadRelays
<1>4. CASE HandlerWriteRelayPort(c)
  BY <1>1, <1>4 DEF HandlerWriteRelayPort, BoardWriteRelays
<1>5. CASE UNCHANGED relays
  BY <1>5
<1> QED
  BY <1>1, <1>2, <1>3, <1>4, <1>5
  DEF HandleCommand, HandlerReadInputs, HandlerRead, HandlerReadAndResetEventCounter,
      HandlerDebounceSetting, HandlerWatchdogSetting, AnswerSetting, RejectCommand,
      DropLongCommand

-----------------------------------------------------------------------------
(***************************************************************************)
(* What the refinement needs of a state: the port holds relays, the USB    *)
(* stack holds reports, and no command can run during a pass over the      *)
(* counters, for pc has moved on only when the pass is over (Main.c:46-48).*)
(***************************************************************************)
RelaconInv ==
  /\ relays \subseteq Relay
  /\ outReport \in Texts \union {NoReport, OtherReport}
  /\ control \in Texts \union {NoReport, OtherReport, GetReport, OtherGetReport}
  /\ pc # "EventCounterTask" => ~Sampling

(***************************************************************************)
(* A request that UsbTask handles is a command, or leaves both components  *)
(* alone (Usb.c:52-71, 103-143).                                           *)
(***************************************************************************)
LEMMA UsbTaskIsCommands ==
  ASSUME RelaconInv, UsbTask
  PROVE  /\ UNCHANGED <<timer, watchdogLag, pinsInputBank1, sampleTime, age, released,
                         counterLag>>
         /\ \/ \E text \in Texts : AduProtocolProcessCommand(text)
            \/ UNCHANGED <<inputs, relays, WatchdogTimeoutPeriodUs, LastKickTimeUs, silence,
                           granted, Counters, debounceSetting>>
<1>1. CASE HandleOutReport
  <2>1. UNCHANGED untouched
    BY <1>1 DEF HandleOutReport
  <2>2. CASE outReport = OtherReport
    BY <1>1, <2>1, <2>2 DEF HandleOutReport, tud_hid_set_report_cb, untouched
  <2>3. CASE outReport # OtherReport
    <3>1. outReport \in Texts
      BY <1>1, <2>3 DEF HandleOutReport, RelaconInv
    <3>2. AduProtocolProcessCommand(outReport)
      BY <1>1, <2>3 DEF HandleOutReport, tud_hid_set_report_cb
    <3> QED
      BY <2>1, <3>1, <3>2 DEF untouched
  <2> QED
    BY <2>2, <2>3
<1>2. CASE HandleSetReport
  <2>1. UNCHANGED untouched
    BY <1>2 DEF HandleSetReport
  <2>2. CASE control = OtherReport
    BY <1>2, <2>1, <2>2 DEF HandleSetReport, tud_hid_set_report_cb, untouched
  <2>3. CASE control # OtherReport
    <3>1. control \in Texts
      BY <1>2, <2>3 DEF HandleSetReport, RelaconInv
    <3>2. AduProtocolProcessCommand(control)
      BY <1>2, <2>3 DEF HandleSetReport, tud_hid_set_report_cb
    <3> QED
      BY <2>1, <3>1, <3>2 DEF untouched
  <2> QED
    BY <2>2, <2>3
<1>3. CASE HandleGetReport
  BY <1>3 DEF HandleGetReport, untouched
<1> QED
  BY <1>1, <1>2, <1>3 DEF UsbTask

THEOREM RelaconInvariant == Spec => []RelaconInv
<1>1. Init => RelaconInv
  BY DEF Init, UsbInit, EventCounterInit, RelaconInv, Sampling
<1>2. RelaconInv /\ [Next]_vars => RelaconInv'
  <2> SUFFICES ASSUME RelaconInv, [Next]_vars
               PROVE  RelaconInv'
    OBVIOUS
  <2>1. CASE UsbTask
    <3>1. relays' \subseteq Relay
      <4>1. CASE \E text \in Texts : AduProtocolProcessCommand(text)
        <5>1. WatchdogCommand
          BY <2>1, <4>1, UsbTaskIsCommands, CommandMovesWatchdog DEF RelaconInv
        <5> QED
          BY <5>1 DEF WatchdogCommand
      <4>2. CASE UNCHANGED relays
        BY <4>2 DEF RelaconInv
      <4> QED
        BY <2>1, <4>1, <4>2, UsbTaskIsCommands
    <3>2. /\ outReport' \in {outReport, NoReport}
          /\ control' \in {control, NoReport}
      BY <2>1 DEF UsbTask, HandleOutReport, HandleSetReport, HandleGetReport
    <3>3. UNCHANGED <<pc, sampleTime>>
      BY <2>1, UsbTaskIsCommands DEF UsbTask
    <3> QED
      BY <3>1, <3>2, <3>3 DEF RelaconInv, Sampling
  <2>2. CASE UsbTaskReturns
    BY <2>2 DEF UsbTaskReturns, RelaconInv, firmware, usbVars
  <2>3. CASE CountInputs
    BY <2>3 DEF CountInputs, EventCounterTaskStart,
                EventCounterTaskReadBank1, EventCounterTask, RelaconInv, Sampling,
                NoSample
  <2>4. CASE CheckWatchdog
    <3>1. relays' \subseteq Relay
      BY <2>4 DEF CheckWatchdog, WatchdogTask, WatchdogExpire, BoardWriteRelays, RelaconInv
    <3> QED
      BY <2>4, <3>1 DEF CheckWatchdog, RelaconInv, Sampling, counterState, usbVars
  <2>5. CASE Host
    <3>1. UNCHANGED <<relays, sampleTime, pc>>
      BY <2>5 DEF Host, HostWritesReport, HostSendsControl, HostReadsReport, BusReset,
                  firmware, counterState
    <3>2. /\ outReport' \in Texts \union {NoReport, OtherReport}
          /\ control' \in Texts \union {NoReport, OtherReport, GetReport, OtherGetReport}
      BY <2>5, UsbAssumption
      DEF Host, HostWritesReport, HostSendsControl, HostReadsReport, BusReset, RelaconInv
    <3> QED
      BY <3>1, <3>2 DEF RelaconInv, Sampling
  <2>6. CASE LinesChange
    BY <2>6 DEF LinesChange, RelaconInv, Sampling, counterState, usbVars
  <2>7. CASE Tick
    BY <2>7 DEF Tick, RelaconInv, Sampling, counterState
  <2>8. CASE UNCHANGED vars
    BY <2>8 DEF vars, firmware, usbVars, counterState, RelaconInv, Sampling
  <2> QED
    BY <2>1, <2>2, <2>3, <2>4, <2>5, <2>6, <2>7, <2>8 DEF Next
<1> QED
  BY <1>1, <1>2, PTL DEF Spec

-----------------------------------------------------------------------------
(***************************************************************************)
(* main() only does to the watchdog what Watchdog.tla allows: commands     *)
(* that end in a kick, ticks and passes (Main.c:44-49).                    *)
(***************************************************************************)
THEOREM FirmwareImplementsWatchdog == Spec => ImplementsWatchdog
<1>1. Init => WatchdogStart
  BY DEF Init, WatchdogStart
<1>2. RelaconInv /\ [Next]_vars => [WatchdogNext]_watchdogVars
  <2> SUFFICES ASSUME RelaconInv, [Next]_vars
               PROVE  [WatchdogNext]_watchdogVars
    OBVIOUS
  <2>1. CASE UsbTask
    <3>1. CASE \E text \in Texts : AduProtocolProcessCommand(text)
      <4>1. WatchdogCommand
        BY <2>1, <3>1, UsbTaskIsCommands, CommandMovesWatchdog DEF RelaconInv
      <4> QED
        BY <4>1 DEF WatchdogNext
    <3>2. CASE UNCHANGED <<relays, WatchdogTimeoutPeriodUs, LastKickTimeUs, silence,
                           granted>>
      BY <2>1, <3>2, UsbTaskIsCommands DEF watchdogVars
    <3> QED
      BY <2>1, <3>1, <3>2, UsbTaskIsCommands
  <2>2. CASE UsbTaskReturns
    BY <2>2 DEF UsbTaskReturns, firmware, watchdogVars
  <2>3. CASE CountInputs
    BY <2>3 DEF CountInputs, EventCounterTaskStart,
                EventCounterTaskReadBank1, EventCounterTask, watchdogVars
  <2>4. CASE CheckWatchdog
    BY <2>4 DEF CheckWatchdog, WatchdogNext
  <2>5. CASE Host
    BY <2>5 DEF Host, HostWritesReport, HostSendsControl, HostReadsReport, BusReset,
                firmware, watchdogVars
  <2>6. CASE LinesChange
    BY <2>6 DEF LinesChange, watchdogVars
  <2>7. CASE Tick
    BY <2>7 DEF Tick, WatchdogTick, WatchdogNext
  <2>8. CASE UNCHANGED vars
    BY <2>8 DEF vars, firmware, watchdogVars
  <2> QED
    BY <2>1, <2>2, <2>3, <2>4, <2>5, <2>6, <2>7, <2>8 DEF Next
<1> QED
  BY <1>1, <1>2, RelaconInvariant, PTL DEF Spec, ImplementsWatchdog, WatchdogSpec

(***************************************************************************)
(* And to the counters what EventCounter.tla allows: no command falls into *)
(* a pass over them (Main.c:46-47, EventCounter.c:70-116).                 *)
(***************************************************************************)
THEOREM FirmwareImplementsCounters == Spec => ImplementsCounters
<1>1. Init => CounterStart
  BY DEF Init, CounterStart
<1>2. RelaconInv /\ [Next]_vars => [CounterNext]_counterVars
  <2> SUFFICES ASSUME RelaconInv, [Next]_vars
               PROVE  [CounterNext]_counterVars
    OBVIOUS
  <2>1. CASE UsbTask
    <3>0. ~Sampling
      BY <2>1 DEF UsbTask, RelaconInv
    <3>1. CASE \E text \in Texts : AduProtocolProcessCommand(text)
      <4>1. CounterCommand \/ CounterLineChange \/ UNCHANGED counterVars
        BY <2>1, <3>0, <3>1, UsbTaskIsCommands, CommandMovesCounters
      <4> QED
        BY <4>1 DEF CounterNext
    <3>2. CASE UNCHANGED <<inputs, Counters, debounceSetting>>
      BY <2>1, <3>2, UsbTaskIsCommands
      DEF debounceSetting, counterVars, counterState, counterHistory
    <3> QED
      BY <2>1, <3>1, <3>2, UsbTaskIsCommands
  <2>2. CASE UsbTaskReturns
    BY <2>2 DEF UsbTaskReturns, firmware, counterVars
  <2>3. CASE CountInputs
    BY <2>3 DEF CountInputs, CounterNext
  <2>4. CASE CheckWatchdog
    BY <2>4 DEF CheckWatchdog, WatchdogTask, counterVars
  <2>5. CASE Host
    BY <2>5 DEF Host, HostWritesReport, HostSendsControl, HostReadsReport, BusReset,
                firmware, counterVars
  <2>6. CASE LinesChange
    BY <2>6 DEF LinesChange, CounterLineChange, CounterNext
  <2>7. CASE Tick
    BY <2>7 DEF Tick, CounterTick, CounterNext
  <2>8. CASE UNCHANGED vars
    BY <2>8 DEF vars, firmware, counterVars
  <2> QED
    BY <2>1, <2>2, <2>3, <2>4, <2>5, <2>6, <2>7, <2>8 DEF Next
<1> QED
  BY <1>1, <1>2, RelaconInvariant, PTL DEF Spec, ImplementsCounters, CounterSpec

-----------------------------------------------------------------------------
(***************************************************************************)
(* In the firmware, then, a silent host finds its relays open in time      *)
(* (Watchdog.c:53-58), and only a silent host does.                        *)
(***************************************************************************)
THEOREM FirmwareOpensRelays ==
  Spec => []SilentHostMeansOpenRelays /\ TripsOnlyAfterSilence
BY FirmwareImplementsWatchdog, SilenceOpensRelays, TripsAreDeserved, PTL
DEF ImplementsWatchdog

(***************************************************************************)
(* And its counters count no bounce and miss no event                      *)
(* (EventCounter.c:80-103), whatever the host commands.                    *)
(***************************************************************************)
THEOREM FirmwareCountsEvents == Spec => DebounceHonoured /\ NoMissedEvent
BY FirmwareImplementsCounters, EventsAreDebounced, EventsAreNotMissed, PTL
DEF ImplementsCounters

(***************************************************************************)
(* No step of the firmware closes a relay but the one that handles a       *)
(* command naming it (AduProtocol.c:361-369, 425-434).                     *)
(***************************************************************************)
THEOREM RelaysAreCommanded == Spec => RelaysCloseOnlyOnCommand
<1> DEFINE Named(r) ==
      /\ silence' = 0
      /\ \/ lastCommand' = [op |-> "SK", n |-> r]
         \/ lastCommand'.op = "MK" /\ r \in LinesOf(lastCommand'.n, Relay)
<1>1. RelaconInv /\ [Next]_vars => [\A r \in relays' \ relays : Named(r)]_vars
  <2> SUFFICES ASSUME RelaconInv, [Next]_vars, NEW r \in relays' \ relays
               PROVE  Named(r)
    OBVIOUS
  <2>1. CASE UsbTask
    <3>1. PICK text \in Texts : AduProtocolProcessCommand(text)
      BY <2>1, UsbTaskIsCommands
    <3> QED
      BY <3>1, CommandClosesNamedRelays
  <2>2. CASE CheckWatchdog
    BY <2>2 DEF CheckWatchdog, WatchdogTask, WatchdogExpire, BoardWriteRelays
  <2>3. CASE UNCHANGED relays
    BY <2>3
  <2> QED
    BY <2>1, <2>2, <2>3
    DEF Next, UsbTaskReturns, CountInputs, Host, LinesChange, Tick, HostWritesReport,
        HostSendsControl, HostReadsReport, BusReset, firmware, vars
<1> QED
  BY <1>1, RelaconInvariant, PTL DEF Spec, RelaysCloseOnlyOnCommand

-----------------------------------------------------------------------------
(***************************************************************************)
(* A query of a setting succeeds because the times in force are always     *)
(* those of some entry: what a command sets comes from the table, and what *)
(* a reset or a trip leaves is in it too (AduProtocol.c:81-105).           *)
(***************************************************************************)
SettingsInv ==
  /\ DebounceSettings # {}
  /\ WatchdogSettings # {}
  /\ SettingsAreReadable

LEMMA AnswersAreNotEmpty ==
  ASSUME NEW settings, settings # {}, AnswerSetting(settings)
  PROVE  success' /\ ResponseBuf' # <<>>
<1>1. success' = TRUE /\ ResponseBuf' = Decimal(Min(settings), DEC_DIGITS_1_BIT)
  BY DEF AnswerSetting, Responds
<1>2. DOMAIN ResponseBuf' = 1 .. 1
  BY <1>1 DEF Decimal, DEC_DIGITS_1_BIT
<1>3. DOMAIN <<>> = {}
  OBVIOUS
<1>4. 1 \in 1 .. 1
  OBVIOUS
<1> QED
  BY <1>1, <1>2, <1>3, <1>4, Zenon

LEMMA CommandKeepsSettings ==
  ASSUME SettingsInv, NEW text \in Texts, AduProtocolProcessCommand(text)
  PROVE  SettingsInv'
<1> DEFINE c == CommandOf[text]
<1>0. CommandInRange(c)
  BY CommandsAreInRange DEF CommandOf
<1>1. /\ HandleCommand(c) /\ lastCommand' = c
      /\ lastReply' = IF c = TooLong THEN <<>> ELSE ResponseBuf'
  BY DEF AduProtocolProcessCommand
<1> HIDE DEF c
<1>2. DebounceSettings' # {}
  <2>1. CASE HandlerDebounceSetting(c) /\ c.op = "DBn"
    <3>1. c.n \in DOMAIN DEBOUNCE_TIMES_US
      BY <1>0, <2>1, AduProtocolAssumption DEF CommandInRange
    <3>2. DebounceTimeUs' = DEBOUNCE_TIMES_US[c.n]
      BY <2>1 DEF HandlerDebounceSetting, EventCounterDebounceTimeSet
    <3> QED
      BY <3>1, <3>2 DEF DebounceSettings, EventCounterDebounceTimeGet
  <2>2. CASE UNCHANGED DebounceTimeUs
    BY <2>2 DEF SettingsInv, DebounceSettings, EventCounterDebounceTimeGet
  <2> QED
    BY <1>1, <2>1, <2>2
    DEF HandleCommand, HandlerReadInputs, HandlerSetRelay, HandlerClearRelay,
        HandlerWriteRelayPort, HandlerRead, HandlerReadAndResetEventCounter,
        HandlerDebounceSetting, HandlerWatchdogSetting, AnswerSetting, RejectCommand,
        DropLongCommand, debounceSetting
<1>3. WatchdogSettings' # {}
  <2>1. CASE HandlerWatchdogSetting(c) /\ c.op = "WDn"
    <3>1. c.n \in DOMAIN WATCHDOG_TIMES_US
      BY <1>0, <2>1, AduProtocolAssumption DEF CommandInRange
    <3>2. WatchdogTimeoutPeriodUs' = WATCHDOG_TIMES_US[c.n]
      BY <2>1 DEF HandlerWatchdogSetting, WatchdogTimeoutSet
    <3> QED
      BY <3>1, <3>2 DEF WatchdogSettings, WatchdogTimeoutGet
  <2>2. CASE UNCHANGED WatchdogTimeoutPeriodUs
    BY <2>2 DEF SettingsInv, WatchdogSettings, WatchdogTimeoutGet
  <2> QED
    BY <1>1, <2>1, <2>2
    DEF HandleCommand, HandlerReadInputs, HandlerSetRelay, HandlerClearRelay,
        HandlerWriteRelayPort, HandlerRead, HandlerReadAndResetEventCounter,
        HandlerDebounceSetting, HandlerWatchdogSetting, AnswerSetting, RejectCommand,
        DropLongCommand
<1>4. SettingsAreReadable'
  <2> SUFFICES ASSUME c.op \in {"DB", "WD"}
               PROVE  success' /\ lastReply' # <<>>
    BY <1>1 DEF SettingsAreReadable
  <2>1. c # Invalid /\ c # TooLong
    BY DEF Invalid, TooLong
  <2>2. AnswerSetting(DebounceSettings) \/ AnswerSetting(WatchdogSettings)
    BY <1>1, <2>1
    DEF HandleCommand, HandlerReadInputs, HandlerSetRelay, HandlerClearRelay,
        HandlerWriteRelayPort, HandlerRead, HandlerReadEventCounter,
        HandlerReadAndResetEventCounter, HandlerDebounceSetting, HandlerWatchdogSetting,
        RejectCommand, DropLongCommand
  <2>3. success' /\ ResponseBuf' # <<>>
    BY <2>2, AnswersAreNotEmpty DEF SettingsInv
  <2> QED
    BY <1>1, <2>1, <2>3
<1> QED
  BY <1>2, <1>3, <1>4 DEF SettingsInv

(***************************************************************************)
(* Queries of the settings never fail (AduProtocol.c:586-595, 634-643).    *)
(***************************************************************************)
THEOREM QueriesAreAnswered == Spec => []SettingsAreReadable
<1>1. Init => SettingsInv
  BY AduProtocolAssumption
  DEF Init, EventCounterInit, WatchdogInit, AduProtocolInit, Invalid, SettingsInv,
      DebounceSettings, WatchdogSettings, EventCounterDebounceTimeGet, WatchdogTimeoutGet,
      SettingsAreReadable
<1>2. RelaconInv /\ SettingsInv /\ [Next]_vars => SettingsInv'
  <2> SUFFICES ASSUME RelaconInv, SettingsInv, [Next]_vars
               PROVE  SettingsInv'
    OBVIOUS
  <2> DEFINE Kept == UNCHANGED <<DebounceTimeUs, WatchdogTimeoutPeriodUs, lastCommand,
                                 lastReply, success>>
  <2>0. Kept => SettingsInv'
    BY DEF SettingsInv, DebounceSettings, WatchdogSettings, EventCounterDebounceTimeGet,
           WatchdogTimeoutGet, SettingsAreReadable
  <2>1. CASE UsbTask
    <3>1. CASE \E text \in Texts : AduProtocolProcessCommand(text)
      BY <3>1, CommandKeepsSettings
    <3>2. CASE ~ \E text \in Texts : AduProtocolProcessCommand(text)
      <4>1. Kept
        BY <2>1, <3>2
        DEF UsbTask, HandleOutReport, HandleSetReport, HandleGetReport,
            tud_hid_set_report_cb, debounceSetting, protocolVars, RelaconInv
      <4> QED
        BY <2>0, <4>1
    <3> QED
      BY <3>1, <3>2
  <2>2. CASE CheckWatchdog
    <3>1. UNCHANGED <<DebounceTimeUs, lastCommand, lastReply, success>>
      BY <2>2 DEF CheckWatchdog, counterState, protocolVars
    <3>2. CASE WatchdogTimeoutPeriodUs' = WATCHDOG_TIMEOUT_DISABLED
      <4>1. WatchdogSettings' # {}
        BY <3>2, AduProtocolAssumption DEF WatchdogSettings, WatchdogTimeoutGet
      <4> QED
        BY <3>1, <4>1
        DEF SettingsInv, DebounceSettings, EventCounterDebounceTimeGet, SettingsAreReadable
    <3>3. CASE UNCHANGED WatchdogTimeoutPeriodUs
      BY <2>0, <3>1, <3>3
    <3> QED
      BY <2>2, <3>2, <3>3 DEF CheckWatchdog, WatchdogTask, WatchdogExpire
  <2>3. CASE \/ UsbTaskReturns \/ CountInputs \/ Host \/ LinesChange \/ Tick
             \/ UNCHANGED vars
    <3>1. Kept
      BY <2>3
      DEF UsbTaskReturns, CountInputs, EventCounterTaskStart,
          EventCounterTaskReadBank1, EventCounterTask, Host, HostWritesReport,
          HostSendsControl, HostReadsReport, BusReset, LinesChange, Tick,
          firmware, vars, counterState, protocolVars
    <3> QED
      BY <2>0, <3>1
  <2> QED
    BY <2>1, <2>2, <2>3 DEF Next
<1>3. SettingsInv => SettingsAreReadable
  BY DEF SettingsInv
<1> QED
  BY <1>1, <1>2, <1>3, RelaconInvariant, PTL DEF Spec

-----------------------------------------------------------------------------
(***************************************************************************)
(* The inductive invariant behind what a host may make of an answer: it is *)
(* the setting whose period was in force when it last spoke.               *)
(***************************************************************************)
AnswerInv ==
  (lastCommand.op = "WD" /\ lastReply # <<>>) =>
    /\ lastReply[1] \in DOMAIN WATCHDOG_TIMES_US
    /\ granted = WATCHDOG_TIMES_US[lastReply[1]]

(* One digit tells a setting, if there are no more than ten. *)
LEMMA DigitTellsSetting ==
  ASSUME NEW s \in 0 .. 9
  PROVE  Decimal(s, DEC_DIGITS_1_BIT)[1] = s
<1>1. 10 ^ (1 - 1) = 1
  BY Z3
<1>2. (s \div 1) % 10 = s
  BY Z3
<1>3. 1 \in 1 .. 1
  OBVIOUS
<1> QED
  BY <1>1, <1>2, <1>3 DEF Decimal, DEC_DIGITS_1_BIT

LEMMA CommandKeepsAnswer ==
  ASSUME WATCHDOG_SETTING_NUM_SETTINGS <= 10, NEW text \in Texts,
         AduProtocolProcessCommand(text)
  PROVE  AnswerInv'
<1> DEFINE c == CommandOf[text]
<1>1. /\ HandleCommand(c) /\ lastCommand' = c
      /\ lastReply' = IF c = TooLong THEN <<>> ELSE ResponseBuf'
      /\ granted' = WatchdogTimeoutPeriodUs'
  BY DEF AduProtocolProcessCommand, HostSpeaks
<1> HIDE DEF c
<1> SUFFICES ASSUME c.op = "WD", lastReply' # <<>>
             PROVE  /\ lastReply'[1] \in DOMAIN WATCHDOG_TIMES_US
                    /\ granted' = WATCHDOG_TIMES_US[lastReply'[1]]
  BY <1>1 DEF AnswerInv
<1>2. c # TooLong
  BY DEF TooLong
<1>3. HandlerWatchdogSetting(c)
  BY <1>1
  DEF HandleCommand, HandlerReadInputs, HandlerSetRelay, HandlerClearRelay,
      HandlerWriteRelayPort, HandlerRead, HandlerReadEventCounter,
      HandlerReadAndResetEventCounter, HandlerDebounceSetting, RejectCommand,
      DropLongCommand, Invalid, TooLong
<1>4. AnswerSetting(WatchdogSettings)
  BY <1>3 DEF HandlerWatchdogSetting
<1> DEFINE s == Min(WatchdogSettings)
<1>5. /\ WatchdogSettings # {} /\ lastReply' = Decimal(s, DEC_DIGITS_1_BIT)
      /\ UNCHANGED WatchdogTimeoutPeriodUs
  BY <1>1, <1>2, <1>4 DEF AnswerSetting, Responds, Fails
<1>6. WatchdogSettings \subseteq 0 .. 9
  <2>1. DOMAIN WATCHDOG_TIMES_US = 0 .. WATCHDOG_SETTING_NUM_SETTINGS - 1
    BY AduProtocolAssumption
  <2> QED
    BY <2>1, AduCommandAssumption DEF WatchdogSettings
<1>7. s \in WatchdogSettings
  BY <1>5, <1>6, LeastIsThere
<1> HIDE DEF s
<1>8. lastReply'[1] = s
  BY <1>5, <1>6, <1>7, DigitTellsSetting
<1> QED
  BY <1>1, <1>5, <1>7, <1>8 DEF WatchdogSettings, WatchdogTimeoutGet

(***************************************************************************)
(* A host that asks for the watchdog's setting and then falls silent finds *)
(* its relays open after the period it was told, if the digit of a setting *)
(* tells it (AduProtocol.c:634-643; Watchdog.c:53-58).                     *)
(***************************************************************************)
THEOREM AnsweredPeriodsHold ==
  ASSUME WATCHDOG_SETTING_NUM_SETTINGS <= 10
  PROVE  Spec => []AnsweredPeriodHolds
<1>1. Init => AnswerInv
  BY DEF Init, AduProtocolInit, AnswerInv
<1>2. RelaconInv /\ AnswerInv /\ [Next]_vars => AnswerInv'
  <2> SUFFICES ASSUME RelaconInv, AnswerInv, [Next]_vars
               PROVE  AnswerInv'
    OBVIOUS
  <2>0. UNCHANGED <<lastCommand, lastReply, granted>> => AnswerInv'
    BY DEF AnswerInv
  <2>1. CASE \E text \in Texts : AduProtocolProcessCommand(text)
    BY <2>1, CommandKeepsAnswer
  <2>2. CASE UsbTask /\ ~ \E text \in Texts : AduProtocolProcessCommand(text)
    <3>1. UNCHANGED <<lastCommand, lastReply, granted>>
      BY <2>2
      DEF UsbTask, HandleOutReport, HandleSetReport, HandleGetReport,
          tud_hid_set_report_cb, protocolVars, RelaconInv
    <3> QED
      BY <2>0, <3>1
  <2>3. CASE \/ UsbTaskReturns \/ CountInputs \/ CheckWatchdog \/ Host \/ LinesChange \/ Tick
             \/ UNCHANGED vars
    <3>1. UNCHANGED <<lastCommand, lastReply, granted>>
      BY <2>3
      DEF UsbTaskReturns, CountInputs, CheckWatchdog, WatchdogTask, Host, HostWritesReport,
          HostSendsControl, HostReadsReport, BusReset, LinesChange, Tick, firmware, vars,
          protocolVars
    <3> QED
      BY <2>0, <3>1
  <2> QED
    BY <2>1, <2>2, <2>3 DEF Next
<1>3. AnswerInv /\ SilentHostMeansOpenRelays => AnsweredPeriodHolds
  BY DEF AnswerInv, SilentHostMeansOpenRelays, AnsweredPeriodHolds
<1> QED
  BY <1>1, <1>2, <1>3, RelaconInvariant, FirmwareOpensRelays, PTL DEF Spec

=============================================================================
