------------------------------ MODULE Relacon -------------------------------
(***************************************************************************)
(* src/Main.c: the whole firmware.  main() runs UsbTask, EventCounterTask  *)
(* and WatchdogTask in turn for ever; interrupts let time pass, lines move *)
(* and requests arrive between any two steps.                              *)
(***************************************************************************)
EXTENDS Usb

VARIABLE pc  (* The task main() is in *)

vars == <<firmware, usbVars, pc>>

(* The timer has run for an unspecified time when main() enters its loop. *)
Init ==
  /\ timer \in Time
  /\ relays = {}
  /\ inputs \in SUBSET Input
  /\ EventCounterInit
  /\ WatchdogInit
  /\ AduProtocolInit
  /\ UsbInit
  /\ pc = "UsbTask"

(* Mutant: requests are handled in the USB interrupt. *)
UsbTask_InInterrupt ==
  /\ HandleOutReport \/ HandleSetReport \/ HandleGetReport
  /\ UNCHANGED pc

(* tud_task handles requests until there is none left. *)
UsbTask ==
  /\ pc = "UsbTask"
  /\ HandleOutReport \/ HandleSetReport \/ HandleGetReport
  /\ UNCHANGED pc

(* Mutant: the task waits until the host has collected the response. *)
UsbTaskReturns_AfterCollection ==
  /\ pc = "UsbTask"
  /\ outReport = NoReport /\ control = NoReport /\ inReport = NoReport
  /\ pc' = "EventCounterTask"
  /\ UNCHANGED <<firmware, usbVars>>

UsbTaskReturns ==
  /\ pc = "UsbTask"
  /\ outReport = NoReport /\ control = NoReport
  /\ pc' = "EventCounterTask"
  /\ UNCHANGED <<firmware, usbVars>>

CountInputs ==
  /\ pc = "EventCounterTask"
  /\ \/ /\ EventCounterTaskStart \/ EventCounterTaskReadBank1
        /\ UNCHANGED <<edges, pc>>
     \/ /\ EventCounterTask
        /\ edges' = [i \in Input |-> IF Counters'[i].Count # Counters[i].Count
                                       THEN (edges[i] + 1) % CountMod ELSE edges[i]]
        /\ pc' = "WatchdogTask"
  /\ UNCHANGED <<relays, LastKickTimeUs, WatchdogTimeoutPeriodUs, silence, granted,
                 watchdogLag, protocolVars, outReport, control, inReport, answer,
                 inCommand, received, sent, busReset>>

(* Mutant: the task waits for the timeout of an armed watchdog. *)
CheckWatchdog_Blocks ==
  /\ pc = "WatchdogTask"
  /\ Enabled => TimedOut
  /\ WatchdogTask
  /\ pc' = "UsbTask"
  /\ UNCHANGED <<inputs, counterState, counterHistory, counterLag, protocolVars, usbVars>>

CheckWatchdog ==
  /\ pc = "WatchdogTask"
  /\ WatchdogTask
  /\ pc' = "UsbTask"
  /\ UNCHANGED <<inputs, counterState, counterHistory, counterLag, protocolVars, usbVars>>

Host ==
  /\ HostWritesReport \/ HostSendsControl \/ HostReadsReport \/ BusReset
  /\ UNCHANGED pc

LinesChange ==
  /\ LineChange
  /\ UNCHANGED <<timer, relays, LastKickTimeUs, WatchdogTimeoutPeriodUs, silence, granted,
                 watchdogLag, counterState, counterHistory, counterLag, protocolVars,
                 usbVars, pc>>

(* Bound: each task comes round within MaxLag ticks. *)
Tick ==
  /\ TimerTick
  /\ WatchdogAges
  /\ CounterAges
  /\ sent' = FALSE
  /\ UNCHANGED <<relays, inputs, LastKickTimeUs, WatchdogTimeoutPeriodUs, granted,
                 counterState, shortest, longest, released, protocolVars, outReport,
                 control, inReport, answer, inCommand, edges, received, busReset, pc>>

Next ==
  \/ UsbTask
  \/ UsbTaskReturns
  \/ CountInputs
  \/ CheckWatchdog
  \/ Host
  \/ LinesChange
  \/ Tick

Spec == Init /\ [][Next]_vars

(***************************************************************************)
(* main() never stops, and neither does the timer: its fairness is strong, *)
(* for the bounds on Tick are the model's and do not hold back the timer.  *)
(***************************************************************************)
FairSpec ==
  /\ Spec
  /\ WF_vars(UsbTask)
  /\ WF_vars(UsbTaskReturns)
  /\ WF_vars(CountInputs)
  /\ WF_vars(CheckWatchdog)
  /\ SF_vars(Tick)

-----------------------------------------------------------------------------
(***************************************************************************)
(* To the watchdog, the rest of the firmware is commands and time: every   *)
(* step of main() is a step of Watchdog's specification or leaves its      *)
(* variables alone, so that what holds of the watchdog holds of the whole. *)
(***************************************************************************)
ImplementsWatchdog == WatchdogSpec

(***************************************************************************)
(* So is every step a step of EventCounter's specification: no command     *)
(* touches a counter while a pass over the counters is under way, though   *)
(* the two are not protected against each other (EventCounter.c:70-116).   *)
(***************************************************************************)
ImplementsCounters == CounterSpec

(***************************************************************************)
(* A relay closes only in the step that handles a command naming it: no    *)
(* trip of the watchdog, no lost or ignored report and no other command    *)
(* closes one (AduProtocol.c:361-369, 425-434; Watchdog.c:55-58).          *)
(***************************************************************************)
RelaysCloseOnlyOnCommand ==
  [][\A r \in relays' \ relays :
       /\ silence' = 0
       /\ \/ lastCommand' = [op |-> "SK", n |-> r]
          \/ lastCommand'.op = "MK" /\ r \in LinesOf(lastCommand'.n, Relay)]_vars

(***************************************************************************)
(* Whatever the host, the tasks and the watchdog have done before, a query *)
(* of a setting finds it in its table (AduProtocol.c:586-595, 634-643), a  *)
(* watchdog that has disarmed itself included.                             *)
(***************************************************************************)
SettingsAreReadable ==
  lastCommand.op \in {"DB", "WD"} => success /\ lastReply # <<>>

(***************************************************************************)
(* A trip disarms the watchdog, and a late command closes relays again     *)
(* with none running; a host that asks finds out.  If it is told a period  *)
(* and then falls silent for longer than that and one turn of the loop, no *)
(* relay is closed, and if it is told none it knows that it has to set one *)
(* (AduProtocol.c:634-643; Watchdog.c:53-58).                              *)
(***************************************************************************)
AnsweredPeriodHolds ==
  (/\ lastCommand.op = "WD" /\ lastReply # <<>>
   /\ WATCHDOG_TIMES_US[lastReply[1]] # WATCHDOG_TIMEOUT_DISABLED
   /\ silence > WATCHDOG_TIMES_US[lastReply[1]] + MaxLag) => relays = {}

(***************************************************************************)
(* The report a host that collects each response before it sends again     *)
(* finds in the IN endpoint answers its last command: no response of an    *)
(* earlier command gets there, though the buffer still holds it after a    *)
(* command that is too long (AduProtocol.c:734-741, Usb.c:124-139).        *)
(***************************************************************************)
ResponsesMatchCommands ==
  inReport # NoReport => inCommand = lastCommand /\ inReport = lastReply

(***************************************************************************)
(* No event is lost on the way to such a host: those it has been told of   *)
(* by read-and-reset, those in the IN endpoint and those still counted add *)
(* up, modulo the wrap, to those that happened (EventCounter.h:50-53).     *)
(***************************************************************************)
EventsAccountedFor ==
  ~busReset => \A i \in Input :
                 (received[i] + Reported(i) + Counters[i].Count) % CountMod = edges[i]

(***************************************************************************)
(* main() comes round to every request (Main.c:44-49): a report or control *)
(* request is handled whatever else the host does.                         *)
(***************************************************************************)
RequestsAreHandled ==
  /\ outReport # NoReport ~> outReport = NoReport
  /\ control # NoReport ~> control = NoReport

-----------------------------------------------------------------------------
(***************************************************************************)
(* AduProtocol.h:48-51: "Commands that do not elicit a response will       *)
(* return a length of zero" when the response is fetched.                  *)
(***************************************************************************)
SilentCommandsAnswerNothing ==
  [][(control = GetReport /\ control' = NoReport /\ lastReply = <<>> /\ ~busReset')
       => answer' = <<>>]_vars

(***************************************************************************)
(* Usb.c:59: GET_REPORT is answered with "the response to the last         *)
(* command", all of it.                                                    *)
(***************************************************************************)
GetReportAnswersInFull ==
  [][(control = GetReport /\ control' = NoReport /\ lastReply # <<>> /\ ~busReset')
       => answer' = lastReply]_vars

(***************************************************************************)
(* AduProtocol.h:48-50: "Responses that are not read by the host are       *)
(* discarded and overwritten each time the host sends a new command."      *)
(***************************************************************************)
UnreadResponsesAreOverwritten ==
  (inReport # NoReport /\ lastReply # <<>>) => inReport = lastReply

(***************************************************************************)
(* AduProtocol.c:617, 622: a handler returns "true on success or false on  *)
(* failure", so that a command that returns false has changed nothing.     *)
(***************************************************************************)
FailedCommandsChangeNothing ==
  [][(silence' = 0 /\ ~success' /\ pc = "UsbTask")
       => UNCHANGED <<relays, WatchdogTimeoutPeriodUs, Counters, DebounceTimeUs>>]_vars

=============================================================================
