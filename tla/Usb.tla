-------------------------------- MODULE Usb ---------------------------------
(***************************************************************************)
(* src/Usb.c between the USB stack and the command processor.  The stack   *)
(* (TinyUSB) and the host are external: the OUT endpoint and the control   *)
(* pipe each hold one request until UsbTask handles it, and the IN         *)
(* endpoint holds one report until the host collects it.                   *)
(*                                                                         *)
(* A report is the text it is taken for (AduReport), or OtherReport if it  *)
(* is not the ADU's.  History: inCommand is the command whose response the *)
(* IN endpoint holds, edges and received the events counted and those the  *)
(* host has been told of by read-and-reset, and busReset whether the bus   *)
(* was ever reset.                                                         *)
(***************************************************************************)
EXTENDS AduProtocol, AduReport

CONSTANTS
  NoReport,       (* An endpoint or pipe that holds nothing                      *)
  OtherReport,    (* A report of another type or ID                              *)
  GetReport,      (* A GET_REPORT request for the response                       *)
  OtherGetReport, (* One for a report of another type or ID                      *)
  ControlReports, (* What the host sends over the control pipe                   *)
  CollectsFirst,  (* Whether the host collects a response before it sends again  *)
  BusResets       (* Whether the bus is ever reset                               *)

ASSUME UsbAssumption ==
  /\ {NoReport, OtherReport, GetReport, OtherGetReport} \intersect Texts = {}
  /\ NoReport \notin Seq(Nat)
  /\ {NoReport, OtherReport} \intersect {GetReport, OtherGetReport} = {}
  /\ OtherReport # NoReport /\ OtherGetReport # GetReport
  /\ ControlReports \subseteq Texts \union {OtherReport, GetReport, OtherGetReport}
  /\ CollectsFirst \in BOOLEAN
  /\ BusResets \in BOOLEAN

SIZEOF_REQLEN == 2

VARIABLES
  outReport,  (* OUT endpoint: NoReport, OtherReport or the text of a command *)
  control,    (* Control pipe: the same, or a GET_REPORT request              *)
  inReport,   (* IN endpoint: NoReport or a response                          *)
  answer,     (* What the last GET_REPORT returned                            *)
  inCommand,
  edges,
  received,
  sent,       (* Bound: the host sends at most one request a tick             *)
  busReset

usbVars ==
  <<outReport, control, inReport, answer, inCommand, edges, received, sent, busReset>>

UsbInit ==
  /\ outReport = NoReport
  /\ control = NoReport
  /\ inReport = NoReport
  /\ answer = <<>>
  /\ inCommand = Invalid
  /\ edges = [i \in Input |-> 0]
  /\ received = [i \in Input |-> 0]
  /\ sent = FALSE
  /\ busReset = FALSE

-----------------------------------------------------------------------------
(***************************************************************************)
(* tud_hid_report: without effect while the endpoint still holds a report, *)
(* which has room for one byte less than the buffer beside its ID.         *)
(***************************************************************************)
tud_hid_report(digits) ==
  IF inReport = NoReport
    THEN /\ inReport' = SubSeq(digits, 1, Min({CFG_TUD_HID_EP_BUFSIZE - 1, Len(digits)}))
         /\ inCommand' = lastCommand'
    ELSE UNCHANGED <<inReport, inCommand>>

(* Mutant: whatever the buffer holds is sent, whether or not the command succeeded. *)
tud_hid_set_report_cb_Unconditional(report) ==
  IF report = OtherReport
    THEN UNCHANGED <<inputs, relays, WatchdogTimeoutPeriodUs, LastKickTimeUs, silence,
                     granted, Counters, debounceSetting, protocolVars, inReport, inCommand>>
    ELSE /\ AduProtocolProcessCommand(report)
         /\ LET rsp == AduProtocolGetResponse(CFG_TUD_HID_EP_BUFSIZE)'
            IN IF rsp # <<>> THEN tud_hid_report(rsp) ELSE UNCHANGED <<inReport, inCommand>>

(* Any other report is ignored, and does not count as a command. *)
tud_hid_set_report_cb(report) ==
  IF report = OtherReport
    THEN UNCHANGED <<inputs, relays, WatchdogTimeoutPeriodUs, LastKickTimeUs, silence,
                     granted, Counters, debounceSetting, protocolVars, inReport, inCommand>>
    ELSE /\ AduProtocolProcessCommand(report)
         /\ LET rsp == AduProtocolGetResponse(CFG_TUD_HID_EP_BUFSIZE)'
            IN IF success' /\ rsp # <<>>
                 THEN tud_hid_report(rsp)
                 ELSE UNCHANGED <<inReport, inCommand>>

(***************************************************************************)
(* The buffer's length argument is the size of a uint16_t.  A request for  *)
(* any other report is refused.                                            *)
(***************************************************************************)
tud_hid_get_report_cb(request) ==
  answer' = IF request = GetReport THEN AduProtocolGetResponse(SIZEOF_REQLEN) ELSE <<>>

-----------------------------------------------------------------------------
(* What UsbTask does with the requests the stack has queued. *)
untouched == <<timer, pinsInputBank1, watchdogLag, sampleTime, age, released,
               counterLag, edges, received, sent, busReset>>

HandleOutReport ==
  /\ outReport # NoReport
  /\ tud_hid_set_report_cb(outReport)
  /\ outReport' = NoReport
  /\ UNCHANGED <<untouched, control, answer>>

HandleSetReport ==
  /\ control \notin {NoReport, GetReport, OtherGetReport}
  /\ tud_hid_set_report_cb(control)
  /\ control' = NoReport
  /\ UNCHANGED <<untouched, outReport, answer>>

HandleGetReport ==
  /\ control \in {GetReport, OtherGetReport}
  /\ tud_hid_get_report_cb(control)
  /\ control' = NoReport
  /\ UNCHANGED <<untouched, outReport, inReport, inCommand>>
  /\ UNCHANGED <<inputs, relays, WatchdogTimeoutPeriodUs, LastKickTimeUs, silence,
                 granted, Counters, debounceSetting, protocolVars>>

-----------------------------------------------------------------------------
(* The host and the bus. *)
firmware == <<timer, relays, inputs, LastKickTimeUs, WatchdogTimeoutPeriodUs, silence,
              granted, watchdogLag, counterState, counterHistory, counterLag, protocolVars>>

HostMaySend ==
  /\ ~sent
  /\ CollectsFirst => outReport = NoReport /\ control = NoReport /\ inReport = NoReport

HostWritesReport ==
  /\ HostMaySend
  /\ outReport = NoReport
  /\ outReport' \in Texts \union {OtherReport}
  /\ sent' = TRUE
  /\ UNCHANGED <<firmware, control, inReport, answer, inCommand, edges, received, busReset>>

HostSendsControl ==
  /\ HostMaySend
  /\ control = NoReport
  /\ control' \in ControlReports
  /\ sent' = TRUE
  /\ UNCHANGED <<firmware, outReport, inReport, answer, inCommand, edges, received, busReset>>

(* The number five digits stand for. *)
Number(digits) ==
  10000 * digits[1] + 1000 * digits[2] + 100 * digits[3] + 10 * digits[4] + digits[5]

(* The events reported by a response that cleared counter i. *)
Reported(i) ==
  IF inReport # NoReport /\ inCommand = [op |-> "RC", n |-> i] THEN Number(inReport) ELSE 0

HostReadsReport ==
  /\ inReport # NoReport
  /\ inReport' = NoReport
  /\ inCommand' = Invalid
  /\ received' = [i \in Input |-> (received[i] + Reported(i)) % CountMod]
  /\ UNCHANGED <<firmware, outReport, control, answer, edges, sent, busReset>>

(* A bus reset clears the endpoints and the control pipe. *)
BusReset ==
  /\ BusResets
  /\ outReport' = NoReport
  /\ control' = NoReport
  /\ inReport' = NoReport
  /\ inCommand' = Invalid
  /\ busReset' = TRUE
  /\ UNCHANGED <<firmware, answer, edges, received, sent>>

=============================================================================
