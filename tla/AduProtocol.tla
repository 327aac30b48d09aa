---------------------------- MODULE AduProtocol -----------------------------
(***************************************************************************)
(* src/AduProtocol.c: what each command does to the relays, the counters   *)
(* and the watchdog, and the response it leaves for the host.              *)
(*                                                                         *)
(* ResponseBuf is the part of the buffer below ResponseBufLen, as digits.  *)
(* `success` is the result of the last AduProtocolProcessCommand.          *)
(* lastCommand and lastReply are history: the last command processed and   *)
(* the response it elicited.                                               *)
(***************************************************************************)
EXTENDS Watchdog, EventCounter, AduCommand

CONSTANTS
  Texts,               (* The texts the host sends            *)
  DEBOUNCE_TIMES_US,   (* The debounce time of each setting   *)
  WATCHDOG_TIMES_US    (* The watchdog period of each setting *)

(* The tables hold the times in force after a reset. *)
ASSUME AduProtocolAssumption ==
  /\ NUM_RELAYS = NumRelays
  /\ EVENT_COUNTER_NUM_COUNTERS = NumInputs
  /\ DEBOUNCE_TIMES_US \in [0 .. DEBOUNCE_SETTING_NUM_SETTINGS - 1 -> DebounceTimes]
  /\ WATCHDOG_TIMES_US \in [0 .. WATCHDOG_SETTING_NUM_SETTINGS - 1 -> Timeouts]
  /\ \E s \in DOMAIN DEBOUNCE_TIMES_US : DEBOUNCE_TIMES_US[s] = DEFAULT_DEBOUNCE_TIME_US
  /\ \E s \in DOMAIN WATCHDOG_TIMES_US : WATCHDOG_TIMES_US[s] = WATCHDOG_TIMEOUT_DISABLED

VARIABLES
  ResponseBuf,
  success,
  lastCommand,  (* History *)
  lastReply     (* History *)

protocolVars == <<ResponseBuf, success, lastCommand, lastReply>>

AduProtocolInit ==
  /\ ResponseBuf = <<>>
  /\ success = FALSE
  /\ lastCommand = Invalid
  /\ lastReply = <<>>

-----------------------------------------------------------------------------
(* The digits WriteResponseDecimal and WriteResponseBinary write. *)
Decimal(value, numDigits) ==
  [i \in 1 .. numDigits |-> (value \div 10 ^ (numDigits - i)) % 10]

Binary(lines, numDigits) ==
  [i \in 1 .. numDigits |-> IF numDigits - i \in lines THEN 1 ELSE 0]

(* A port's uint8_t and the lines it has set. *)
PortValue(lines) == MapThenSumSet(LAMBDA i : 2 ^ i, lines)
LinesOf(value, lines) == {i \in lines : (value \div 2 ^ i) % 2 = 1}

(* The lines may move between the reads of the two banks. *)
DigitalInputsRead == PinsOfBank1 \union PinsOfBank2'

(* Port A is the low half of the lines, port B the high half. *)
GetInputPortValue(port) ==
  LET portShift == IF port = "B" THEN INPUT_PORT_NUM_PINS ELSE 0
  IN {i \in 0 .. INPUT_PORT_NUM_PINS - 1 : i + portShift \in DigitalInputsRead}

(* The settings whose time is in force. *)
DebounceSettings ==
  {s \in DOMAIN DEBOUNCE_TIMES_US : DEBOUNCE_TIMES_US[s] = EventCounterDebounceTimeGet}

(* Mutant: the search of the table starts at its second entry. *)
WatchdogSettings_SkipsFirst ==
  {s \in DOMAIN WATCHDOG_TIMES_US \ {0} : WATCHDOG_TIMES_US[s] = WatchdogTimeoutGet}

(* Mutant: a query finds the shortest period that is not below the one in force. *)
WatchdogSettings_NotBelow ==
  {s \in DOMAIN WATCHDOG_TIMES_US \ {0} : WATCHDOG_TIMES_US[s] >= WatchdogTimeoutGet}

WatchdogSettings ==
  {s \in DOMAIN WATCHDOG_TIMES_US : WATCHDOG_TIMES_US[s] = WatchdogTimeoutGet}

(* A handler succeeds with a response, succeeds without one, or fails. *)
Responds(digits) == ResponseBuf' = digits /\ success' = TRUE
Succeeds == Responds(<<>>)
Fails == ResponseBuf' = <<>> /\ success' = FALSE

debounceSetting == <<DebounceTimeUs, shortest, longest>>

-----------------------------------------------------------------------------
(* The handlers, by the command they are entered with. *)
HandlerSetRelay(c) ==
  /\ c.op = "SK"
  /\ BoardWriteRelays(BoardReadRelays \union {c.n})
  /\ Succeeds
  /\ UNCHANGED <<WatchdogTimeoutPeriodUs, Counters, debounceSetting>>

(* Mutant: the relay's bit is toggled. *)
HandlerClearRelay_Toggles(c) ==
  /\ c.op = "RK"
  /\ BoardWriteRelays((BoardReadRelays \ {c.n}) \union ({c.n} \ BoardReadRelays))
  /\ Succeeds
  /\ UNCHANGED <<WatchdogTimeoutPeriodUs, Counters, debounceSetting>>

HandlerClearRelay(c) ==
  /\ c.op = "RK"
  /\ BoardWriteRelays(BoardReadRelays \ {c.n})
  /\ Succeeds
  /\ UNCHANGED <<WatchdogTimeoutPeriodUs, Counters, debounceSetting>>

HandlerWriteRelayPort(c) ==
  /\ c.op = "MK"
  /\ BoardWriteRelays(LinesOf(c.n, Relay))
  /\ Succeeds
  /\ UNCHANGED <<WatchdogTimeoutPeriodUs, Counters, debounceSetting>>

(* The handlers that only read: of the relays, the counters and the input lines. *)
RelayReading(c) ==
  IF c.op = "RPK" THEN <<IF c.n \in BoardReadRelays THEN 1 ELSE 0>>
                  ELSE Decimal(PortValue(BoardReadRelays), DEC_DIGITS_8_BIT)

InputReading(c) ==
  CASE c.op = "RP" -> Binary(GetInputPortValue(c.port), INPUT_PORT_NUM_PINS)
    [] c.op = "RPn" -> <<IF c.n \in GetInputPortValue(c.port) THEN 1 ELSE 0>>
    [] c.op = "PA" -> Decimal(PortValue(GetInputPortValue(c.port)), DEC_DIGITS_4_BIT)
    [] c.op = "PI" -> Decimal(PortValue(DigitalInputsRead), DEC_DIGITS_8_BIT)

HandlerReadEventCounter(c) ==
  /\ c.op = "RE"
  /\ Responds(Decimal(EventCounterRead(c.n), DEC_DIGITS_16_BIT))

HandlerRead(c) ==
  /\ \/ c.op \in {"RPK", "PK"} /\ Responds(RelayReading(c))
     \/ HandlerReadEventCounter(c)
  /\ UNCHANGED <<relays, WatchdogTimeoutPeriodUs, Counters, debounceSetting>>

HandlerReadInputs(c) ==
  /\ c.op \in {"RP", "RPn", "PA", "PI"}
  /\ LineChange
  /\ Responds(InputReading(c))
  /\ UNCHANGED <<relays, WatchdogTimeoutPeriodUs, Counters, debounceSetting>>

(* Mutant: the counter is cleared before it is read. *)
HandlerReadAndResetEventCounter_ClearFirst(c) ==
  /\ c.op = "RC"
  /\ EventCounterReset(c.n)
  /\ Responds(Decimal(Counters'[c.n].Count, DEC_DIGITS_16_BIT))
  /\ UNCHANGED <<relays, WatchdogTimeoutPeriodUs, debounceSetting>>

HandlerReadAndResetEventCounter(c) ==
  /\ c.op = "RC"
  /\ Responds(Decimal(EventCounterRead(c.n), DEC_DIGITS_16_BIT))
  /\ EventCounterReset(c.n)
  /\ UNCHANGED <<relays, WatchdogTimeoutPeriodUs, debounceSetting>>

(* DB and WD answer with the first setting that has the time in force. *)
AnswerSetting(settings) ==
  /\ IF settings # {} THEN Responds(Decimal(Min(settings), DEC_DIGITS_1_BIT)) ELSE Fails
  /\ UNCHANGED <<relays, WatchdogTimeoutPeriodUs, Counters, debounceSetting>>

HandlerDebounceSetting(c) ==
  \/ /\ c.op = "DB"
     /\ AnswerSetting(DebounceSettings)
  \/ /\ c.op = "DBn"
     /\ EventCounterDebounceTimeSet(DEBOUNCE_TIMES_US[c.n])
     /\ Succeeds
     /\ UNCHANGED <<relays, WatchdogTimeoutPeriodUs, Counters>>

(* WDn sets the period, and does not report success. *)
HandlerWatchdogSetting(c) ==
  \/ /\ c.op = "WD"
     /\ AnswerSetting(WatchdogSettings)
  \/ /\ c.op = "WDn"
     /\ WatchdogTimeoutSet(WATCHDOG_TIMES_US[c.n])
     /\ Fails
     /\ UNCHANGED <<relays, Counters, debounceSetting>>

(* No entry, or arguments the entry's handler does not accept. *)
RejectCommand(c) ==
  /\ c = Invalid
  /\ Fails
  /\ UNCHANGED <<relays, WatchdogTimeoutPeriodUs, Counters, debounceSetting>>

(* A command that is too long never reaches the line that clears the buffer. *)
DropLongCommand(c) ==
  /\ c = TooLong
  /\ success' = FALSE
  /\ UNCHANGED <<ResponseBuf, relays, WatchdogTimeoutPeriodUs, Counters, debounceSetting>>

HandleCommand(c) ==
  \/ HandlerReadInputs(c)
  \/ /\ \/ HandlerSetRelay(c)
        \/ HandlerClearRelay(c)
        \/ HandlerWriteRelayPort(c)
        \/ HandlerRead(c)
        \/ HandlerReadAndResetEventCounter(c)
        \/ HandlerDebounceSetting(c)
        \/ HandlerWatchdogSetting(c)
        \/ RejectCommand(c)
        \/ DropLongCommand(c)
     /\ UNCHANGED inputs

(* The commands the texts are taken for. *)
CommandOf == [text \in Texts |-> Command(text)]

(* Mutant: an unknown command or one that is too long returns before the kick. *)
AduProtocolProcessCommand_KickIfHandled(text) ==
  LET c == CommandOf[text]
  IN /\ HandleCommand(c)
     /\ IF c \in {Invalid, TooLong} THEN UNCHANGED LastKickTimeUs ELSE WatchdogKick
     /\ HostSpeaks
     /\ lastCommand' = c
     /\ lastReply' = IF c = TooLong THEN <<>> ELSE ResponseBuf'

(* Every command ends in a kick, whatever the command did. *)
AduProtocolProcessCommand(text) ==
  LET c == CommandOf[text]
  IN /\ HandleCommand(c)
     /\ WatchdogKick
     /\ HostSpeaks
     /\ lastCommand' = c
     /\ lastReply' = IF c = TooLong THEN <<>> ELSE ResponseBuf'

(***************************************************************************)
(* What the caller takes from its buffer: the returned length, the lesser  *)
(* of both.  The copy itself is as long as the response, and fits whatever *)
(* buffer either caller has.                                               *)
(***************************************************************************)
AduProtocolGetResponse(len) == SubSeq(ResponseBuf, 1, Min({len, Len(ResponseBuf)}))

=============================================================================
