--------------------------- MODULE ResponseProofs ---------------------------
(***************************************************************************)
(* Proofs about the responses of the firmware, for a host that collects    *)
(* each response before it sends again (AduProtocol.h:46-53).              *)
(***************************************************************************)
EXTENDS RelaconProofs

(* A sequence of no more digits than a report holds beside its ID. *)
IsResponse(digits) ==
  \E n \in 0 .. CFG_TUD_HID_EP_BUFSIZE - 1 : digits = [i \in 1 .. n |-> digits[i]]

LEMMA LesserIsLeast ==
  ASSUME NEW m \in Nat, NEW n \in Nat, n <= m
  PROVE  Min({m, n}) = n
<1>1. {m, n} \in SUBSET Nat /\ {m, n} # {}
  OBVIOUS
<1>2. Min({m, n}) \in {m, n} /\ \A y \in {m, n} : Min({m, n}) =< y
  BY <1>1, LeastIsThere
<1> QED
  BY <1>2

(***************************************************************************)
(* The callback gets all of a response and the report holds all of it, for *)
(* none is longer than what either has room for (AduProtocol.c:769-775,    *)
(* Usb.c:131-139).                                                         *)
(***************************************************************************)
LEMMA ResponsesFit ==
  ASSUME NEW digits, IsResponse(digits)
  PROVE  /\ SubSeq(digits, 1, Min({CFG_TUD_HID_EP_BUFSIZE, Len(digits)})) = digits
         /\ SubSeq(digits, 1, Min({CFG_TUD_HID_EP_BUFSIZE - 1, Len(digits)})) = digits
<1>0. 8 - 1 = 7
  OBVIOUS
<1>1. PICK n \in 0 .. 7 : digits = [i \in 1 .. n |-> digits[i]]
  BY <1>0, Zenon DEF IsResponse, CFG_TUD_HID_EP_BUFSIZE
<1> DEFINE S == {digits[i] : i \in 1 .. n}
<1>2. digits \in [1 .. n -> S]
  BY <1>1
<1>3. digits \in Seq(S) /\ Len(digits) = n
  BY <1>2
<1> HIDE DEF S
<1>4. Min({8, n}) = n /\ Min({7, n}) = n
  BY LesserIsLeast
<1> QED
  BY <1>0, <1>3, <1>4, SubSeqFull DEF CFG_TUD_HID_EP_BUFSIZE

(* What the handlers write is a response (AduProtocol.c:183-216). *)
LEMMA DigitsAreResponses ==
  ASSUME NEW value, NEW n \in 0 .. CFG_TUD_HID_EP_BUFSIZE - 1
  PROVE  /\ IsResponse(Decimal(value, n))
         /\ IsResponse(Binary(value, n))
         /\ IsResponse(<<value>>)
         /\ IsResponse(<<>>)
<1>1. IsResponse(Decimal(value, n))
  BY DEF IsResponse, Decimal
<1>2. IsResponse(Binary(value, n))
  BY DEF IsResponse, Binary
<1>3. IsResponse(<<value>>)
  <2>1. <<value>> = [i \in 1 .. 1 |-> <<value>>[i]]
    OBVIOUS
  <2>2. 1 \in 0 .. CFG_TUD_HID_EP_BUFSIZE - 1
    BY DEF CFG_TUD_HID_EP_BUFSIZE
  <2> QED
    BY <2>1, <2>2 DEF IsResponse
<1>4. IsResponse(<<>>)
  <2>1. <<>> = [i \in 1 .. 0 |-> <<>>[i]]
    OBVIOUS
  <2>2. 0 \in 0 .. CFG_TUD_HID_EP_BUFSIZE - 1
    BY DEF CFG_TUD_HID_EP_BUFSIZE
  <2> QED
    BY <2>1, <2>2 DEF IsResponse
<1> QED
  BY <1>1, <1>2, <1>3, <1>4

(***************************************************************************)
(* A command that succeeds leaves a response of its own, and all of it     *)
(* fits (AduProtocol.c:741-758).                                           *)
(***************************************************************************)
LEMMA SuccessLeavesResponse ==
  ASSUME INPUT_PORT_NUM_PINS < CFG_TUD_HID_EP_BUFSIZE,
         NEW text \in Texts, AduProtocolProcessCommand(text), success'
  PROVE  IsResponse(ResponseBuf') /\ lastReply' = ResponseBuf'
<1> DEFINE c == CommandOf[text]
<1>1. HandleCommand(c) /\ lastReply' = IF c = TooLong THEN <<>> ELSE ResponseBuf'
  BY DEF AduProtocolProcessCommand
<1> HIDE DEF c
<1>2. /\ DEC_DIGITS_1_BIT \in 0 .. CFG_TUD_HID_EP_BUFSIZE - 1
      /\ DEC_DIGITS_4_BIT \in 0 .. CFG_TUD_HID_EP_BUFSIZE - 1
      /\ DEC_DIGITS_8_BIT \in 0 .. CFG_TUD_HID_EP_BUFSIZE - 1
      /\ DEC_DIGITS_16_BIT \in 0 .. CFG_TUD_HID_EP_BUFSIZE - 1
      /\ INPUT_PORT_NUM_PINS \in 0 .. CFG_TUD_HID_EP_BUFSIZE - 1
  BY AduCommandAssumption
  DEF CFG_TUD_HID_EP_BUFSIZE, DEC_DIGITS_1_BIT, DEC_DIGITS_4_BIT, DEC_DIGITS_8_BIT,
      DEC_DIGITS_16_BIT
<1>3. CASE HandlerReadInputs(c)
  <2>1. c # TooLong
    BY <1>3 DEF HandlerReadInputs, TooLong
  <2>2. ResponseBuf' = InputReading(c) /\ c.op \in {"RP", "RPn", "PA", "PI"}
    BY <1>3 DEF HandlerReadInputs, Responds
  <2>3. \/ InputReading(c) = Binary(GetInputPortValue(c.port), INPUT_PORT_NUM_PINS)
        \/ \E bit : InputReading(c) = <<bit>>
        \/ InputReading(c) = Decimal(PortValue(GetInputPortValue(c.port)), DEC_DIGITS_4_BIT)
        \/ InputReading(c) = Decimal(PortValue(DigitalInputsRead), DEC_DIGITS_8_BIT)
    BY <2>2 DEF InputReading
  <2>4. IsResponse(InputReading(c))
    BY <1>2, <2>3, DigitsAreResponses
  <2> QED
    BY <1>1, <2>1, <2>2, <2>4
<1>4. CASE HandlerRead(c)
  <2>1. c # TooLong
    BY <1>4 DEF HandlerRead, HandlerReadEventCounter, TooLong
  <2>2. \/ \E bit : ResponseBuf' = <<bit>>
        \/ ResponseBuf' = Decimal(PortValue(BoardReadRelays), DEC_DIGITS_8_BIT)
        \/ ResponseBuf' = Decimal(EventCounterRead(c.n), DEC_DIGITS_16_BIT)
    BY <1>4 DEF HandlerRead, HandlerReadEventCounter, RelayReading, Responds
  <2> QED
    BY <1>1, <1>2, <2>1, <2>2, DigitsAreResponses
<1>5. CASE HandlerReadAndResetEventCounter(c)
  <2>1. c # TooLong /\ ResponseBuf' = Decimal(EventCounterRead(c.n), DEC_DIGITS_16_BIT)
    BY <1>5 DEF HandlerReadAndResetEventCounter, Responds, TooLong
  <2> QED
    BY <1>1, <1>2, <2>1, DigitsAreResponses
<1>6. CASE HandlerSetRelay(c) \/ HandlerClearRelay(c) \/ HandlerWriteRelayPort(c)
  <2>1. c # TooLong /\ ResponseBuf' = <<>>
    BY <1>6 DEF HandlerSetRelay, HandlerClearRelay, HandlerWriteRelayPort, Succeeds, Responds,
                TooLong
  <2> QED
    BY <1>1, <1>2, <2>1, DigitsAreResponses
<1>7. CASE HandlerDebounceSetting(c) \/ HandlerWatchdogSetting(c)
  <2>1. /\ c # TooLong
        /\ \/ ResponseBuf' = <<>>
           \/ \E s : ResponseBuf' = Decimal(s, DEC_DIGITS_1_BIT)
    BY <1>7 DEF HandlerDebounceSetting, HandlerWatchdogSetting, AnswerSetting, Succeeds,
                Responds, Fails, TooLong
  <2> QED
    BY <1>1, <1>2, <2>1, DigitsAreResponses
<1>8. ~RejectCommand(c) /\ ~DropLongCommand(c)
  BY DEF RejectCommand, DropLongCommand, Fails
<1> QED
  BY <1>1, <1>3, <1>4, <1>5, <1>6, <1>7, <1>8 DEF HandleCommand

(* A response that a command leaves goes into an idle endpoint as it is. *)
LEMMA ResponsesAreSent ==
  ASSUME INPUT_PORT_NUM_PINS < CFG_TUD_HID_EP_BUFSIZE, inReport = NoReport,
         NEW report \in Texts, report # OtherReport, tud_hid_set_report_cb(report)
  PROVE  IF success' /\ ResponseBuf' # <<>>
           THEN inReport' = ResponseBuf' /\ inCommand' = lastCommand'
           ELSE UNCHANGED <<inReport, inCommand>>
<1> DEFINE rsp == AduProtocolGetResponse(CFG_TUD_HID_EP_BUFSIZE)
<1>1. AduProtocolProcessCommand(report)
  BY DEF tud_hid_set_report_cb
<1>2. IF success' /\ rsp' # <<>> THEN tud_hid_report(rsp')
                                 ELSE UNCHANGED <<inReport, inCommand>>
  BY DEF tud_hid_set_report_cb
<1> HIDE DEF rsp
<1>3. CASE success'
  <2>1. IsResponse(ResponseBuf')
    BY <1>1, <1>3, SuccessLeavesResponse
  <2>2. rsp' = ResponseBuf'
    BY <2>1, ResponsesFit DEF rsp, AduProtocolGetResponse
  <2> QED
    BY <1>2, <1>3, <2>1, <2>2, ResponsesFit DEF tud_hid_report
<1>4. CASE ~success'
  BY <1>2, <1>4
<1> QED
  BY <1>3, <1>4

-----------------------------------------------------------------------------
(***************************************************************************)
(* The inductive invariant: such a host has one request or one response    *)
(* under way at a time, and the response is that of the last command.      *)
(***************************************************************************)
PairingInv ==
  /\ outReport = NoReport \/ control = NoReport
  /\ inReport # NoReport =>
       /\ outReport = NoReport /\ control = NoReport
       /\ inCommand = lastCommand /\ inReport = lastReply

LEMMA CallbackKeepsPairing ==
  ASSUME INPUT_PORT_NUM_PINS < CFG_TUD_HID_EP_BUFSIZE, inReport = NoReport,
         NEW report \in Texts \union {OtherReport}, tud_hid_set_report_cb(report)
  PROVE  inReport' # NoReport => inCommand' = lastCommand' /\ inReport' = lastReply'
<1>1. CASE report = OtherReport
  BY <1>1 DEF tud_hid_set_report_cb
<1>2. CASE report # OtherReport
  <2>1. AduProtocolProcessCommand(report) /\ report \in Texts
    BY <1>2 DEF tud_hid_set_report_cb
  <2>2. success' => lastReply' = ResponseBuf'
    BY <2>1, SuccessLeavesResponse
  <2> QED
    BY <1>2, <2>1, <2>2, ResponsesAreSent
<1> QED
  BY <1>1, <1>2

THEOREM PairingInvariant ==
  ASSUME CollectsFirst, INPUT_PORT_NUM_PINS < CFG_TUD_HID_EP_BUFSIZE
  PROVE  Spec => []PairingInv
<1>1. Init => PairingInv
  BY DEF Init, UsbInit, PairingInv
<1>2. RelaconInv /\ PairingInv /\ [Next]_vars => PairingInv'
  <2> SUFFICES ASSUME RelaconInv, PairingInv, [Next]_vars
               PROVE  PairingInv'
    OBVIOUS
  <2>1. CASE UsbTask
    <3>1. CASE HandleOutReport
      <4>1. /\ inReport = NoReport /\ control = NoReport
            /\ outReport \in Texts \union {OtherReport}
        BY <3>1 DEF HandleOutReport, PairingInv, RelaconInv
      <4>2. tud_hid_set_report_cb(outReport) /\ outReport' = NoReport /\ control' = control
        BY <3>1 DEF HandleOutReport
      <4> QED
        BY <4>1, <4>2, CallbackKeepsPairing DEF PairingInv
    <3>2. CASE HandleSetReport
      <4>1. /\ inReport = NoReport /\ outReport = NoReport
            /\ control \in Texts \union {OtherReport}
        BY <3>2 DEF HandleSetReport, PairingInv, RelaconInv
      <4>2. tud_hid_set_report_cb(control) /\ control' = NoReport /\ outReport' = outReport
        BY <3>2 DEF HandleSetReport
      <4> QED
        BY <4>1, <4>2, CallbackKeepsPairing DEF PairingInv
    <3>3. CASE HandleGetReport
      BY <3>3 DEF HandleGetReport, protocolVars, PairingInv
    <3> QED
      BY <2>1, <3>1, <3>2, <3>3 DEF UsbTask
  <2>2. CASE Host
    <3>1. UNCHANGED <<lastCommand, lastReply>>
      BY <2>2 DEF Host, HostWritesReport, HostSendsControl, HostReadsReport, BusReset,
                  firmware, protocolVars
    <3> QED
      BY <2>2, <3>1 DEF Host, HostWritesReport, HostSendsControl, HostReadsReport, BusReset,
                        HostMaySend, PairingInv
  <2>3. CASE \/ UsbTaskReturns \/ CountInputs \/ CheckWatchdog \/ LinesChange \/ Tick
             \/ UNCHANGED vars
    <3>1. UNCHANGED <<outReport, control, inReport, inCommand, lastCommand, lastReply>>
      BY <2>3 DEF UsbTaskReturns, CountInputs, CheckWatchdog, LinesChange, Tick, vars, firmware,
                  usbVars, protocolVars
    <3> QED
      BY <3>1 DEF PairingInv
  <2> QED
    BY <2>1, <2>2, <2>3 DEF Next
<1> QED
  BY <1>1, <1>2, RelaconInvariant, PTL DEF Spec

(***************************************************************************)
(* A host that collects first finds the response to its last command       *)
(* (AduProtocol.c:734-741, Usb.c:124-139).                                 *)
(***************************************************************************)
THEOREM ResponsesAreCurrent ==
  ASSUME CollectsFirst, INPUT_PORT_NUM_PINS < CFG_TUD_HID_EP_BUFSIZE
  PROVE  Spec => []ResponsesMatchCommands
<1>1. PairingInv => ResponsesMatchCommands
  BY DEF PairingInv, ResponsesMatchCommands
<1> QED
  BY <1>1, PairingInvariant, PTL

-----------------------------------------------------------------------------
(* Sums of three counts, modulo the wrap. *)
LEMMA SumsWrap ==
  ASSUME NEW M \in Nat \ {0, 1}, NEW x \in 0 .. 3 * M - 1
  PROVE  x % M = IF x < M THEN x ELSE IF x < M + M THEN x - M ELSE x - (M + M)
BY Z3

(* An event is added to the ledger and to its counter alike. *)
LEMMA EventAddsUp ==
  ASSUME NEW M \in Nat \ {0, 1}, NEW r \in 0 .. M - 1, NEW p \in 0 .. M - 1,
         NEW c \in 0 .. M - 1
  PROVE  (r + p + ((c + 1) % M)) % M = (((r + p + c) % M) + 1) % M
<1>1. \A x \in 0 .. 3 * M - 1 :
        x % M = IF x < M THEN x ELSE IF x < M + M THEN x - M ELSE x - (M + M)
  BY SumsWrap
<1>2. (c + 1) % M = IF c + 1 < M THEN c + 1 ELSE 0
  BY <1>1
<1>3. (r + p + c) % M = IF r + p + c < M THEN r + p + c
                        ELSE IF r + p + c < M + M THEN r + p + c - M
                        ELSE r + p + c - (M + M)
  BY <1>1
<1> DEFINE x == (r + p + c) % M
           y == (c + 1) % M
<1>4. x \in 0 .. M - 1 /\ y \in 0 .. M - 1
  BY <1>2, <1>3
<1>5. (x + 1) % M = IF x + 1 < M THEN x + 1 ELSE 0
  BY <1>1, <1>4
<1> DEFINE z == r + p + y
<1>6. z \in 0 .. 3 * M - 1
  BY <1>4
<1> HIDE DEF z
<1>7. z % M = IF z < M THEN z ELSE IF z < M + M THEN z - M ELSE z - (M + M)
  BY <1>1, <1>6
<1>8. (r + p + y) % M = IF r + p + y < M THEN r + p + y
                        ELSE IF r + p + y < M + M THEN r + p + y - M
                        ELSE r + p + y - (M + M)
  BY <1>7 DEF z
<1> QED
  BY <1>2, <1>3, <1>5, <1>8

(* A response that is collected moves from the endpoint to the host. *)
LEMMA CollectedAddsUp ==
  ASSUME NEW M \in Nat \ {0, 1}, NEW r \in 0 .. M - 1, NEW p \in 0 .. M - 1,
         NEW c \in 0 .. M - 1
  PROVE  /\ (r + p) % M \in 0 .. M - 1
         /\ (((r + p) % M) + 0 + c) % M = (r + p + c) % M
<1>1. \A x \in 0 .. 3 * M - 1 :
        x % M = IF x < M THEN x ELSE IF x < M + M THEN x - M ELSE x - (M + M)
  BY SumsWrap
<1> DEFINE x == (r + p) % M
<1>2. x = IF r + p < M THEN r + p ELSE r + p - M
  BY <1>1
<1>3. (r + p + c) % M = IF r + p + c < M THEN r + p + c
                        ELSE IF r + p + c < M + M THEN r + p + c - M
                        ELSE r + p + c - (M + M)
  BY <1>1
<1>4. x \in 0 .. M - 1
  BY <1>2
<1>5. (x + 0 + c) % M = IF x + c < M THEN x + c ELSE x + c - M
  <2>1. x + 0 + c = x + c /\ x + c \in 0 .. 3 * M - 1 /\ x + c < M + M
    BY <1>4
  <2> QED
    BY <1>1, <2>1
<1> QED
  BY <1>2, <1>3, <1>4, <1>5

(* Five numbers are a sequence of numbers. *)
LEMMA NumbersAreSequences ==
  ASSUME NEW n \in Nat \ {0}, NEW f \in [1 .. n -> Nat]
  PROVE  f \in Seq(Nat) /\ f # <<>>
<1>1. f \in Seq(Nat) /\ Len(f) = n
  OBVIOUS
<1> QED
  BY <1>1

LEMMA FiveNumbers ==
  ASSUME NEW f \in [1 .. 5 -> Nat]
  PROVE  f \in Seq(Nat) /\ f # <<>>
<1>1. \A n \in Nat \ {0} : \A g \in [1 .. n -> Nat] : g \in Seq(Nat) /\ g # <<>>
  BY NumbersAreSequences
<1>2. 5 \in Nat \ {0}
  OBVIOUS
<1>3. \A g \in [1 .. 5 -> Nat] : g \in Seq(Nat) /\ g # <<>>
  BY <1>1, <1>2, Zenon
<1> QED
  BY <1>3, Zenon

(***************************************************************************)
(* The five digits of a count stand for it (AduProtocol.c:206-216).        *)
(***************************************************************************)
LEMMA DigitsStandForCount ==
  ASSUME NEW v \in Nat, v < 100000
  PROVE  /\ Decimal(v, 5) \in Seq(Nat) /\ Decimal(v, 5) # <<>>
         /\ Number(Decimal(v, 5)) = v
<1>0. \A w \in Nat : w \div 10 \in Nat /\ w = 10 * (w \div 10) + (w % 10) /\ w % 10 \in Nat
  BY Z3
<1>1. /\ v \div 1 = v /\ v \div 100 = (v \div 10) \div 10
      /\ v \div 1000 = (v \div 100) \div 10 /\ v \div 10000 = (v \div 1000) \div 10
      /\ (v \div 10000) % 10 = v \div 10000
  <2>1. v \div 1 = v
    BY Z3
  <2>2. v \div 100 = (v \div 10) \div 10
    BY Z3
  <2>3. v \div 1000 = (v \div 100) \div 10
    BY Z3
  <2>4. v \div 10000 = (v \div 1000) \div 10
    BY Z3
  <2>5. (v \div 10000) % 10 = v \div 10000
    BY Z3
  <2> QED
    BY <2>1, <2>2, <2>3, <2>4, <2>5
<1> DEFINE a == v \div 10
           b == v \div 100
           c == v \div 1000
           d == v \div 10000
<1>2. v = 10 * a + (v % 10) /\ a \in Nat /\ v % 10 \in Nat
  BY <1>0
<1>3. a = 10 * b + (a % 10) /\ b \in Nat /\ a % 10 \in Nat
  BY <1>0, <1>1, <1>2
<1>4. b = 10 * c + (b % 10) /\ c \in Nat /\ b % 10 \in Nat
  BY <1>0, <1>1, <1>3
<1>5. c = 10 * d + (c % 10) /\ d \in Nat /\ c % 10 \in Nat
  BY <1>0, <1>1, <1>4
<1>6. d % 10 = d
  BY <1>1
<1> HIDE DEF a, b, c, d
<1>7. 10000 * (d % 10) + 1000 * (c % 10) + 100 * (b % 10) + 10 * (a % 10) + (v % 10) = v
  BY <1>2, <1>3, <1>4, <1>5, <1>6
<1> DEFINE digits == Decimal(v, 5)
<1>8. /\ 10 ^ (5 - 1) = 10000 /\ 10 ^ (5 - 2) = 1000 /\ 10 ^ (5 - 3) = 100
      /\ 10 ^ (5 - 4) = 10 /\ 10 ^ (5 - 5) = 1
  BY Z3
<1>9. digits = [i \in 1 .. 5 |-> (v \div 10 ^ (5 - i)) % 10]
  BY DEF Decimal
<1> HIDE DEF digits
<1>10. /\ digits[1] = d % 10 /\ digits[2] = c % 10 /\ digits[3] = b % 10
       /\ digits[4] = a % 10 /\ digits[5] = v % 10
  <2>1. digits[1] = d % 10
    BY <1>1, <1>9, Z3 DEF d
  <2>2. digits[2] = c % 10
    BY <1>1, <1>9, Z3 DEF c
  <2>3. digits[3] = b % 10
    BY <1>1, <1>9, Z3 DEF b
  <2>4. digits[4] = a % 10
    BY <1>1, <1>9, Z3 DEF a
  <2>5. digits[5] = v % 10
    BY <1>1, <1>9, Z3
  <2> QED
    BY <2>1, <2>2, <2>3, <2>4, <2>5
<1>11. digits \in [1 .. 5 -> Nat]
  <2>1. \A i \in 1 .. 5 : digits[i] \in Nat
    BY <1>2, <1>3, <1>4, <1>5, <1>6, <1>10
  <2> QED
    BY <1>9, <2>1
<1>12. digits \in Seq(Nat) /\ digits # <<>>
  BY <1>11, FiveNumbers
<1>13. Number(digits) = v
  BY <1>7, <1>10 DEF Number
<1> QED
  BY <1>12, <1>13 DEF digits

-----------------------------------------------------------------------------
(***************************************************************************)
(* A read-and-reset moves a count from its counter to the IN endpoint, and *)
(* no other request moves any (AduProtocol.c:540-556, Usb.c:124-139).      *)
(***************************************************************************)
LEMMA CallbackMovesCount ==
  ASSUME INPUT_PORT_NUM_PINS < CFG_TUD_HID_EP_BUFSIZE, CountMod <= 100000,
         EventCounterTypeOK, inReport = NoReport,
         NEW report \in Texts \union {OtherReport}, tud_hid_set_report_cb(report),
         NEW i \in Input
  PROVE  /\ Reported(i)' \in 0 .. CountMod - 1
         /\ Counters'[i].Count \in 0 .. CountMod - 1
         /\ Reported(i)' + Counters'[i].Count = Counters[i].Count
<1>0. /\ CountMod \in Nat \ {0, 1}
      /\ \A k \in Input : Counters[k].Count \in 0 .. CountMod - 1
      /\ Counters \in [Input -> EventCounterRecord]
  BY EventCounterAssumption DEF EventCounterTypeOK, EventCounterRecord
<1>1. CASE Reported(i)' = 0 /\ Counters' = Counters
  BY <1>0, <1>1
<1>2. CASE report = OtherReport
  BY <1>1, <1>2 DEF tud_hid_set_report_cb, Reported
<1>3. CASE report # OtherReport
  <2> DEFINE c == CommandOf[report]
  <2>1. AduProtocolProcessCommand(report) /\ report \in Texts
    BY <1>3 DEF tud_hid_set_report_cb
  <2>2. IF success' /\ ResponseBuf' # <<>>
          THEN inReport' = ResponseBuf' /\ inCommand' = lastCommand'
          ELSE UNCHANGED <<inReport, inCommand>>
    BY <1>3, <2>1, ResponsesAreSent
  <2>3. HandleCommand(c) /\ lastCommand' = c
    BY <2>1 DEF AduProtocolProcessCommand
  <2>4. CommandInRange(c)
    BY <2>1, CommandsAreInRange DEF CommandOf
  <2> HIDE DEF c
  <2>5. CASE HandlerReadAndResetEventCounter(c)
    <3>1. PICK k \in Input : c = [op |-> "RC", n |-> k]
      BY <2>4, <2>5 DEF HandlerReadAndResetEventCounter, CommandInRange
    <3> DEFINE v == Counters[k].Count
    <3>2. v \in 0 .. CountMod - 1 /\ v \in Nat /\ v < 100000
      <4>1. v \in 0 .. CountMod - 1
        BY <1>0
      <4>2. CountMod \in Nat
        BY <1>0
      <4> HIDE DEF v
      <4> QED
        BY <4>1, <4>2
    <3>3. ResponseBuf' = Decimal(v, 5) /\ success' /\ EventCounterReset(k)
      BY <2>5, <3>1 DEF HandlerReadAndResetEventCounter, Responds, EventCounterRead,
                        DEC_DIGITS_16_BIT
    <3> HIDE DEF v
    <3>4. /\ Decimal(v, 5) \in Seq(Nat) /\ Decimal(v, 5) # <<>>
          /\ Number(Decimal(v, 5)) = v
      BY <3>2, DigitsStandForCount
    <3>5. inReport' = Decimal(v, 5) /\ inCommand' = c
      BY <2>2, <2>3, <3>3, <3>4
    <3>6. inReport' # NoReport
      BY <3>4, <3>5, UsbAssumption
    <3>7. Reported(i)' = IF i = k THEN v ELSE 0
      <4>1. inCommand' = [op |-> "RC", n |-> i] <=> i = k
        BY <3>1, <3>5
      <4> QED
        BY <3>4, <3>5, <3>6, <4>1 DEF Reported
    <3>8. Counters'[i] = IF i = k THEN [Counters[i] EXCEPT !.Count = 0] ELSE Counters[i]
      BY <3>3 DEF EventCounterReset
    <3>9. CASE i = k
      <4>1. Counters'[i].Count = 0
        BY <1>0, <3>8, <3>9 DEF EventCounterRecord
      <4> QED
        <5>1. Counters[i].Count = v
          BY <3>9 DEF v
        <5> QED
          BY <1>0, <3>2, <3>7, <3>9, <4>1, <5>1
    <3>10. CASE i # k
      BY <1>0, <3>7, <3>8, <3>10
    <3> QED
      BY <3>9, <3>10
  <2>6. CASE ~HandlerReadAndResetEventCounter(c)
    <3>1. Counters' = Counters /\ c.op # "RC"
      BY <2>3, <2>6
      DEF HandleCommand, HandlerReadInputs, HandlerSetRelay, HandlerClearRelay,
          HandlerWriteRelayPort, HandlerRead, HandlerReadEventCounter,
          HandlerDebounceSetting, HandlerWatchdogSetting, AnswerSetting, RejectCommand,
          DropLongCommand, Invalid, TooLong
    <3>2. inReport' = NoReport \/ inCommand' = c
      BY <2>2, <2>3
    <3> QED
      BY <1>1, <3>1, <3>2 DEF Reported
  <2> QED
    BY <2>5, <2>6
<1> QED
  BY <1>2, <1>3

(***************************************************************************)
(* The inductive invariant: a number is never reported beyond the range of *)
(* a counter, and the ledger balances.                                     *)
(***************************************************************************)
LedgerInv ==
  /\ edges \in [Input -> 0 .. CountMod - 1]
  /\ received \in [Input -> 0 .. CountMod - 1]
  /\ \A i \in Input : Reported(i) \in 0 .. CountMod - 1
  /\ EventsAccountedFor

(* A step that leaves all but the host's history alone. *)
LEMMA LedgerUntouched ==
  ASSUME LedgerInv, UNCHANGED <<edges, received, inReport, inCommand, Counters, busReset>>
  PROVE  LedgerInv'
BY DEF LedgerInv, EventsAccountedFor, Reported

LEMMA CallbackKeepsLedger ==
  ASSUME INPUT_PORT_NUM_PINS < CFG_TUD_HID_EP_BUFSIZE, CountMod <= 100000,
         EventCounterTypeOK, LedgerInv, inReport = NoReport,
         NEW report \in Texts \union {OtherReport}, tud_hid_set_report_cb(report),
         UNCHANGED <<edges, received, busReset>>
  PROVE  LedgerInv'
<1>1. ASSUME NEW i \in Input
      PROVE  /\ Reported(i)' \in 0 .. CountMod - 1
             /\ received[i] + Reported(i)' + Counters'[i].Count
                  = received[i] + Reported(i) + Counters[i].Count
  <2>1. /\ Reported(i)' \in 0 .. CountMod - 1
        /\ Counters'[i].Count \in 0 .. CountMod - 1
        /\ Reported(i)' + Counters'[i].Count = Counters[i].Count
    BY CallbackMovesCount
  <2>2. Reported(i) = 0
    BY DEF Reported
  <2>3. CountMod \in Nat /\ received[i] \in 0 .. CountMod - 1
    BY EventCounterAssumption DEF LedgerInv
  <2>4. Counters[i].Count \in 0 .. CountMod - 1
    BY DEF EventCounterTypeOK, EventCounterRecord
  <2> QED
    BY <2>1, <2>2, <2>3, <2>4
<1> QED
  BY <1>1 DEF LedgerInv, EventsAccountedFor

(* A pass adds each event it counts to the ledger and to its counter alike. *)
LEMMA PassKeepsLedger ==
  ASSUME EventCounterTypeOK, LedgerInv, EventCounterTask,
         edges' = [i \in Input |-> IF Counters'[i].Count # Counters[i].Count
                                     THEN (edges[i] + 1) % CountMod ELSE edges[i]],
         UNCHANGED <<received, inReport, inCommand, busReset>>
  PROVE  LedgerInv'
<1>1. CountMod \in Nat \ {0, 1}
  BY EventCounterAssumption
<1>2. \A i \in Input : Reported(i)' = Reported(i)
  BY DEF Reported
<1>3. ASSUME NEW i \in Input
      PROVE  /\ edges'[i] \in 0 .. CountMod - 1
             /\ (received[i] + Reported(i) + Counters[i].Count) % CountMod = edges[i]
                  => (received[i] + Reported(i) + Counters'[i].Count) % CountMod = edges'[i]
  <2> DEFINE c == Counters[i].Count
             d == Counters'[i].Count
             r == received[i]
             p == Reported(i)
             e == edges[i]
  <2>1. c \in 0 .. CountMod - 1 /\ r \in 0 .. CountMod - 1 /\ p \in 0 .. CountMod - 1
    BY DEF EventCounterTypeOK, EventCounterRecord, LedgerInv
  <2>2. d = c \/ d = (c + 1) % CountMod
    <3>1. Counters'[i] = Sampled(Counters[i], i \in BoardReadDigitalInputs)
      BY DEF EventCounterTask
    <3>2. Counters[i] \in EventCounterRecord
      BY DEF EventCounterTypeOK
    <3> QED
      BY <3>1, <3>2 DEF Sampled, CountEvent, Settle, Release, EventCounterRecord
  <2>3. edges'[i] = IF d # c THEN (e + 1) % CountMod ELSE e
    OBVIOUS
  <2>4. e \in 0 .. CountMod - 1
    BY DEF LedgerInv
  <2> HIDE DEF c, d, r, p, e
  <2>5. (e + 1) % CountMod \in 0 .. CountMod - 1
    BY <1>1, <2>4
  <2>6. CASE d = c
    BY <2>3, <2>4, <2>6 DEF c, d, r, p, e
  <2>7. CASE d # c
    <3>1. (r + p + ((c + 1) % CountMod)) % CountMod
            = (((r + p + c) % CountMod) + 1) % CountMod
      BY <1>1, <2>1, EventAddsUp
    <3>2. (r + p + c) % CountMod = e => (r + p + d) % CountMod = (e + 1) % CountMod
      BY <2>2, <2>7, <3>1
    <3> QED
      BY <2>3, <2>5, <2>7, <3>2 DEF c, d, r, p, e
  <2> QED
    BY <2>6, <2>7
<1>4. edges' \in [Input -> 0 .. CountMod - 1]
  BY <1>3
<1> QED
  BY <1>2, <1>3, <1>4 DEF LedgerInv, EventsAccountedFor

(* A host that collects a report adds what it says to what it knows. *)
LEMMA CollectionKeepsLedger ==
  ASSUME EventCounterTypeOK, LedgerInv, HostReadsReport
  PROVE  LedgerInv'
<1>1. CountMod \in Nat \ {0, 1}
  BY EventCounterAssumption
<1>2. \A i \in Input : Reported(i)' = 0
  BY DEF HostReadsReport, Reported
<1>3. UNCHANGED <<edges, Counters, busReset>>
  BY DEF HostReadsReport, firmware, counterState
<1>4. ASSUME NEW i \in Input
      PROVE  /\ received'[i] \in 0 .. CountMod - 1
             /\ (received'[i] + 0 + Counters[i].Count) % CountMod
                  = (received[i] + Reported(i) + Counters[i].Count) % CountMod
  <2> DEFINE c == Counters[i].Count
             r == received[i]
             p == Reported(i)
  <2>1. c \in 0 .. CountMod - 1 /\ r \in 0 .. CountMod - 1 /\ p \in 0 .. CountMod - 1
    BY DEF EventCounterTypeOK, EventCounterRecord, LedgerInv
  <2>2. received'[i] = (r + p) % CountMod
    BY DEF HostReadsReport
  <2> HIDE DEF c, r, p
  <2>3. /\ (r + p) % CountMod \in 0 .. CountMod - 1
        /\ (((r + p) % CountMod) + 0 + c) % CountMod = (r + p + c) % CountMod
    BY <1>1, <2>1, CollectedAddsUp
  <2> QED
    BY <2>2, <2>3 DEF c, r, p
<1>5. received' \in [Input -> 0 .. CountMod - 1]
  BY <1>4 DEF HostReadsReport
<1> QED
  BY <1>1, <1>2, <1>3, <1>4, <1>5 DEF LedgerInv, EventsAccountedFor

(***************************************************************************)
(* A host that collects first is told of every event once, as long as the  *)
(* counters fit in five digits (AduProtocol.c:540-556, Usb.c:124-139).     *)
(***************************************************************************)
THEOREM EventsAreAccountedFor ==
  ASSUME CollectsFirst, INPUT_PORT_NUM_PINS < CFG_TUD_HID_EP_BUFSIZE, CountMod <= 100000
  PROVE  Spec => []EventsAccountedFor
<1>1. Init => LedgerInv
  <2> SUFFICES ASSUME Init PROVE LedgerInv
    OBVIOUS
  <2>1. CountMod \in Nat \ {0, 1}
    BY EventCounterAssumption
  <2>2. \A i \in Input : received[i] = 0 /\ edges[i] = 0 /\ Counters[i].Count = 0
    BY DEF Init, UsbInit, EventCounterInit
  <2>3. \A i \in Input : Reported(i) = 0
    BY DEF Init, UsbInit, Reported
  <2>4. edges \in [Input -> 0 .. CountMod - 1] /\ received \in [Input -> 0 .. CountMod - 1]
    BY <2>1 DEF Init, UsbInit
  <2>5. (0 + 0 + 0) % CountMod = 0 /\ 0 \in 0 .. CountMod - 1
    BY <2>1
  <2> QED
    BY <2>2, <2>3, <2>4, <2>5 DEF LedgerInv, EventsAccountedFor
<1>2. RelaconInv /\ PairingInv /\ EventCounterTypeOK /\ LedgerInv /\ [Next]_vars
        => LedgerInv'
  <2> SUFFICES ASSUME RelaconInv, PairingInv, EventCounterTypeOK, LedgerInv, [Next]_vars
               PROVE  LedgerInv'
    OBVIOUS
  <2>1. CASE UsbTask
    <3>1. UNCHANGED <<edges, received, busReset>>
      BY <2>1 DEF UsbTask, HandleOutReport, HandleSetReport, HandleGetReport, untouched
    <3>2. CASE HandleOutReport
      <4>1. /\ inReport = NoReport /\ outReport \in Texts \union {OtherReport}
            /\ tud_hid_set_report_cb(outReport)
        BY <3>2 DEF HandleOutReport, PairingInv, RelaconInv
      <4> QED
        BY <3>1, <4>1, CallbackKeepsLedger
    <3>3. CASE HandleSetReport
      <4>1. /\ inReport = NoReport /\ control \in Texts \union {OtherReport}
            /\ tud_hid_set_report_cb(control)
        BY <3>3 DEF HandleSetReport, PairingInv, RelaconInv
      <4> QED
        BY <3>1, <4>1, CallbackKeepsLedger
    <3>4. CASE HandleGetReport
      BY <3>1, <3>4, LedgerUntouched DEF HandleGetReport
    <3> QED
      BY <2>1, <3>2, <3>3, <3>4 DEF UsbTask
  <2>2. CASE CountInputs
    <3>1. CASE EventCounterTaskStart \/ EventCounterTaskReadBank1
      <4>1. UNCHANGED <<edges, Counters>>
        BY <2>2, <3>1 DEF CountInputs, EventCounterTaskStart, EventCounterTaskReadBank1,
                          EventCounterTask, ReadBank1, Sampling, NoSample
      <4> QED
        BY <2>2, <4>1, LedgerUntouched DEF CountInputs
    <3>2. CASE ~(EventCounterTaskStart \/ EventCounterTaskReadBank1)
      BY <2>2, <3>2, PassKeepsLedger DEF CountInputs
    <3> QED
      BY <3>1, <3>2
  <2>3. CASE HostReadsReport
    BY <2>3, CollectionKeepsLedger
  <2>4. CASE BusReset
    <3>1. /\ UNCHANGED <<edges, received>> /\ busReset'
          /\ \A i \in Input : Reported(i)' = 0
      BY <2>4 DEF BusReset, Reported
    <3> QED
      BY <3>1, EventCounterAssumption DEF LedgerInv, EventsAccountedFor
  <2>5. CASE \/ UsbTaskReturns \/ CheckWatchdog \/ LinesChange \/ Tick \/ HostWritesReport
             \/ HostSendsControl \/ UNCHANGED vars
    <3>1. UNCHANGED <<edges, received, inReport, inCommand, Counters, busReset>>
      BY <2>5 DEF UsbTaskReturns, CheckWatchdog, LinesChange, Tick, HostWritesReport,
                  HostSendsControl, vars, firmware, usbVars, counterState
    <3> QED
      BY <3>1, LedgerUntouched
  <2> QED
    BY <2>1, <2>2, <2>3, <2>4, <2>5 DEF Next, Host
<1>3. LedgerInv => EventsAccountedFor
  BY DEF LedgerInv
<1>4. Spec => []EventCounterTypeOK
  BY FirmwareImplementsCounters, EventCounterTypeCorrect, PTL DEF ImplementsCounters
<1> QED
  BY <1>1, <1>2, <1>3, <1>4, RelaconInvariant, PairingInvariant, PTL DEF Spec

=============================================================================
