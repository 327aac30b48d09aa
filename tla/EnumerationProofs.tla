-------------------------- MODULE EnumerationProofs -------------------------
(***************************************************************************)
(* Proofs about Enumeration for every table of strings and every size of   *)
(* the scratch buffer whose descriptors' length fits a byte.               *)
(***************************************************************************)
EXTENDS Enumeration, SequenceTheorems, FiniteSetTheorems, WellFoundedInduction, TLAPS

-----------------------------------------------------------------------------
(* The word of a string descriptor that goes out at each position. *)
Word(index, word) ==
  IF word = 0 THEN 768 + 2 * (NumChars(index) + 1) ELSE StringOf(index)[word]

LEMMA NumCharsRange ==
  ASSUME NEW index \in 0 .. Len(STRING_DESCRIPTORS) - 1
  PROVE  /\ NumChars(index) \in 0 .. ScratchWords - 1
         /\ NumChars(index) \in 0 .. 126
<1>1. index + 1 \in 1 .. Len(STRING_DESCRIPTORS)
  BY UsbDescriptorsAssumption
<1>2. StringOf(index) \in Seq(Nat)
  BY <1>1, UsbDescriptorsAssumption DEF StringOf
<1>3. Len(StringOf(index)) \in Nat
  BY <1>2
<1>4. ScratchWords \in Nat /\ 2 <= ScratchWords /\ ScratchWords <= 127
  <2>1. ScratchWords \in 2 .. 127
    BY UsbDescriptorsAssumption
  <2> QED
    BY <2>1
<1> DEFINE length == Len(StringOf(index))
<1>5. NumChars(index) = IF length < ScratchWords - 1 THEN length ELSE ScratchWords - 1
  BY DEF NumChars, Lesser
<1>6. length \in Nat
  BY <1>3
<1> HIDE DEF length
<1> QED
  BY <1>4, <1>5, <1>6

(* The length byte of the first word is the one the string has. *)
LEMMA HeaderLength ==
  ASSUME NEW n \in 0 .. 126
  PROVE  /\ (2 + 2 * n) % 256 = 2 + 2 * n
         /\ (768 + (2 + 2 * n)) % 256 = 2 + 2 * n
         /\ (2 + 2 * n) \div 2 = n + 1
BY SMTT(30)

(* The words sent so far lie in the string, and in the buffer. *)
LEMMA FirstWords ==
  ASSUME NEW s \in Nat, NEW n \in Nat, NEW size \in Nat, s <= n + 1, n <= size - 1
  PROVE  \A word \in 0 .. s - 1 : word \in 0 .. n /\ word \in 0 .. size - 1
OBVIOUS

(* What the callback leaves in the buffer (UsbDescriptors.c:262-288). *)
LEMMA StringIsBuilt ==
  ASSUME NEW index \in 0 .. Len(STRING_DESCRIPTORS) - 1,
         DOMAIN scratch = 0 .. ScratchWords - 1,
         tud_descriptor_string_cb(index)
  PROVE  /\ DOMAIN scratch' = 0 .. ScratchWords - 1
         /\ \A word \in 0 .. NumChars(index) : scratch'[word] = Word(index, word)
         /\ (scratch'[0] % UINT8_MOD) \div 2 = NumChars(index) + 1
<1> DEFINE n == NumChars(index)
<1>1. ScratchWords \in 2 .. 127 /\ n \in 0 .. ScratchWords - 1 /\ n \in 0 .. 126
  BY NumCharsRange, UsbDescriptorsAssumption
<1>2. BLength(index) = 2 + 2 * n
  BY <1>1, HeaderLength DEF BLength, UINT8_MOD
<1> HIDE DEF n
<1>3. DOMAIN scratch \union 0 .. n = 0 .. ScratchWords - 1
  BY <1>1, UsbDescriptorsAssumption
<1>4. scratch' = [word \in 0 .. ScratchWords - 1 |->
                    IF word = 0 THEN 768 + (2 + 2 * n)
                    ELSE IF word <= n THEN StringOf(index)[word] ELSE scratch[word]]
  BY <1>2, <1>3 DEF tud_descriptor_string_cb, TUSB_DESC_STRING, UINT8_MOD, n
<1>5. scratch'[0] = 768 + (2 + 2 * n)
  BY <1>4, UsbDescriptorsAssumption
<1>6. (scratch'[0] % UINT8_MOD) \div 2 = n + 1
  BY <1>1, <1>5, HeaderLength DEF UINT8_MOD
<1>7. \A word \in 0 .. n : scratch'[word] = Word(index, word)
  BY <1>1, <1>4, UsbDescriptorsAssumption DEF Word, n
<1> QED
  BY <1>4, <1>6, <1>7 DEF n

(***************************************************************************)
(* Only a request for a string says so, and it names an index and asks for *)
(* a word at least.                                                        *)
(***************************************************************************)
LEMMA RequestsForStrings ==
  ASSUME NEW request \in Requests, request.type = "STRING"
  PROVE  request.index \in 0 .. Len(STRING_DESCRIPTORS) /\ request.wLength \in {2, 255}
<1>1. request \in StringRequests
  BY DEF Requests
<1> QED
  BY <1>1 DEF StringRequests

-----------------------------------------------------------------------------
(***************************************************************************)
(* The inductive invariant: while a string is under way the buffer holds   *)
(* it, for no callback runs before the host has made another request, and  *)
(* what has been sent are its first words (UsbDescriptors.c:241-242).      *)
(***************************************************************************)
Transfer ==
  LET index == asked.index
  IN /\ index \in 0 .. Len(STRING_DESCRIPTORS) - 1
     /\ total = Lesser(WordsAsked, NumChars(index) + 1)
     /\ \A word \in 0 .. NumChars(index) : scratch[word] = Word(index, word)
     /\ sent \in 0 .. total
     /\ DOMAIN data = 0 .. sent - 1
     /\ \A word \in 0 .. sent - 1 : data[word] = Word(index, word)
     /\ phase = "done" => sent = total

TransferInv ==
  /\ DOMAIN scratch = 0 .. ScratchWords - 1
  /\ phase \in {"data", "done"} /\ asked.type = "STRING" => Transfer
  /\ phase = "data" => asked.type = "STRING"
  /\ phase = "setup" => sent = 0 /\ DOMAIN data = {}
  /\ asked.type = "STRING" =>
       asked.index \in 0 .. Len(STRING_DESCRIPTORS) /\ asked.wLength \in {2, 255}

LEMMA AsksKeepsTransfer ==
  ASSUME TransferInv, NEW request \in Requests, Asks(request)
  PROVE  TransferInv'
<1>1. phase' = "setup" /\ sent' = 0 /\ data' = <<>> /\ asked' = request
      /\ scratch' = scratch
  BY DEF Asks
<1>2. DOMAIN <<>> = {}
  OBVIOUS
<1>3. DOMAIN data' = {}
  BY <1>1, <1>2
<1> QED
  BY <1>1, <1>3, RequestsForStrings DEF TransferInv

LEMMA SendKeepsTransfer ==
  ASSUME TransferInv, SendPacket
  PROVE  TransferInv'
<1> DEFINE index == asked.index
           n == NumChars(index)
<1>1. /\ phase = "data" /\ asked.type = "STRING" /\ Transfer
      /\ asked' = asked /\ scratch' = scratch /\ total' = total
  BY DEF SendPacket, TransferInv
<1>2. /\ index \in 0 .. Len(STRING_DESCRIPTORS) - 1
      /\ total = Lesser(WordsAsked, n + 1)
      /\ \A word \in 0 .. n : scratch[word] = Word(index, word)
      /\ sent \in 0 .. total
      /\ \A word \in 0 .. sent - 1 : data[word] = Word(index, word)
  BY <1>1 DEF Transfer
<1>3. ScratchWords \in 2 .. 127 /\ n \in 0 .. ScratchWords - 1
  BY <1>2, NumCharsRange, UsbDescriptorsAssumption
<1>4. WordsAsked \in Nat /\ WordsAsked > 0
  BY <1>1 DEF TransferInv, WordsAsked
<1>5. /\ sent' = Lesser(total, sent + WordsPerPacket)
      /\ data' = [word \in 0 .. sent' - 1 |-> IF word < sent THEN data[word]
                                                           ELSE Memory(word)]
      /\ phase' = IF sent' - sent < WordsPerPacket \/ sent' = WordsAsked THEN "done"
                                                                      ELSE "data"
  BY DEF SendPacket
<1>6. WordsPerPacket = 4
  BY DEF WordsPerPacket, CFG_TUD_ENDPOINT0_SIZE
<1> HIDE DEF n, index
<1>7. /\ total \in Nat /\ total <= n + 1 /\ total <= WordsAsked
      /\ sent' \in 0 .. total /\ sent <= sent'
      /\ phase' = "done" => sent' = total
  BY <1>2, <1>3, <1>4, <1>5, <1>6 DEF Lesser
<1>8. \A word \in 0 .. sent' - 1 : data'[word] = Word(index, word)
  <2>0. /\ ScratchWords \in Nat /\ n \in Nat /\ sent' \in Nat
        /\ n <= ScratchWords - 1 /\ sent' <= n + 1
    BY <1>3, <1>7
  <2> SUFFICES ASSUME NEW word \in 0 .. sent' - 1
               PROVE  data'[word] = Word(index, word)
    OBVIOUS
  <2>1. word \in 0 .. n /\ word \in 0 .. ScratchWords - 1
    BY <2>0, FirstWords
  <2>2. CASE word < sent
    <3>1. word \in 0 .. sent - 1
      BY <1>2, <1>7, <2>1, <2>2
    <3> QED
      BY <1>2, <1>5, <2>2, <3>1
  <2>3. CASE ~(word < sent)
    <3>1. Memory(word) = scratch[word]
      BY <2>1 DEF Memory, TransferInv
    <3> QED
      BY <1>2, <1>5, <2>1, <2>3, <3>1
  <2> QED
    BY <2>2, <2>3
<1>9. DOMAIN data' = 0 .. sent' - 1
  BY <1>5
<1>10. Transfer'
  <2>1. WordsAsked' = WordsAsked
    BY <1>1 DEF WordsAsked
  <2> QED
    BY <1>1, <1>2, <1>7, <1>8, <1>9, <2>1 DEF Transfer, index, n
<1>11. phase' \in {"data", "done"}
  BY <1>5
<1> QED
  BY <1>1, <1>10, <1>11 DEF TransferInv

LEMMA HandleStringKeepsTransfer ==
  ASSUME TransferInv, HandleString
  PROVE  TransferInv'
<1> DEFINE index == asked.index
<1>1. /\ phase = "setup" /\ asked.type = "STRING" /\ asked' = asked
      /\ sent = 0 /\ sent' = 0 /\ DOMAIN data = {} /\ data' = data
      /\ index \in 0 .. Len(STRING_DESCRIPTORS) /\ asked.wLength \in {2, 255}
  BY DEF HandleString, Awaits, Stalls, TransferInv
<1>2. CASE ~StringSupported(asked.index, asked.langid)
  BY <1>1, <1>2 DEF HandleString, Stalls, TransferInv
<1>3. CASE StringSupported(asked.index, asked.langid)
  <2>1. index \in 0 .. Len(STRING_DESCRIPTORS) - 1
    BY <1>1, <1>3, UsbDescriptorsAssumption DEF StringSupported
  <2>2. /\ tud_descriptor_string_cb(index) /\ phase' = "data"
        /\ total' = Lesser(WordsAsked, (scratch'[0] % UINT8_MOD) \div 2)
    BY <1>3 DEF HandleString
  <2>3. /\ DOMAIN scratch' = 0 .. ScratchWords - 1
        /\ \A word \in 0 .. NumChars(index) : scratch'[word] = Word(index, word)
        /\ total' = Lesser(WordsAsked, NumChars(index) + 1)
    BY <2>1, <2>2, StringIsBuilt DEF TransferInv
  <2>4. WordsAsked \in Nat /\ NumChars(index) \in Nat
    BY <1>1, <2>1, NumCharsRange DEF WordsAsked
  <2>5. 0 \in 0 .. total' /\ 0 .. 0 - 1 = {}
    BY <2>3, <2>4 DEF Lesser
  <2>6. Transfer'
    BY <1>1, <2>1, <2>2, <2>3, <2>5 DEF Transfer, WordsAsked, NumChars, StringOf, Word
  <2> QED
    BY <1>1, <2>2, <2>3, <2>6 DEF TransferInv
<1> QED
  BY <1>2, <1>3

THEOREM TransferInvariant == Spec => []TransferInv
<1>1. Init => TransferInv
  BY DEF Init, TransferInv
<1>2. TransferInv /\ [Next]_vars => TransferInv'
  <2> SUFFICES ASSUME TransferInv, [Next]_vars
               PROVE  TransferInv'
    OBVIOUS
  <2>1. CASE HostAsks \/ HostGivesUp
    BY <2>1, AsksKeepsTransfer DEF HostAsks, HostGivesUp
  <2>2. CASE HostResets
    BY <2>2 DEF HostResets, TransferInv
  <2>3. CASE HandleDevice \/ HandleConfiguration \/ HandleSetConfiguration \/ HandleReport
    <3>1. /\ asked' = asked /\ asked.type # "STRING" /\ scratch' = scratch
          /\ phase' \in {"done", "stalled"}
      BY <2>3
      DEF HandleDevice, HandleConfiguration, HandleSetConfiguration, HandleReport, Awaits,
          Answered, Stalls
    <3> QED
      BY <3>1 DEF TransferInv
  <2>4. CASE HandleString
    BY <2>4, HandleStringKeepsTransfer
  <2>5. CASE SendPacket
    BY <2>5, SendKeepsTransfer
  <2>6. CASE StartUp \/ UNCHANGED vars
    <3>1. UNCHANGED <<scratch, pipeVars>>
      BY <2>6 DEF StartUp, vars
    <3> QED
      BY <3>1 DEF pipeVars, TransferInv, Transfer, WordsAsked
  <2> QED
    BY <2>1, <2>2, <2>3, <2>4, <2>5, <2>6 DEF Next, Answer
<1> QED
  BY <1>1, <1>2, PTL DEF Spec

(***************************************************************************)
(* A host receives the string it asked for last, whole or cut to the       *)
(* buffer, and learns its real length (UsbDescriptors.c:238-242, 273-288). *)
(***************************************************************************)
THEOREM StringsAreRight == Spec => []StringsArriveWhole
<1>1. TransferInv => StringsArriveWhole
  <2> SUFFICES ASSUME TransferInv, phase = "done", asked.type = "STRING"
               PROVE  StringsArriveWhole
    BY DEF StringsArriveWhole
  <2> DEFINE n == NumChars(asked.index)
  <2>1. /\ asked.index \in 0 .. Len(STRING_DESCRIPTORS) - 1
        /\ total = Lesser(WordsAsked, n + 1) /\ sent = total
        /\ DOMAIN data = 0 .. sent - 1
        /\ \A word \in 0 .. sent - 1 : data[word] = Word(asked.index, word)
    BY DEF TransferInv, Transfer
  <2>2. n \in Nat
    BY <2>1, NumCharsRange
  <2>3. WordsAsked \in Nat /\ WordsAsked > 0
    BY DEF TransferInv, WordsAsked
  <2> HIDE DEF n
  <2>4. 0 \in 0 .. sent - 1
    BY <2>1, <2>2, <2>3 DEF Lesser
  <2>5. data[0] = 768 + 2 * (n + 1)
    BY <2>1, <2>4 DEF Word, n
  <2>6. \A word \in DOMAIN data \ {0} : data[word] = STRING_DESCRIPTORS[asked.index + 1][word]
    BY <2>1 DEF Word, StringOf
  <2> QED
    BY <2>1, <2>2, <2>5, <2>6 DEF StringsArriveWhole, n, NumChars, StringOf
<1> QED
  BY <1>1, TransferInvariant, PTL

-----------------------------------------------------------------------------
(* main() makes its calls in this order (Main.c:37-41, Board.c:255-262). *)
LEMMA CallsInOrder ==
  /\ Len(Main) = 7
  /\ Main[1] = "HAL_Init" /\ Main[2] = "InitClocks" /\ Main[3] = "InitPins"
  /\ Main[4] = "InitPeripherals" /\ Main[5] = "EventCounterInit"
  /\ Main[6] = "WatchdogInit" /\ Main[7] = "UsbInit"
<1> DEFINE Call == {"HAL_Init", "InitClocks", "InitPins", "InitPeripherals",
                   "EventCounterInit", "WatchdogInit", "UsbInit"}
           board == <<"HAL_Init", "InitClocks", "InitPins", "InitPeripherals">>
           rest == <<"EventCounterInit", "WatchdogInit", "UsbInit">>
<1>1. board \in Seq(Call) /\ Len(board) = 4
  OBVIOUS
<1>2. rest \in Seq(Call) /\ Len(rest) = 3
  OBVIOUS
<1>3. /\ board[1] = "HAL_Init" /\ board[2] = "InitClocks"
      /\ board[3] = "InitPins" /\ board[4] = "InitPeripherals"
      /\ rest[1] = "EventCounterInit" /\ rest[2] = "WatchdogInit" /\ rest[3] = "UsbInit"
  OBVIOUS
<1>4. Main = board \o rest
  BY DEF Main, BoardInit
<1> HIDE DEF Call, board, rest
<1> DEFINE both == board \o rest
<1>5. /\ Len(both) = Len(board) + Len(rest)
      /\ \A i \in 1 .. Len(board) + Len(rest) :
           both[i] = IF i <= Len(board) THEN board[i] ELSE rest[i - Len(board)]
  BY <1>1, <1>2, ConcatProperties, Zenon
<1> HIDE DEF both
<1>6. /\ Len(both) = 7
      /\ both[1] = board[1] /\ both[2] = board[2] /\ both[3] = board[3]
      /\ both[4] = board[4] /\ both[5] = rest[1] /\ both[6] = rest[2] /\ both[7] = rest[3]
  BY <1>1, <1>2, <1>5
<1>7. Main = both
  BY <1>4 DEF both
<1> QED
  BY <1>3, <1>6, <1>7

(***************************************************************************)
(* The inductive invariant: what each call leaves behind stays, and none   *)
(* is reached unless the ones before it have returned.                     *)
(***************************************************************************)
StartInv ==
  /\ returned \in 0 .. 7
  /\ hung => returned < 7
  /\ returned > 1 => clocked = {"GPIOA", "GPIOB", "TIM2", "USB"}
  /\ returned > 2 => pinsSet = DOMAIN Port
  /\ returned > 3 => timerRuns
  /\ attached => returned = 7

THEOREM StartInvariant == Spec => []StartInv
<1>1. Init => StartInv
  BY DEF Init, PoweredUp, StartInv
<1>2. StartInv /\ [Next]_vars => StartInv'
  <2> SUFFICES ASSUME StartInv, [Next]_vars
               PROVE  StartInv'
    OBVIOUS
  <2>1. CASE Start
    <3>1. returned \in 0 .. 6 /\ ~hung
      BY <2>1, CallsInOrder
      DEF Start, InitClocks, InitPins, InitPeripherals, InitMemory, UsbInit, In, InLoop,
          StartInv
    <3>2. CASE InitClocks
      <4>1. returned = 1
        BY <3>1, <3>2, CallsInOrder DEF InitClocks, In
      <4> QED
        BY <3>2, <4>1 DEF InitClocks, Returns, HangsForEver, StartInv
    <3>3. CASE InitPins
      <4>1. returned = 2
        BY <3>1, <3>3, CallsInOrder DEF InitPins, In
      <4>2. pinsSet' = DOMAIN Port
        BY <3>3, <4>1 DEF InitPins, StartInv, Port
      <4> QED
        BY <3>3, <4>1, <4>2 DEF InitPins, Returns, StartInv
    <3>4. CASE InitPeripherals
      <4>1. returned = 3
        BY <3>1, <3>4, CallsInOrder DEF InitPeripherals, In
      <4>2. CASE HangsForEver
        BY <3>1, <4>1, <4>2 DEF HangsForEver, StartInv
      <4>3. CASE /\ Returns
                 /\ timerRuns' = ("TIM2" \in clocked)
                 /\ UNCHANGED <<clocked, pinsSet, attached>>
        <5>1. "TIM2" \in clocked
          BY <4>1 DEF StartInv
        <5>2. timerRuns'
          BY <4>3, <5>1, Zenon
        <5>3. UNCHANGED <<hung, clocked, pinsSet, attached>> /\ returned' = returned + 1
          BY <4>3, Zenon DEF Returns
        <5> QED
          BY <3>1, <4>1, <5>2, <5>3 DEF StartInv
      <4> QED
        BY <3>4, <4>2, <4>3 DEF InitPeripherals
    <3>5. CASE InitMemory
      <4>1. returned \in {0, 4, 5}
        BY <3>1, <3>5, CallsInOrder DEF InitMemory, In
      <4> QED
        BY <3>1, <3>5, <4>1 DEF InitMemory, Returns, StartInv
    <3>6. CASE UsbInit
      <4>1. returned = 6
        BY <3>1, <3>6, CallsInOrder DEF UsbInit, In
      <4> QED
        BY <3>1, <3>6, <4>1 DEF UsbInit, Returns, StartInv
    <3> QED
      BY <2>1, <3>2, <3>3, <3>4, <3>5, <3>6 DEF Start
  <2>2. CASE UNCHANGED startVars
    BY <2>2 DEF startVars, StartInv
  <2>3. Start \/ UNCHANGED startVars
    BY DEF Next, vars, StartUp, HostAsks, HostGivesUp, HostResets, Asks, Answer, HandleDevice,
           HandleConfiguration, HandleSetConfiguration, HandleReport, HandleString,
           SendPacket, Answered, Stalls
  <2> QED
    BY <2>1, <2>2, <2>3
<1> QED
  BY <1>1, <1>2, PTL DEF Spec

(***************************************************************************)
(* No host sees a board that is not ready (Board.c:155-159, 234-243).      *)
(***************************************************************************)
THEOREM ReadyBoardsAttach == Spec => []OnlyReadyBoardsAttach
<1>1. StartInv => OnlyReadyBoardsAttach
  BY CallsInOrder DEF StartInv, OnlyReadyBoardsAttach, InLoop
<1> QED
  BY <1>1, StartInvariant, PTL

-----------------------------------------------------------------------------
(***************************************************************************)
(* Where the parts of the configuration end: the sum of the lengths of the *)
(* parts in a set, as the fold computes it in any order.                   *)
(***************************************************************************)
Counted(s, i, length) == IF i \in s THEN length ELSE 0
LengthOf(s) ==
  Counted(s, 1, 9) + Counted(s, 2, 9) + Counted(s, 3, 9) + Counted(s, 4, 7) + Counted(s, 5, 7)

PartLength(i) == CONFIGURATION_DESCRIPTOR[i].bLength

(* The parts' lengths (UsbDescriptors.c:171-193). *)
LEMMA PartLengths ==
  /\ PartLength(1) = 9 /\ PartLength(2) = 9 /\ PartLength(3) = 9
  /\ PartLength(4) = 7 /\ PartLength(5) = 7
BY DEF PartLength, CONFIGURATION_DESCRIPTOR, TUD_CONFIG_DESC_LEN

(***************************************************************************)
(* The fold counts each part once, whichever it picks first: a set with    *)
(* another sum would have a subset with another sum.                       *)
(***************************************************************************)
LEMMA PartsAddUp ==
  ASSUME NEW n \in 1 .. 5
  PROVE  MapThenSumSet(LAMBDA i : CONFIGURATION_DESCRIPTOR[i].bLength, 1 .. n)
           = LengthOf(1 .. n)
<1> DEFINE S == SUBSET (1 .. n)
           pick(s) == CHOOSE x \in s : TRUE
           IsSum(f) == f = [s \in S |-> IF s = {} THEN 0
                                        ELSE PartLength(pick(s)) + f[s \ {pick(s)}]]
           sum == CHOOSE f : IsSum(f)
<1>1. MapThenSumSet(LAMBDA i : CONFIGURATION_DESCRIPTOR[i].bLength, 1 .. n) = sum[1 .. n]
  BY DEF MapThenSumSet, MapThenFoldSet, PartLength
<1>2. \A s \in S : s # {} => pick(s) \in s /\ s \ {pick(s)} \in S
  OBVIOUS
<1>3. \A s \in S : s # {} => LengthOf(s) = PartLength(pick(s)) + LengthOf(s \ {pick(s)})
  <2> SUFFICES ASSUME NEW s \in S, s # {}
               PROVE  LengthOf(s) = PartLength(pick(s)) + LengthOf(s \ {pick(s)})
    OBVIOUS
  <2> DEFINE x == pick(s)
  <2>1. x \in s /\ x \in 1 .. 5
    <3>1. x \in s
      BY <1>2
    <3> HIDE DEF x
    <3> QED
      BY <3>1
  <2> HIDE DEF x
  <2>2. LengthOf(s) = PartLength(x) + LengthOf(s \ {x})
    BY <2>1, PartLengths DEF LengthOf, Counted
  <2> QED
    BY <2>2 DEF x
<1>4. LengthOf({}) = 0
  BY DEF LengthOf, Counted
<1>5. IsSum(sum)
  <2>1. IsSum([s \in S |-> LengthOf(s)])
    BY <1>2, <1>3, <1>4
  <2> QED
    BY <2>1
<1> HIDE DEF pick
<1>6. /\ sum[{}] = 0
      /\ \A s \in S : s # {} => sum[s] = PartLength(pick(s)) + sum[s \ {pick(s)}]
  BY <1>5
<1> HIDE DEF sum
<1>7. \A s \in S : sum[s] = LengthOf(s)
  <2> DEFINE Wrong == {s \in S : sum[s] # LengthOf(s)}
  <2> SUFFICES ASSUME Wrong # {} PROVE FALSE
    OBVIOUS
  <2>1. IsFiniteSet(1 .. n)
    BY FS_Interval
  <2>2. IsWellFoundedOn(StrictSubsetOrdering(1 .. n), S)
    BY <2>1, FS_StrictSubsetOrderingWellFounded, FS_FiniteSubsetsOfFinite
  <2> HIDE DEF S
  <2>3. Wrong \subseteq S
    OBVIOUS
  <2>4. \E s \in Wrong : \A t \in Wrong : ~ (<<t, s>> \in StrictSubsetOrdering(1 .. n))
    <3> HIDE DEF Wrong
    <3> QED
      BY <2>2, <2>3, WFMin
  <2>5. PICK s \in S : /\ sum[s] # LengthOf(s)
                       /\ \A t \in S : sum[t] # LengthOf(t)
                                        => ~ (<<t, s>> \in StrictSubsetOrdering(1 .. n))
    BY <2>4
  <2>6. s # {}
    BY <1>4, <1>6, <2>5
  <2> DEFINE t == s \ {pick(s)}
  <2>7. t \in S /\ t # s /\ t \subseteq s
    BY <1>2, <2>6
  <2> HIDE DEF t
  <2>8. <<t, s>> \in StrictSubsetOrdering(1 .. n)
    BY <2>7 DEF StrictSubsetOrdering, S
  <2>9. sum[t] = LengthOf(t)
    BY <2>5, <2>7, <2>8
  <2> QED
    BY <1>3, <1>6, <2>5, <2>6, <2>9 DEF t
<1> QED
  BY <1>1, <1>7

-----------------------------------------------------------------------------
(* What a host that has learnt more may ask includes what it could before. *)
LEMMA RequestsGrow ==
  ASSUME known \subseteq known', isConfigured => isConfigured', NEW request \in Requests
  PROVE  request \in Requests'
<1>1. CASE request \in StringRequests
  <2>1. LangIds \subseteq LangIds'
    BY DEF LangIds
  <2>2. request \in StringRequests'
    BY <1>1, <2>1 DEF StringRequests
  <2> QED
    BY <2>2 DEF Requests
<1>2. CASE request \in [type : {"CONFIGURATION"}, number : 1 .. 2,
                        wLength : {TUD_CONFIG_DESC_LEN}
                                    \union {d.wTotalLength : d \in Configurations}]
  <2>1. Configurations \subseteq Configurations'
    BY DEF Configurations
  <2>2. request \in [type : {"CONFIGURATION"}, number : 1 .. 2,
                     wLength : {TUD_CONFIG_DESC_LEN}
                                 \union {d.wTotalLength : d \in Configurations'}]
    BY <1>2, <2>1
  <2> QED
    BY <2>2 DEF Requests
<1>3. CASE request \in IF KnowsInterface THEN [type : {"SET_CONFIGURATION"}, number : 1 .. 2]
                                         ELSE {}
  <2>1. KnowsInterface => KnowsInterface'
    BY DEF KnowsInterface
  <2> QED
    BY <1>3, <2>1 DEF Requests
<1>4. CASE request \in IF isConfigured THEN [type : {"REPORT"}] ELSE {}
  BY <1>4 DEF Requests
<1>5. CASE request \in [type : {"DEVICE"}]
  BY <1>5 DEF Requests
<1> QED
  BY <1>1, <1>2, <1>3, <1>4, <1>5 DEF Requests

(* What each kind of request says. *)
LEMMA RequestFields ==
  ASSUME NEW request \in Requests
  PROVE  /\ request.type = "STRING" => request \in StringRequests
         /\ request.type = "CONFIGURATION" =>
              request.wLength \in {TUD_CONFIG_DESC_LEN}
                                    \union {d.wTotalLength : d \in Configurations}
         /\ request.type = "SET_CONFIGURATION" => KnowsInterface
         /\ request.type # "NOTHING"
BY DEF Requests, StringRequests

-----------------------------------------------------------------------------
(* The descriptors there are, the language among them. *)
Language == [type |-> "LANGID", langid |-> LANGID_ENGLISH, strings |-> {}]
Part(n) == CONFIGURATION_DESCRIPTOR[n]
Descriptors ==
  {DEVICE_DESCRIPTOR, Language} \union HID_REPORT_DESCRIPTOR \union {Part(n) : n \in 1 .. 5}

(* The parts of the configuration and the strings they name. *)
LEMMA PartTypes ==
  /\ DOMAIN CONFIGURATION_DESCRIPTOR = 1 .. 5
  /\ Part(1).type = "CONFIGURATION" /\ Part(1).wTotalLength = 41
  /\ Part(2).type = "INTERFACE" /\ Part(3).type = "HID"
  /\ Part(4).type = "ENDPOINT" /\ Part(5).type = "ENDPOINT"
  /\ Part(1).strings = {4} /\ Part(2).strings = {5} /\ Part(3).strings = {}
  /\ Part(4).strings = {} /\ Part(5).strings = {}
BY DEF Part, CONFIGURATION_DESCRIPTOR, CONFIG_TOTAL_LEN, TUD_CONFIG_DESC_LEN,
       TUD_HID_INOUT_DESC_LEN

(* The other descriptors and the strings they name. *)
LEMMA OtherTypes ==
  /\ DEVICE_DESCRIPTOR.type = "DEVICE" /\ DEVICE_DESCRIPTOR.strings = {1, 2, 3}
  /\ Language.type = "LANGID" /\ Language.langid = LANGID_ENGLISH /\ Language.strings = {}
  /\ \A d \in HID_REPORT_DESCRIPTOR : d.type = "REPORT" /\ d.strings = {}
BY DEF DEVICE_DESCRIPTOR, Language, HID_REPORT_DESCRIPTOR

(***************************************************************************)
(* A host that asks for the length it has read gets every part of the      *)
(* configuration, and one that asks for less gets the first alone          *)
(* (UsbDescriptors.c:166, 171-193).                                        *)
(***************************************************************************)
LEMMA PartsArrive ==
  /\ PartsWithin(CONFIGURATION_DESCRIPTOR, CONFIG_TOTAL_LEN) = {Part(n) : n \in 1 .. 5}
  /\ PartsWithin(CONFIGURATION_DESCRIPTOR, TUD_CONFIG_DESC_LEN) = {Part(1)}
<1> DEFINE end(n) == MapThenSumSet(LAMBDA i : CONFIGURATION_DESCRIPTOR[i].bLength, 1 .. n)
<1>1. end(1) = 9 /\ end(2) = 18 /\ end(3) = 27 /\ end(4) = 34 /\ end(5) = 41
  <2>1. \A n \in 1 .. 5 : end(n) = LengthOf(1 .. n)
    BY PartsAddUp
  <2> HIDE DEF end
  <2> QED
    BY <2>1 DEF LengthOf, Counted
<1> DEFINE within(length) == {n \in 1 .. 5 : end(n) <= Lesser(length, 41)}
<1>2. within(41) = 1 .. 5 /\ within(9) = {1}
  <2> HIDE DEF end
  <2> QED
    BY <1>1 DEF Lesser
<1>3. \A length : PartsWithin(CONFIGURATION_DESCRIPTOR, length)
                    = {Part(n) : n \in within(length)}
  <2>1. CONFIGURATION_DESCRIPTOR[1].wTotalLength = 41
    BY PartTypes DEF Part
  <2> QED
    BY <2>1, PartTypes DEF PartsWithin, Part
<1> HIDE DEF within
<1>4. CONFIG_TOTAL_LEN = 41 /\ TUD_CONFIG_DESC_LEN = 9
  BY DEF CONFIG_TOTAL_LEN, TUD_CONFIG_DESC_LEN, TUD_HID_INOUT_DESC_LEN
<1> QED
  BY <1>2, <1>3, <1>4

-----------------------------------------------------------------------------
(***************************************************************************)
(* The inductive invariant: what a host knows are descriptors of this      *)
(* device, the parts of the configuration together, and it asks by what it *)
(* knows.                                                                  *)
(***************************************************************************)
HostInv ==
  /\ known \subseteq Descriptors
  /\ KnowsInterface => \A n \in 1 .. 5 : Part(n) \in known
  /\ (\E d \in known : d.type = "REPORT") => HID_REPORT_DESCRIPTOR \subseteq known
  /\ isConfigured \in BOOLEAN
  /\ isConfigured => KnowsInterface
  /\ asked \in Requests \union [type : {"NOTHING"}]
  /\ phase = "stalled" /\ asked.type = "STRING" => ~StringSupported(asked.index, asked.langid)

(***************************************************************************)
(* A host learns an interface with its whole configuration, and a report   *)
(* with all of the report descriptor.                                      *)
(***************************************************************************)
LEMMA HostLearns ==
  ASSUME HostInv, NEW new, new \subseteq Descriptors,
         known' = known \union new, isConfigured' = isConfigured, asked' = asked,
         phase' # "stalled",
         (\E d \in new : d.type = "HID") => \A n \in 1 .. 5 : Part(n) \in new,
         (\E d \in new : d.type = "REPORT") => HID_REPORT_DESCRIPTOR \subseteq new
  PROVE  HostInv'
<1>1. asked' \in Requests' \union [type : {"NOTHING"}]
  <2>1. asked \in Requests => asked \in Requests'
    BY RequestsGrow
  <2> QED
    BY <2>1 DEF HostInv
<1>2. KnowsInterface' <=> KnowsInterface \/ \E d \in new : d.type = "HID"
  BY DEF KnowsInterface
<1> QED
  BY <1>1, <1>2 DEF HostInv

(* An answer without descriptors leaves a host as wise as it was. *)
LEMMA HostLearnsNothing ==
  ASSUME HostInv, UNCHANGED <<known, isConfigured, asked>>, phase' # "stalled"
  PROVE  HostInv'
<1> DEFINE new == {}
<1>1. /\ new \subseteq Descriptors /\ known' = known \union new
      /\ \A d \in new : d.type \notin {"HID", "REPORT"}
  OBVIOUS
<1> HIDE DEF new
<1> QED
  BY <1>1, HostLearns

(* A request is one the host knows enough for. *)
LEMMA AsksKeepsHost ==
  ASSUME HostInv, NEW request \in Requests, Asks(request)
  PROVE  HostInv'
<1>1. UNCHANGED <<known, isConfigured>> /\ asked' = request /\ phase' = "setup"
  BY DEF Asks
<1>2. request \in Requests'
  BY <1>1, RequestsGrow
<1> QED
  BY <1>1, <1>2 DEF HostInv, KnowsInterface

(* Only a string that is not there stalls a request for a string. *)
LEMMA StallKeepsHost ==
  ASSUME HostInv, Stalls,
         asked.type = "STRING" => ~StringSupported(asked.index, asked.langid)
  PROVE  HostInv'
<1>1. UNCHANGED <<known, isConfigured, asked>>
  BY DEF Stalls
<1>2. asked \in Requests => asked \in Requests'
  BY <1>1, RequestsGrow
<1> QED
  BY <1>1, <1>2 DEF HostInv, KnowsInterface

(* The host learns the language from the words that were sent. *)
LEMMA SendKeepsHost ==
  ASSUME TransferInv, HostInv, SendPacket
  PROVE  HostInv'
<1>1. /\ UNCHANGED <<asked, isConfigured>>
      /\ phase = "data" /\ phase' \in {"data", "done"}
  BY DEF SendPacket
<1>2. CASE phase' = "done" /\ asked.index = 0 /\ sent' > 1
  <2>1. known' = known \union {[type |-> "LANGID", langid |-> data'[1], strings |-> {}]}
    BY <1>2 DEF SendPacket
  <2>2. TransferInv'
    BY SendKeepsTransfer
  <2>3. Transfer' /\ asked.type = "STRING"
    BY <1>1, <1>2, <2>2 DEF TransferInv
  <2>4. 1 \in 0 .. sent' - 1
    <3>1. NumChars(0) \in Nat
      BY NumCharsRange, UsbDescriptorsAssumption
    <3>2. WordsAsked \in Nat
      BY <1>1, <2>3 DEF WordsAsked, TransferInv
    <3>3. WordsAsked' = WordsAsked /\ NumChars(0)' = NumChars(0)
      BY <1>1 DEF WordsAsked, NumChars, StringOf
    <3>4. sent' \in 0 .. total' /\ total' = Lesser(WordsAsked, NumChars(0) + 1)
      BY <1>1, <1>2, <2>3, <3>3 DEF Transfer
    <3>5. total' \in Nat
      BY <3>1, <3>2, <3>4 DEF Lesser
    <3>6. sent' \in Nat /\ sent' > 1
      <4>1. sent' \in 0 .. total' /\ sent' > 1
        BY <1>2, <3>4
      <4> QED
        BY <3>5, <4>1
    <3>7. \A s \in Nat : s > 1 => 1 \in 0 .. s - 1
      OBVIOUS
    <3> QED
      BY <3>6, <3>7
  <2>5. data'[1] = LANGID_ENGLISH
    <3>1. asked'.index = 0
      BY <1>1, <1>2
    <3>2. \A word \in 0 .. sent' - 1 : data'[word] = Word(asked'.index, word)
      BY <2>3 DEF Transfer, Word, StringOf, NumChars
    <3>3. data'[1] = Word(0, 1)
      BY <2>4, <3>1, <3>2
    <3>4. STRING_DESCRIPTORS[1] = <<LANGID_ENGLISH>>
      BY UsbDescriptorsAssumption
    <3>5. Word(0, 1) = STRING_DESCRIPTORS[1][1]
      BY DEF Word, StringOf
    <3> QED
      BY <3>3, <3>4, <3>5
  <2> DEFINE new == {Language}
  <2>6. known' = known \union new
    BY <2>1, <2>5 DEF Language
  <2>7. /\ new \subseteq Descriptors
        /\ \A d \in new : d.type = "LANGID"
    BY OtherTypes DEF Descriptors
  <2> HIDE DEF new
  <2> QED
    BY <1>1, <2>6, <2>7, HostLearns
<1>3. CASE ~(phase' = "done" /\ asked.index = 0 /\ sent' > 1)
  <2>1. known' = known
    BY <1>3 DEF SendPacket
  <2> QED
    BY <1>1, <2>1, HostLearnsNothing
<1> QED
  BY <1>2, <1>3

(* The configuration comes whole, or its first part alone. *)
LEMMA ConfigurationKeepsHost ==
  ASSUME HostInv, HandleConfiguration
  PROVE  HostInv'
<1>1. asked.type = "CONFIGURATION" /\ asked \in Requests
  BY DEF HandleConfiguration, Awaits, HostInv
<1>2. asked.wLength \in {TUD_CONFIG_DESC_LEN, CONFIG_TOTAL_LEN}
  <2>1. \A d \in Configurations : d.wTotalLength = 41
    BY PartTypes, OtherTypes DEF Configurations, HostInv, Descriptors
  <2>2. CONFIG_TOTAL_LEN = 41
    BY DEF CONFIG_TOTAL_LEN, TUD_CONFIG_DESC_LEN, TUD_HID_INOUT_DESC_LEN
  <2> QED
    BY <1>1, <2>1, <2>2, RequestFields
<1>3. CASE tud_descriptor_configuration_cb(asked.number - 1) = NULL
  BY <1>1, <1>3, StallKeepsHost DEF HandleConfiguration
<1>4. CASE tud_descriptor_configuration_cb(asked.number - 1) # NULL
  <2> DEFINE new == PartsWithin(CONFIGURATION_DESCRIPTOR, asked.wLength)
  <2>1. Answered(new) /\ isConfigured' = isConfigured
    BY <1>4 DEF HandleConfiguration, tud_descriptor_configuration_cb
  <2>2. new = {Part(n) : n \in 1 .. 5} \/ new = {Part(1)}
    BY <1>2, PartsArrive
  <2> HIDE DEF new
  <2>3. /\ new \subseteq Descriptors
        /\ \A d \in new : d.type # "REPORT"
        /\ (\E d \in new : d.type = "HID") => \A n \in 1 .. 5 : Part(n) \in new
    BY <2>2, PartTypes DEF Descriptors
  <2> QED
    BY <2>1, <2>3, HostLearns DEF Answered
<1> QED
  BY <1>3, <1>4

(* What a host knows and asks is right in every state. *)
THEOREM HostInvariant == Spec => []HostInv
<1>1. Init => HostInv
  <2> SUFFICES ASSUME Init PROVE HostInv
    OBVIOUS
  <2>1. /\ asked \in [type : {"NOTHING"}]
        /\ phase = "idle" /\ known = {} /\ isConfigured = FALSE
    BY DEF Init
  <2> QED
    BY <2>1 DEF HostInv, KnowsInterface
<1>2. TransferInv /\ HostInv /\ [Next]_vars => HostInv'
  <2> SUFFICES ASSUME TransferInv, HostInv, [Next]_vars
               PROVE  HostInv'
    OBVIOUS
  <2>1. CASE HostAsks \/ HostGivesUp
    BY <2>1, AsksKeepsHost DEF HostAsks, HostGivesUp
  <2>2. CASE HostResets
    BY <2>2 DEF HostResets, HostInv, KnowsInterface
  <2>3. CASE HandleDevice
    <3>1. Answered({DEVICE_DESCRIPTOR}) /\ isConfigured' = isConfigured
      BY <2>3 DEF HandleDevice, tud_descriptor_device_cb
    <3> QED
      BY <3>1, OtherTypes, HostLearns DEF Answered, Descriptors
  <2>4. CASE HandleConfiguration
    BY <2>4, ConfigurationKeepsHost
  <2>5. CASE HandleSetConfiguration
    <3>1. asked.type = "SET_CONFIGURATION" /\ asked \in Requests
      BY <2>5 DEF HandleSetConfiguration, Awaits, HostInv
    <3>2. KnowsInterface
      BY <3>1, RequestFields
    <3>3. CASE Stalls
      BY <3>1, <3>3, StallKeepsHost
    <3>4. CASE Answered({}) /\ isConfigured' = TRUE
      <4>1. known' = known /\ asked' = asked /\ phase' = "done"
        BY <3>4 DEF Answered
      <4>2. asked \in Requests'
        BY <3>1, <3>4, <4>1, RequestsGrow
      <4> QED
        BY <3>2, <3>4, <4>1, <4>2 DEF HostInv, KnowsInterface
    <3> QED
      BY <2>5, <3>3, <3>4 DEF HandleSetConfiguration
  <2>6. CASE HandleReport
    <3>1. Answered(HID_REPORT_DESCRIPTOR) /\ isConfigured' = isConfigured
      BY <2>6 DEF HandleReport, tud_hid_descriptor_report_cb
    <3>2. HID_REPORT_DESCRIPTOR \subseteq Descriptors
      BY DEF Descriptors
    <3> QED
      BY <3>1, <3>2, OtherTypes, HostLearns DEF Answered
  <2>7. CASE HandleString
    <3>1. CASE StringSupported(asked.index, asked.langid)
      <4>1. UNCHANGED <<known, isConfigured, asked>> /\ phase' = "data"
        BY <2>7, <3>1 DEF HandleString
      <4> QED
        BY <4>1, HostLearnsNothing
    <3>2. CASE ~StringSupported(asked.index, asked.langid)
      BY <2>7, <3>2, StallKeepsHost DEF HandleString
    <3> QED
      BY <3>1, <3>2
  <2>8. CASE SendPacket
    BY <2>8, SendKeepsHost
  <2>9. CASE StartUp \/ UNCHANGED vars
    <3>1. UNCHANGED <<known, isConfigured, asked, phase>>
      BY <2>9 DEF StartUp, vars, pipeVars
    <3>2. asked \in Requests => asked \in Requests'
      BY <3>1, RequestsGrow
    <3> QED
      BY <3>1, <3>2 DEF HostInv, KnowsInterface
  <2> QED
    BY <2>1, <2>2, <2>3, <2>4, <2>5, <2>6, <2>7, <2>8, <2>9 DEF Next, Answer
<1> QED
  BY <1>1, <1>2, TransferInvariant, PTL DEF Spec

-----------------------------------------------------------------------------
(***************************************************************************)
(* No request for a string that a descriptor names is refused.             *)
(* UsbDescriptors.c:219-227: the table ends behind the last string that a  *)
(* descriptor names, the fifth.                                            *)
(***************************************************************************)
THEOREM NamedStringsAreThere ==
  ASSUME Len(STRING_DESCRIPTORS) > 5
  PROVE  Spec => []NamedStringsArrive
<1>1. HostInv => NamedStringsArrive
  <2> SUFFICES ASSUME HostInv, phase = "stalled", asked.type = "STRING",
                      asked.index = 0
                        \/ /\ asked.langid \in LangIds
                           /\ asked.index \in UNION {d.strings : d \in known}
               PROVE  FALSE
    BY DEF NamedStringsArrive
  <2>1. ~StringSupported(asked.index, asked.langid)
    BY DEF HostInv
  <2>2. Len(STRING_DESCRIPTORS) \in Nat
    BY UsbDescriptorsAssumption
  <2>3. asked.index # 0
    BY <2>1, <2>2 DEF StringSupported
  <2>4. asked.langid = LANGID_ENGLISH
    BY <2>3, PartTypes, OtherTypes DEF HostInv, LangIds, Descriptors
  <2>5. asked.index \in 1 .. 5
    <3>1. PICK d \in known : asked.index \in d.strings
      BY <2>3
    <3>2. d \in Descriptors
      BY DEF HostInv
    <3>3. CASE d \in {Part(n) : n \in 1 .. 5}
      BY <3>1, <3>3, PartTypes
    <3>4. CASE d \in {DEVICE_DESCRIPTOR, Language} \union HID_REPORT_DESCRIPTOR
      BY <3>1, <3>4, OtherTypes
    <3> QED
      BY <3>2, <3>3, <3>4 DEF Descriptors
  <2> QED
    BY <2>1, <2>2, <2>4, <2>5 DEF StringSupported
<1> QED
  BY <1>1, HostInvariant, PTL

(***************************************************************************)
(* A host that has configured the device finds the endpoints and reports   *)
(* it needs (UsbDescriptors.c:83-100, 166, 183-193; tusb_config.h:103-104). *)
(***************************************************************************)
THEOREM EnumeratedHostsCanTalk == Spec => []EnumeratedHostCanTalk
<1>1. HostInv => EnumeratedHostCanTalk
  <2> SUFFICES ASSUME HostInv, isConfigured, \E d \in known : d.type = "REPORT"
               PROVE  \E report, out, in \in known :
                        /\ report.type = "REPORT" /\ report.id = REPORT_ID_ADU_CMD_RSP
                        /\ out.type = "ENDPOINT" /\ out.direction = "OUT"
                        /\ in.type = "ENDPOINT" /\ in.direction = "IN"
                        /\ MAX_CMD_STR_SIZE + 1 <= report.output
                        /\ report.output + 1 <= out.wMaxPacketSize
                        /\ DEC_DIGITS_16_BIT <= report.input
                        /\ report.input + 1 <= in.wMaxPacketSize
    BY DEF EnumeratedHostCanTalk
  <2> DEFINE report == [type |-> "REPORT", id |-> REPORT_ID_ADU_CMD_RSP,
                        input |-> HID_REPORT_COUNT, output |-> HID_REPORT_COUNT,
                        strings |-> {}]
  <2>1. report \in known
    BY DEF HostInv, HID_REPORT_DESCRIPTOR
  <2>2. Part(4) \in known /\ Part(5) \in known
    BY DEF HostInv
  <2>3. /\ Part(4).type = "ENDPOINT" /\ Part(4).direction = "OUT"
        /\ Part(5).type = "ENDPOINT" /\ Part(5).direction = "IN"
        /\ Part(4).wMaxPacketSize = CFG_TUD_HID_EP_BUFSIZE
        /\ Part(5).wMaxPacketSize = CFG_TUD_HID_EP_BUFSIZE
    BY DEF Part, CONFIGURATION_DESCRIPTOR
  <2>4. /\ MAX_CMD_STR_SIZE + 1 <= HID_REPORT_COUNT
        /\ HID_REPORT_COUNT + 1 <= CFG_TUD_HID_EP_BUFSIZE
        /\ DEC_DIGITS_16_BIT <= HID_REPORT_COUNT
    BY DEF HID_REPORT_COUNT, MAX_CMD_STR_SIZE, CFG_TUD_HID_EP_BUFSIZE, DEC_DIGITS_16_BIT
  <2>5. /\ report.type = "REPORT" /\ report.id = REPORT_ID_ADU_CMD_RSP
        /\ report.input = HID_REPORT_COUNT /\ report.output = HID_REPORT_COUNT
    OBVIOUS
  <2> HIDE DEF report
  <2> QED
    BY <2>1, <2>2, <2>3, <2>4, <2>5
<1> QED
  BY <1>1, HostInvariant, PTL

-----------------------------------------------------------------------------
(* The buffer holds words and keeps its size; what is sent fits it. *)
BufferInv ==
  /\ scratch \in [0 .. ScratchWords - 1 -> Nat]
  /\ phase \in Phase
  /\ total \in 0 .. ScratchWords
  /\ sent \in 0 .. total
  /\ DOMAIN data = 0 .. sent - 1

(* The callback writes words, and none behind the buffer (UsbDescriptors.c:262-288). *)
LEMMA StringsAreWords ==
  ASSUME NEW index \in 0 .. Len(STRING_DESCRIPTORS) - 1,
         scratch \in [0 .. ScratchWords - 1 -> Nat],
         tud_descriptor_string_cb(index)
  PROVE  scratch' \in [0 .. ScratchWords - 1 -> Nat]
<1> DEFINE n == NumChars(index)
           string == StringOf(index)
<1>1. ScratchWords \in 2 .. 127 /\ n \in 0 .. ScratchWords - 1 /\ n \in 0 .. 126
  BY NumCharsRange, UsbDescriptorsAssumption
<1>2. index + 1 \in 1 .. Len(STRING_DESCRIPTORS)
  BY UsbDescriptorsAssumption
<1>3. string \in Seq(Nat)
  BY <1>2, UsbDescriptorsAssumption DEF StringOf
<1>4. n <= Len(string)
  BY <1>3, <1>1 DEF NumChars, Lesser
<1>5. BLength(index) = 2 + 2 * n
  BY <1>1, HeaderLength DEF BLength, UINT8_MOD
<1> HIDE DEF n, string
<1>6. DOMAIN scratch \union 0 .. n = 0 .. ScratchWords - 1
  BY <1>1
<1>7. scratch' = [word \in 0 .. ScratchWords - 1 |->
                    IF word = 0 THEN 768 + (2 + 2 * n)
                    ELSE IF word <= n THEN string[word] ELSE scratch[word]]
  BY <1>5, <1>6 DEF tud_descriptor_string_cb, TUSB_DESC_STRING, UINT8_MOD, n, string
<1>8. \A word \in 0 .. ScratchWords - 1 : word # 0 /\ word <= n => string[word] \in Nat
  BY <1>1, <1>3, <1>4
<1> QED
  BY <1>1, <1>7, <1>8

(* The length the stack takes from the buffer fits the buffer. *)
LEMMA HandleStringKeepsBuffer ==
  ASSUME TransferInv, BufferInv, HandleString
  PROVE  BufferInv'
<1> DEFINE index == asked.index
<1>1. /\ phase = "setup" /\ asked.type = "STRING"
      /\ sent = 0 /\ sent' = 0 /\ data' = data /\ DOMAIN data = {}
      /\ index \in 0 .. Len(STRING_DESCRIPTORS) /\ asked.wLength \in {2, 255}
  BY DEF HandleString, Awaits, Stalls, TransferInv
<1>2. CASE ~StringSupported(asked.index, asked.langid)
  BY <1>1, <1>2 DEF HandleString, Stalls, BufferInv, Phase
<1>3. CASE StringSupported(asked.index, asked.langid)
  <2>1. index \in 0 .. Len(STRING_DESCRIPTORS) - 1
    BY <1>1, <1>3, UsbDescriptorsAssumption DEF StringSupported
  <2>2. /\ tud_descriptor_string_cb(index) /\ phase' = "data"
        /\ total' = Lesser(WordsAsked, (scratch'[0] % UINT8_MOD) \div 2)
    BY <1>3 DEF HandleString
  <2>3. scratch' \in [0 .. ScratchWords - 1 -> Nat]
    BY <2>1, <2>2, StringsAreWords DEF BufferInv
  <2>4. total' = Lesser(WordsAsked, NumChars(index) + 1)
    BY <2>1, <2>2, StringIsBuilt DEF TransferInv
  <2>5. WordsAsked \in Nat /\ NumChars(index) \in 0 .. ScratchWords - 1
        /\ ScratchWords \in 2 .. 127
    BY <1>1, <2>1, NumCharsRange, UsbDescriptorsAssumption DEF WordsAsked
  <2> HIDE DEF index
  <2>6. total' \in 0 .. ScratchWords
    BY <2>4, <2>5 DEF Lesser
  <2>7. 0 \in 0 .. total' /\ 0 .. 0 - 1 = {}
    BY <2>6
  <2> QED
    BY <1>1, <2>2, <2>3, <2>6, <2>7 DEF BufferInv, Phase
<1> QED
  BY <1>2, <1>3

(* The buffer is never outgrown. *)
THEOREM BufferInvariant == Spec => []BufferInv
<1> USE UsbDescriptorsAssumption
<1>1. Init => BufferInv
  BY DEF Init, BufferInv, Phase
<1>2. TransferInv /\ BufferInv /\ [Next]_vars => BufferInv'
  <2> SUFFICES ASSUME TransferInv, BufferInv, [Next]_vars
               PROVE  BufferInv'
    OBVIOUS
  <2>1. CASE HostAsks \/ HostGivesUp \/ HostResets
    <3>1. /\ scratch' = scratch /\ phase' \in {"setup", "idle"}
          /\ total' = 0 /\ sent' = 0 /\ data' = <<>>
      BY <2>1 DEF HostAsks, HostGivesUp, Asks, HostResets
    <3>2. DOMAIN <<>> = 0 .. 0 - 1
      OBVIOUS
    <3>3. 0 \in 0 .. ScratchWords /\ 0 \in 0 .. 0
      OBVIOUS
    <3> QED
      BY <3>1, <3>2, <3>3 DEF BufferInv, Phase
  <2>2. CASE HandleDevice \/ HandleConfiguration \/ HandleSetConfiguration \/ HandleReport
    BY <2>2
    DEF HandleDevice, HandleConfiguration, HandleSetConfiguration, HandleReport, Answered,
        Stalls, BufferInv, Phase
  <2>3. CASE HandleString
    BY <2>3, HandleStringKeepsBuffer
  <2>4. CASE SendPacket
    <3>1. /\ phase = "data" /\ phase' \in {"data", "done"} /\ asked.type = "STRING"
          /\ UNCHANGED <<scratch, asked, total>>
      BY <2>4 DEF SendPacket, TransferInv
    <3>2. Transfer'
      BY <2>4, <3>1, SendKeepsTransfer DEF TransferInv
    <3> QED
      BY <3>1, <3>2 DEF Transfer, BufferInv, Phase
  <2>5. CASE StartUp \/ UNCHANGED vars
    BY <2>5 DEF StartUp, vars, pipeVars, BufferInv
  <2> QED
    BY <2>1, <2>2, <2>3, <2>4, <2>5 DEF Next, Answer
<1> QED
  BY <1>1, <1>2, TransferInvariant, PTL DEF Spec

(* Enumeration's type invariant (UsbDescriptors.c:238-292). *)
THEOREM EnumerationTypeCorrect == Spec => []EnumerationTypeOK
<1>1. StartInv /\ BufferInv /\ HostInv => EnumerationTypeOK
  BY CallsInOrder DEF StartInv, BufferInv, HostInv, EnumerationTypeOK
<1> QED
  BY <1>1, StartInvariant, BufferInvariant, HostInvariant, PTL

=============================================================================
