---------------------------- MODULE ManualProofs ----------------------------
(***************************************************************************)
(* Proofs about AduManual, whatever characters the host types and whatever *)
(* the memory behind a report holds.                                       *)
(***************************************************************************)
EXTENDS AduManual, AduCommandProofs

-----------------------------------------------------------------------------
TypedChar == PrefixChar \union ArgumentChar \union {"0"}

(***************************************************************************)
(* The inductive invariant: a text is made of typed characters and is at   *)
(* most as long as what a report holds behind its ID (Usb.c:100-120).      *)
(***************************************************************************)
TextInv == text \in Seq(TypedChar) /\ Len(text) <= CFG_TUD_HID_EP_BUFSIZE - 1

(* Whatever is typed, no text outgrows a report. *)
THEOREM TextInvariant == TypeSpec => []TextInv
<1>1. TypeInit => TextInv
  BY DEF TypeInit, TextInv, CFG_TUD_HID_EP_BUFSIZE
<1>2. TextInv /\ [TypeNext]_text => TextInv'
  <2> SUFFICES ASSUME TextInv, [TypeNext]_text
               PROVE  TextInv'
    OBVIOUS
  <2>1. CASE Submit
    BY <2>1 DEF Submit, TextInv, CFG_TUD_HID_EP_BUFSIZE
  <2>2. CASE TypePrefix \/ TypeArgument \/ TypeTooMuch
    <3>1. PICK c \in TypedChar : text' = Append(text, c) /\ Len(text) <= 6
      BY <2>2, SMTT(30)
      DEF TypePrefix, TypeArgument, TypeTooMuch, TypedChar, MAX_CMD_STR_SIZE,
          CFG_TUD_HID_EP_BUFSIZE, TextInv
    <3>2. text' \in Seq(TypedChar) /\ Len(text') = Len(text) + 1 /\ Len(text) \in Nat
      BY <3>1 DEF TextInv
    <3> QED
      BY <3>1, <3>2 DEF TextInv, CFG_TUD_HID_EP_BUFSIZE
  <2>3. CASE UNCHANGED text
    BY <2>3 DEF TextInv
  <2> QED
    BY <2>1, <2>2, <2>3 DEF TypeNext
<1> QED
  BY <1>1, <1>2, PTL DEF TypeSpec

(* A report has room for what is typed, *)
LEMMA TypedLength ==
  ASSUME TextInv
  PROVE  Len(text) \in Nat /\ Len(text) <= 7
BY DEF TextInv, CFG_TUD_HID_EP_BUFSIZE

(* and none of it ends the text. *)
LEMMA TypedIsNotNul ==
  ASSUME TextInv, NEW i \in 1 .. Len(text)
  PROVE  text[i] # NUL
BY AduManualAssumption DEF TextInv, TypedChar, NUL

-----------------------------------------------------------------------------
(***************************************************************************)
(* A memory that holds the text, then a NUL, or so long a text that it may *)
(* run on (AduProtocol.c:733-758).                                         *)
(***************************************************************************)
HoldsText(memory) ==
  /\ Len(text) < Len(memory)
  /\ \A i \in 1 .. Len(text) : memory[i] = text[i]
  /\ \E i \in Len(text) + 1 .. Len(memory) : memory[i] = NUL
  /\ memory[Len(text) + 1] = NUL \/ Len(text) > MAX_CMD_STR_SIZE

(* What strnlen and the handlers find in it. *)
LEMMA TextIsFound ==
  ASSUME TextInv, NEW C, NEW memory \in Seq(C), HoldsText(memory)
  PROVE  /\ FirstNul(memory) \in Len(text) + 1 .. Len(memory)
         /\ memory[Len(text) + 1] = NUL => /\ FirstNul(memory) = Len(text) + 1
                                           /\ TextAt(memory) = text
         /\ TextAt(memory) \in Seq(C) /\ Len(TextAt(memory)) = FirstNul(memory) - 1
<1> DEFINE n == Len(text)
           first == FirstNul(memory)
<1>1. n \in Nat /\ text \in Seq(TypedChar) /\ Len(memory) \in Nat
  BY DEF TextInv
<1>2. /\ n < Len(memory)
      /\ \A i \in 1 .. n : memory[i] = text[i]
      /\ \E i \in n + 1 .. Len(memory) : memory[i] = NUL
  BY DEF HoldsText
<1>3. \A i \in 1 .. n : memory[i] # NUL
  BY <1>2, TypedIsNotNul
<1>4. /\ first \in 1 .. Len(memory) /\ memory[first] = NUL
      /\ \A i \in 1 .. first - 1 : memory[i] # NUL
      /\ TextAt(memory) = SubSeq(memory, 1, first - 1)
  BY <1>1, <1>2, FirstNulIsFirst
<1> HIDE DEF n, first
<1>5. first \in n + 1 .. Len(memory)
  BY <1>1, <1>3, <1>4
<1>6. TextAt(memory) \in Seq(C) /\ Len(TextAt(memory)) = first - 1
  BY <1>1, <1>4
<1>7. ASSUME memory[n + 1] = NUL
      PROVE  first = n + 1 /\ TextAt(memory) = text
  <2>1. first = n + 1
    BY <1>1, <1>4, <1>5, <1>7
  <2>2. TextAt(memory) = SubSeq(memory, 1, n)
    BY <1>1, <1>4, <2>1
  <2>3. /\ Len(TextAt(memory)) = n
        /\ \A i \in 1 .. n : TextAt(memory)[i] = text[i]
    BY <1>1, <1>2, <2>2
  <2>4. Len(text) = n
    BY DEF n
  <2> QED
    BY <1>1, <1>6, <2>1, <2>3, <2>4, SeqEqual
<1> QED
  BY <1>5, <1>6, <1>7 DEF n, first

(* Only the length that is looked at can make a difference. *)
LEMMA TextIsProcessed ==
  ASSUME TextInv, NEW C, NEW memory \in Seq(C), HoldsText(memory), NEW len \in Nat
  PROVE  /\ len >= Len(text) => ProcessBuffer(memory, len) = Command(text)
         /\ len = 0 => ProcessBuffer(memory, len) \in {Command(text), Invalid}
<1> DEFINE n == Len(text)
           first == FirstNul(memory)
<1>1. n \in Nat /\ text \in Seq(TypedChar) /\ Len(memory) \in Nat
  BY DEF TextInv
<1>2. /\ first \in n + 1 .. Len(memory)
      /\ memory[n + 1] = NUL => first = n + 1 /\ TextAt(memory) = text
      /\ TextAt(memory) \in Seq(C) /\ Len(TextAt(memory)) = first - 1
  BY TextIsFound
<1>3. memory[n + 1] = NUL \/ n > 5
  BY DEF HoldsText, MAX_CMD_STR_SIZE
<1>4. StrNLen(memory, len) = IF len < first - 1 THEN len ELSE first - 1
  <2>1. \E i \in 1 .. Len(memory) : memory[i] = NUL
    BY <1>1 DEF HoldsText
  <2> QED
    BY <2>1, FirstNulIsFirst
<1>5. ProcessBuffer(memory, len) = IF StrNLen(memory, len) > 5 THEN TooLong
                                                              ELSE Processed(TextAt(memory))
  BY DEF ProcessBuffer, MAX_CMD_STR_SIZE
<1>6. Command(text) = IF n > 5 THEN TooLong ELSE Processed(text)
  BY DEF Command, MAX_CMD_STR_SIZE
<1>7. first - 1 > 5 => Processed(TextAt(memory)) = Invalid
  BY <1>2, LongTextsAreInvalid DEF MAX_CMD_STR_SIZE
<1> HIDE DEF n, first
<1>8. len >= n => ProcessBuffer(memory, len) = Command(text)
  BY <1>1, <1>2, <1>3, <1>4, <1>5, <1>6
<1>9. len = 0 => ProcessBuffer(memory, len) \in {Command(text), Invalid}
  <2>1. CASE n > 5
    BY <1>1, <1>2, <1>4, <1>5, <1>7, <2>1
  <2>2. CASE ~ (n > 5)
    BY <1>1, <1>2, <1>3, <1>4, <1>5, <1>6, <2>2
  <2> QED
    BY <2>1, <2>2
<1> QED
  BY <1>8, <1>9 DEF n

-----------------------------------------------------------------------------
(* A report is the ID, the text and, unless the text fills it, a NUL. *)
LEMMA ReportHoldsText ==
  ASSUME TextInv, NEW report \in TerminatedReports, NEW C,
         TypedChar \union {NUL, REPORT_ID_ADU_CMD_RSP} \subseteq C
  PROVE  /\ report \in Seq(C)
         /\ Len(report) \in Nat /\ 2 <= Len(report)
         /\ Len(report) <= CFG_TUD_HID_EP_BUFSIZE
         /\ Len(report) > Len(text)
         /\ report[1] = REPORT_ID_ADU_CMD_RSP
         /\ \A i \in 1 .. Len(text) : report[i + 1] = text[i]
         /\ \/ Len(report) >= Len(text) + 2 /\ report[Len(text) + 2] = NUL
            \/ Len(text) = CFG_TUD_HID_EP_BUFSIZE - 1
<1> DEFINE n == Len(text)
           head == <<REPORT_ID_ADU_CMD_RSP>>
           fill == [i \in 1 .. 7 - n |-> NUL]
           both == head \o text
           full == both \o fill
<1>1. n \in Nat /\ n <= 7 /\ text \in Seq(C)
  BY TypedLength DEF TextInv
<1>2. FullReport = full
  BY DEF FullReport, CFG_TUD_HID_EP_BUFSIZE
<1>3. fill \in Seq(C) /\ Len(fill) = 7 - n /\ \A i \in 1 .. 7 - n : fill[i] = NUL
  <2>1. NUL \in C /\ 7 - n \in Nat
    BY <1>1
  <2> QED
    BY <2>1, Repeated
<1>4. head \in Seq(C) /\ Len(head) = 1 /\ head[1] = REPORT_ID_ADU_CMD_RSP
  OBVIOUS
<1>5. Len(text) = n
  OBVIOUS
<1> HIDE DEF head, fill, n
<1>6. /\ both \in Seq(C) /\ Len(both) = n + 1 /\ both[1] = REPORT_ID_ADU_CMD_RSP
      /\ \A i \in 1 .. n : both[i + 1] = text[i]
  <2>1. /\ both \in Seq(C) /\ Len(both) = 1 + n
        /\ \A i \in 1 .. 1 : both[i] = head[i]
        /\ \A i \in 1 .. n : both[1 + i] = text[i]
    <3>1. IsJoined(both, head, text, C)
      BY <1>1, <1>4, Joined
    <3> HIDE DEF both
    <3> QED
      BY <1>4, <1>5, <3>1, Zenon DEF IsJoined
  <2>2. /\ \A i \in 1 .. n : 1 + i = i + 1
        /\ 1 \in 1 .. 1 /\ 1 + n = n + 1
    BY <1>1
  <2> HIDE DEF both
  <2> QED
    BY <1>1, <1>4, <2>1, <2>2
<1> HIDE DEF both
<1>7. /\ full \in Seq(C) /\ Len(full) = 8 /\ full[1] = REPORT_ID_ADU_CMD_RSP
      /\ \A i \in 1 .. n : full[i + 1] = text[i]
      /\ \A i \in n + 2 .. 8 : full[i] = NUL
  <2>1. n + 1 \in Nat /\ 7 - n \in Nat
    BY <1>1
  <2>2. /\ full \in Seq(C) /\ Len(full) = (n + 1) + (7 - n)
        /\ \A i \in 1 .. n + 1 : full[i] = both[i]
        /\ \A i \in 1 .. 7 - n : full[(n + 1) + i] = fill[i]
    <3>1. IsJoined(full, both, fill, C)
      BY <1>3, <1>6, Joined
    <3> HIDE DEF full
    <3> QED
      BY <1>3, <1>6, <3>1, Zenon DEF IsJoined
  <2> HIDE DEF full
  <2>3. \A i \in n + 2 .. 8 : i - (n + 1) \in 1 .. 7 - n /\ (n + 1) + (i - (n + 1)) = i
    BY <1>1
  <2>4. \A i \in n + 2 .. 8 : full[i] = NUL
    BY <1>3, <2>2, <2>3
  <2>5. \A i \in 1 .. n : i + 1 \in 1 .. n + 1
    BY <1>1
  <2> QED
    BY <1>1, <1>6, <2>2, <2>4, <2>5
<1> HIDE DEF full
<1> DEFINE Holds(r) ==
             /\ r \in Seq(C)
             /\ Len(r) \in Nat /\ 2 <= Len(r) /\ Len(r) <= 8 /\ Len(r) > n
             /\ r[1] = REPORT_ID_ADU_CMD_RSP
             /\ \A i \in 1 .. n : r[i + 1] = text[i]
             /\ (Len(r) >= n + 2 /\ r[n + 2] = NUL) \/ n = 7
<1>8. Holds(full)
  <2>1. n = 7 \/ n + 2 \in n + 2 .. 8
    BY <1>1
  <2>2. 8 \in Nat /\ 2 <= 8 /\ 8 <= 8 /\ 8 > n /\ (n = 7 \/ 8 >= n + 2)
    BY <1>1
  <2> QED
    BY <1>7, <2>1, <2>2
<1>9. ASSUME n < 7 PROVE Holds(SubSeq(full, 1, n + 2))
  <2> DEFINE short == SubSeq(full, 1, n + 2)
  <2>1. n + 2 \in Nat /\ n + 2 <= 8
    BY <1>1, <1>9
  <2>2. /\ short \in Seq(C) /\ Len(short) = n + 2
        /\ \A i \in 1 .. n + 2 : short[i] = full[i]
    <3>1. n + 2 <= Len(full)
      BY <1>7, <2>1
    <3> QED
      BY <1>7, <2>1, <3>1, CutShort, Zenon
  <2> HIDE DEF short
  <2>3. /\ 1 \in 1 .. n + 2 /\ n + 2 \in 1 .. n + 2 /\ n + 2 \in n + 2 .. 8
        /\ \A i \in 1 .. n : i + 1 \in 1 .. n + 2
    BY <1>1, <1>9
  <2>4. /\ short[1] = REPORT_ID_ADU_CMD_RSP /\ short[n + 2] = NUL
        /\ \A i \in 1 .. n : short[i + 1] = text[i]
    BY <1>7, <2>2, <2>3, Zenon
  <2>5. 2 <= n + 2 /\ n + 2 > n /\ n + 2 >= n + 2
    BY <1>1
  <2>6. Holds(short)
    BY <2>1, <2>2, <2>4, <2>5
  <2> QED
    BY <2>6 DEF short
<1>10. report = full \/ (n < 7 /\ report = SubSeq(full, 1, n + 2))
  BY <1>2, <1>5 DEF TerminatedReports, CFG_TUD_HID_EP_BUFSIZE
<1>11. Holds(report)
  BY <1>8, <1>9, <1>10, Zenon
<1> QED
  <2>1. CFG_TUD_HID_EP_BUFSIZE = 8 /\ CFG_TUD_HID_EP_BUFSIZE - 1 = 7
    BY DEF CFG_TUD_HID_EP_BUFSIZE
  <2> QED
    BY <1>5, <1>11, <2>1, Zenon

(* So does the memory behind the ID, once the report has come in. *)
LEMMA MemoryHoldsText ==
  ASSUME TextInv, NEW report \in TerminatedReports, NEW memory \in Memories, NEW C,
         C = TypedChar \union {NUL, REPORT_ID_ADU_CMD_RSP} \union Range(memory)
  PROVE  /\ Over(report, memory) \in Seq(C) /\ Over(report, memory) # <<>>
         /\ Head(Over(report, memory)) = REPORT_ID_ADU_CMD_RSP
         /\ Tail(Over(report, memory)) \in Seq(C)
         /\ HoldsText(Tail(Over(report, memory)))
<1> DEFINE n == Len(text)
           k == Len(report)
           m == Len(memory)
           rest == SubSeq(memory, k + 1, m)
           first == report \o rest
           tail == Tail(first)
<1>1. n \in Nat /\ n <= 7
  BY TypedLength
<1>2. /\ report \in Seq(C) /\ k \in Nat /\ 2 <= k /\ k <= 8 /\ k > n
      /\ report[1] = REPORT_ID_ADU_CMD_RSP
      /\ \A i \in 1 .. n : report[i + 1] = text[i]
      /\ (k >= n + 2 /\ report[n + 2] = NUL) \/ n = 7
  <2>1. TypedChar \union {NUL, REPORT_ID_ADU_CMD_RSP} \subseteq C
    OBVIOUS
  <2>2. CFG_TUD_HID_EP_BUFSIZE = 8 /\ CFG_TUD_HID_EP_BUFSIZE - 1 = 7
    BY DEF CFG_TUD_HID_EP_BUFSIZE
  <2> QED
    BY <2>1, <2>2, ReportHoldsText, Zenon
<1>3. memory \in Seq(C) /\ m \in Nat
  <2>1. memory \in Seq(Range(memory)) /\ Range(memory) \subseteq C
    BY AduManualAssumption
  <2> QED
    BY <2>1
<1>4. PICK nul \in 1 .. m : nul > 8 /\ memory[nul] = NUL
  BY <1>3, AduManualAssumption DEF CFG_TUD_HID_EP_BUFSIZE
<1>5. Over(report, memory) = first
  BY DEF Over
<1> HIDE DEF n, k, m
<1>6. m > 8
  BY <1>3, <1>4
<1>7. /\ rest \in Seq(C) /\ Len(rest) = m - k
      /\ \A i \in 1 .. m - k : rest[i] = memory[k + i]
  BY <1>2, <1>3, <1>6 DEF m
<1> HIDE DEF rest
<1>8. /\ first \in Seq(C) /\ Len(first) = m
      /\ \A i \in 1 .. k : first[i] = report[i]
      /\ \A i \in k + 1 .. m : first[i] = memory[i]
  <2>1. k \in Nat /\ m - k \in Nat /\ k + (m - k) = m
    BY <1>2, <1>3, <1>6
  <2>2. /\ first \in Seq(C) /\ Len(first) = k + (m - k)
        /\ \A i \in 1 .. k : first[i] = report[i]
        /\ \A i \in 1 .. m - k : first[k + i] = rest[i]
    <3>1. IsJoined(first, report, rest, C)
      BY <1>2, <1>7, Joined
    <3> HIDE DEF first
    <3>2. k = Len(report)
      BY DEF k
    <3> QED
      BY <1>7, <3>1, <3>2, Zenon DEF IsJoined
  <2> HIDE DEF first
  <2>3. \A i \in k + 1 .. m : i - k \in 1 .. m - k /\ k + (i - k) = i
    BY <1>2, <1>3
  <2>4. \A i \in k + 1 .. m : first[i] = memory[i]
    BY <1>7, <2>2, <2>3
  <2> QED
    BY <2>1, <2>2, <2>4
<1> HIDE DEF first
<1>9. /\ first # <<>> /\ Head(first) = first[1]
      /\ tail \in Seq(C) /\ Len(tail) = m - 1
      /\ \A i \in 1 .. m - 1 : tail[i] = first[i + 1]
  <2>1. first # <<>>
    BY <1>6, <1>8
  <2> QED
    BY <1>6, <1>8, <2>1, HeadTailProperties
<1>10. first[1] = REPORT_ID_ADU_CMD_RSP
  BY <1>2, <1>8
<1> HIDE DEF tail
<1>11. \A i \in 1 .. n : tail[i] = text[i]
  <2> TAKE i \in 1 .. n
  <2>1. i \in 1 .. m - 1 /\ i + 1 \in 1 .. k
    BY <1>1, <1>2, <1>3, <1>6
  <2> QED
    BY <1>2, <1>8, <1>9, <2>1
<1>12. nul - 1 \in n + 1 .. m - 1 /\ tail[nul - 1] = NUL
  <2>1. nul - 1 \in n + 1 .. m - 1 /\ nul - 1 \in 1 .. m - 1 /\ nul \in k + 1 .. m
        /\ (nul - 1) + 1 = nul
    BY <1>1, <1>2, <1>3, <1>4
  <2> QED
    BY <1>4, <1>8, <1>9, <2>1
<1>13. tail[n + 1] = NUL \/ n > 5
  <2>1. CASE k >= n + 2 /\ report[n + 2] = NUL
    <3>1. n + 1 \in 1 .. m - 1 /\ n + 2 \in 1 .. k /\ (n + 1) + 1 = n + 2
      BY <1>1, <1>2, <1>3, <1>6, <2>1
    <3> QED
      BY <1>8, <1>9, <2>1, <3>1
  <2> QED
    BY <1>2, <2>1
<1>14. HoldsText(tail)
  BY <1>1, <1>3, <1>6, <1>9, <1>11, <1>12, <1>13 DEF HoldsText, n, MAX_CMD_STR_SIZE
<1> QED
  BY <1>5, <1>8, <1>9, <1>10, <1>14 DEF tail

(* Nothing, or the ID alone, comes in over a report and leaves it as it was. *)
LEMMA EmptyReportsChangeNothing ==
  ASSUME NEW C, NEW first \in Seq(C), first # <<>>, Head(first) = REPORT_ID_ADU_CMD_RSP,
         NEW empty \in {<<>>, <<REPORT_ID_ADU_CMD_RSP>>}
  PROVE  Over(empty, first) = first /\ Len(empty) \in {0, 1}
<1>1. Len(first) \in Nat /\ Len(first) > 0 /\ first[1] = REPORT_ID_ADU_CMD_RSP
  BY HeadTailProperties
<1>2. CASE empty = <<>>
  <2>1. Over(empty, first) = SubSeq(first, 1, Len(first))
    <3>1. SubSeq(first, 1, Len(first)) \in Seq(C) /\ Len(empty) = 0
      BY <1>2
    <3> QED
      BY <1>2, <3>1 DEF Over
  <2> QED
    BY <1>2, <2>1
<1>3. CASE empty = <<REPORT_ID_ADU_CMD_RSP>>
  <2> DEFINE rest == Tail(first)
             over == empty \o rest
             n == Len(first) - 1
  <2>1. rest \in Seq(C) /\ Len(rest) = n /\ \A i \in 1 .. n : rest[i] = first[i + 1]
    BY HeadTailProperties
  <2>2. empty \in Seq(C) /\ Len(empty) = 1 /\ empty[1] = first[1]
    <3>1. first[1] \in C
      BY <1>1
    <3> QED
      BY <1>1, <1>3, <3>1
  <2>3. Over(empty, first) = over
    BY <2>2, TailIsSubSeq DEF Over
  <2>4. n \in Nat /\ 1 \in Nat /\ Len(first) = 1 + n
    BY <1>1
  <2> HIDE DEF rest, n
  <2>5. /\ over \in Seq(C) /\ Len(over) = 1 + n
        /\ \A i \in 1 .. 1 : over[i] = empty[i]
        /\ \A i \in 1 .. n : over[1 + i] = rest[i]
    <3>1. IsJoined(over, empty, rest, C)
      BY <2>1, <2>2, Joined
    <3> HIDE DEF over
    <3> QED
      BY <2>1, <2>2, <3>1, Zenon DEF IsJoined
  <2> HIDE DEF over
  <2>6. \A i \in 1 .. Len(over) : over[i] = first[i]
    <3> SUFFICES ASSUME NEW i \in 1 .. 1 + n
                 PROVE  over[i] = first[i]
      BY <2>5
    <3>1. CASE i = 1
      BY <2>2, <2>5, <3>1
    <3>2. CASE i # 1
      <4>1. i - 1 \in 1 .. n /\ 1 + (i - 1) = i /\ (i - 1) + 1 = i
        BY <2>4, <3>2
      <4> DEFINE j == i - 1
      <4>2. over[1 + j] = rest[j] /\ rest[j] = first[j + 1]
        BY <2>1, <2>5, <4>1
      <4> QED
        BY <4>1, <4>2
    <3> QED
      BY <3>1, <3>2
  <2>7. over = first
    BY <2>4, <2>5, <2>6, SeqEqual
  <2> QED
    BY <2>2, <2>3, <2>7
<1> QED
  BY <1>2, <1>3

(***************************************************************************)
(* A report is taken for the command it holds, whatever was in the buffer, *)
(* and an empty one does nothing that was not asked for                    *)
(* (AduProtocol.c:733-758; Usb.c:100-120).                                 *)
(***************************************************************************)
THEOREM ReportsAreTakenAsSent == TypeSpec => []ReportsActAsSent
<1>1. TextInv => ReportsActAsSent
  <2> SUFFICES ASSUME TextInv, NEW memory \in Memories, NEW report \in TerminatedReports
               PROVE  LET first == Over(report, memory)
                      IN /\ ReportCommand(first, Len(report)) = Command(text)
                         /\ \A empty \in {<<>>, <<REPORT_ID_ADU_CMD_RSP>>} :
                              ReportCommand(Over(empty, first), Len(empty))
                                \in {Command(text), Invalid, TooLong}
    BY DEF ReportsActAsSent
  <2> DEFINE C == TypedChar \union {NUL, REPORT_ID_ADU_CMD_RSP} \union Range(memory)
             first == Over(report, memory)
             n == Len(text)
  <2>1. /\ first \in Seq(C) /\ first # <<>> /\ Head(first) = REPORT_ID_ADU_CMD_RSP
        /\ Tail(first) \in Seq(C) /\ HoldsText(Tail(first))
    BY MemoryHoldsText
  <2>2. Len(report) \in Nat /\ 2 <= Len(report) /\ Len(report) <= 8 /\ Len(report) > n
    BY ReportHoldsText DEF CFG_TUD_HID_EP_BUFSIZE
  <2>3. n \in Nat /\ n <= 7
    BY TypedLength
  <2> HIDE DEF C, first
  <2>4. \A len \in Nat :
          /\ len >= n => ProcessBuffer(Tail(first), len) = Command(text)
          /\ len = 0 => ProcessBuffer(Tail(first), len) \in {Command(text), Invalid}
    BY <2>1, TextIsProcessed
  <2>5. \A size : ReportCommand(first, size)
                    = ProcessBuffer(Tail(first), (size + 65535) % 65536)
    BY <2>1 DEF ReportCommand, UINT16_MOD
  <2> HIDE DEF n
  <2>6. ReportCommand(first, Len(report)) = Command(text)
    <3>1. (Len(report) + 65535) % 65536 = Len(report) - 1
      BY <2>2
    <3>2. Len(report) - 1 \in Nat /\ Len(report) - 1 >= n
      BY <2>2, <2>3
    <3> QED
      BY <2>4, <2>5, <3>1, <3>2
  <2>7. ASSUME NEW empty \in {<<>>, <<REPORT_ID_ADU_CMD_RSP>>}
        PROVE  ReportCommand(Over(empty, first), Len(empty)) \in {Command(text), Invalid}
    <3> DEFINE e == Len(empty)
               size == (e + 65535) % 65536
    <3>1. Over(empty, first) = first /\ (e = 0 \/ e = 1)
      BY <2>1, EmptyReportsChangeNothing
    <3> HIDE DEF e
    <3>2. size = 65535 \/ size = 0
      BY <3>1
    <3>3. ReportCommand(Over(empty, first), Len(empty)) = ProcessBuffer(Tail(first), size)
      BY <2>5, <3>1 DEF e
    <3>4. 65535 \in Nat /\ 65535 >= n /\ 0 \in Nat
      BY <2>3
    <3> HIDE DEF size
    <3>5. CASE size = 65535
      BY <2>4, <3>3, <3>4, <3>5
    <3>6. CASE size = 0
      BY <2>4, <3>3, <3>4, <3>6
    <3> QED
      BY <3>2, <3>5, <3>6
  <2> QED
    BY <2>6, <2>7 DEF first
<1> QED
  BY <1>1, TextInvariant, PTL

-----------------------------------------------------------------------------
(* In capitals a text is as long as it was. *)
LEMMA Shouted ==
  ASSUME NEW C, NEW t \in Seq(C)
  PROVE  /\ Len(Shout(t)) = Len(t) /\ DOMAIN Shout(t) = 1 .. Len(t)
         /\ \A i \in 1 .. Len(t) : Shout(t)[i] = Upper(t[i])
         /\ Shout(t) \in Seq({Upper(c) : c \in C})
<1>1. DOMAIN t = 1 .. Len(t) /\ Len(t) \in Nat /\ \A i \in 1 .. Len(t) : t[i] \in C
  OBVIOUS
<1>2. Shout(t) = [i \in 1 .. Len(t) |-> Upper(t[i])]
  BY <1>1 DEF Shout
<1> DEFINE D == {Upper(c) : c \in C}
<1>3. \A i \in 1 .. Len(t) : Upper(t[i]) \in D
  BY <1>1
<1> HIDE DEF D
<1>4. Shout(t) \in Seq(D) /\ Len(Shout(t)) = Len(t)
  BY <1>1, <1>2, <1>3
<1> QED
  BY <1>2, <1>4 DEF D

(* The letters of the prefixes. *)
Capital == {"S", "K", "R", "M", "P", "A", "I", "E", "C", "D", "B", "W"}

(* A prefix is two or three of them. *)
LEMMA PrefixIsShort ==
  ASSUME NEW e \in Entries
  PROVE  /\ Prefix[e] \in Seq(Capital)
         /\ Len(Prefix[e]) = IF e = "RPK" THEN 3 ELSE 2
<1>1. /\ Prefix["SK"] = <<"S", "K">> /\ Prefix["RK"] = <<"R", "K">>
      /\ Prefix["MK"] = <<"M", "K">> /\ Prefix["RPK"] = <<"R", "P", "K">>
      /\ Prefix["PK"] = <<"P", "K">> /\ Prefix["RP"] = <<"R", "P">>
      /\ Prefix["PA"] = <<"P", "A">> /\ Prefix["PI"] = <<"P", "I">>
      /\ Prefix["RE"] = <<"R", "E">> /\ Prefix["RC"] = <<"R", "C">>
      /\ Prefix["DB"] = <<"D", "B">> /\ Prefix["WD"] = <<"W", "D">>
  BY DEF Prefix
<1>2. \A x, y \in Capital : <<x, y>> \in Seq(Capital) /\ Len(<<x, y>>) = 2
  OBVIOUS
<1>3. <<"R", "P", "K">> \in Seq(Capital) /\ Len(<<"R", "P", "K">>) = 3
  BY DEF Capital
<1>4. /\ "S" \in Capital /\ "K" \in Capital /\ "R" \in Capital /\ "M" \in Capital
      /\ "P" \in Capital /\ "A" \in Capital /\ "I" \in Capital /\ "E" \in Capital
      /\ "C" \in Capital /\ "D" \in Capital /\ "B" \in Capital /\ "W" \in Capital
  BY DEF Capital
<1>5. \A x, y \in Capital : \A f \in Entries : Prefix[f] = <<x, y>> =>
        Prefix[f] \in Seq(Capital) /\ Len(Prefix[f]) = 2
  BY <1>2, Zenon
<1>6. Prefix["RPK"] \in Seq(Capital) /\ Len(Prefix["RPK"]) = 3
  BY <1>1, <1>3, Zenon
<1>7. \A f \in Entries \ {"RPK"} : Prefix[f] \in Seq(Capital) /\ Len(Prefix[f]) = 2
  <2> SUFFICES ASSUME NEW f \in Entries \ {"RPK"}
               PROVE  \E x, y \in Capital : Prefix[f] = <<x, y>>
    BY <1>5, ZenonT(60)
  <2>1. f \in {"SK", "RK", "MK", "PK", "RP", "PA", "PI", "RE", "RC", "DB", "WD"}
    BY DEF Entries
  <2> QED
    BY <1>1, <1>4, <2>1, ZenonT(60)
<1>8. CASE e = "RPK"
  BY <1>6, <1>8
<1>9. CASE e # "RPK"
  BY <1>7, <1>9
<1> QED
  BY <1>8, <1>9

(* A text that is found to be the prefix e, and behind it a in any case. *)
Reads(t, e, a, C) ==
  /\ Found(t) /\ Entry(t) = e
  /\ Len(t) = Len(Prefix[e]) + Len(a)
  /\ Arguments(t) \in Seq(C) /\ Len(Arguments(t)) = Len(a)
  /\ \A i \in 1 .. Len(a) : Upper(Arguments(t)[i]) = a[i]

(***************************************************************************)
(* Every text that is a prefix and something else is read so; only RP with *)
(* a K behind it would be another prefix (AduProtocol.c:701-716).          *)
(***************************************************************************)
LEMMA PrefixedTexts ==
  ASSUME NEW C, NEW t \in Seq(C), NEW e \in Entries, NEW A, NEW a \in Seq(A),
         Shout(t) = Prefix[e] \o a,
         e = "RP" => a = <<>> \/ a[1] # "K"
  PROVE  Reads(t, e, a, C)
<1> DEFINE p == Prefix[e]
           k == Len(p)
           n == Len(a)
           D == Capital \union A
<1>1. k = (IF e = "RPK" THEN 3 ELSE 2) /\ k \in Nat /\ n \in Nat
  BY PrefixIsShort
<1>2. IsJoined(p \o a, p, a, D)
  <2>1. p \in Seq(D) /\ a \in Seq(D)
    BY PrefixIsShort
  <2> QED
    BY <2>1, Joined
<1>3. /\ Len(t) = k + n
      /\ \A i \in 1 .. k : Upper(t[i]) = p[i]
      /\ \A i \in 1 .. n : Upper(t[k + i]) = a[i]
  <2> DEFINE s == Shout(t)
  <2>1. /\ Len(s) = k + n
        /\ \A i \in 1 .. k : s[i] = p[i]
        /\ \A i \in 1 .. n : s[k + i] = a[i]
    BY <1>2 DEF IsJoined
  <2>2. /\ Len(s) = Len(t)
        /\ \A i \in 1 .. Len(t) : s[i] = Upper(t[i])
    BY Shouted
  <2> HIDE DEF s, k, n, p
  <2>3. ASSUME NEW i \in 1 .. k PROVE Upper(t[i]) = p[i]
    BY <1>1, <2>1, <2>2
  <2>4. ASSUME NEW i \in 1 .. n PROVE Upper(t[k + i]) = a[i]
    <3>1. k + i \in 1 .. Len(t)
      BY <1>1, <2>1, <2>2
    <3> QED
      BY <2>1, <2>2, <3>1
  <2> QED
    BY <2>1, <2>2, <2>3, <2>4
<1>4. Names(t, e)
  <2>1. /\ HasPrefix(t, p)
    <3>1. Len(t) >= Len(p)
      BY <1>1, <1>3
    <3> QED
      BY <1>3, <3>1 DEF HasPrefix
  <2>2. e = "RP" => ~ (Len(t) >= 3 /\ Upper(t[3]) = "K")
    <3> SUFFICES ASSUME e = "RP", Len(t) >= 3 PROVE Upper(t[3]) # "K"
      OBVIOUS
    <3>1. k = 2 /\ n # 0
      BY <1>1, <1>3
    <3>2. 1 \in 1 .. n /\ 2 + 1 = 3 /\ a # <<>>
      BY <1>1, <3>1
    <3>3. Upper(t[3]) = a[1]
      BY <1>3, <3>1, <3>2
    <3> QED
      BY <3>2, <3>3
  <2>3. \A x, y : HasPrefix(t, <<x, y>>) => Letters(t, x, y)
    BY PrefixLetters, Zenon DEF Letters
  <2>4. HasPrefix(t, <<"R", "P", "K">>) =>
          Letters(t, "R", "P") /\ Len(t) >= 3 /\ Upper(t[3]) = "K"
    <3>1. Len(t) >= 3 => Len(t) >= 2
      OBVIOUS
    <3> QED
      BY <3>1, PrefixLetters, Zenon DEF Letters
  <2>5. /\ Prefix["SK"] = <<"S", "K">> /\ Prefix["RK"] = <<"R", "K">>
        /\ Prefix["MK"] = <<"M", "K">> /\ Prefix["RPK"] = <<"R", "P", "K">>
        /\ Prefix["PK"] = <<"P", "K">> /\ Prefix["RP"] = <<"R", "P">>
        /\ Prefix["PA"] = <<"P", "A">> /\ Prefix["PI"] = <<"P", "I">>
        /\ Prefix["RE"] = <<"R", "E">> /\ Prefix["RC"] = <<"R", "C">>
        /\ Prefix["DB"] = <<"D", "B">> /\ Prefix["WD"] = <<"W", "D">>
    BY DEF Prefix
  <2> QED
    BY <2>1, <2>2, <2>3, <2>4, <2>5, Zenon DEF Names
<1>5. Found(t) /\ Entry(t) = e
  BY <1>4, EntryIsNamed
<1>6. /\ Arguments(t) \in Seq(C) /\ Len(Arguments(t)) = Len(t) - k
      /\ \A i \in 1 .. Len(Arguments(t)) : Arguments(t)[i] = t[k + i]
  BY <1>5, ArgumentsLength
<1> HIDE DEF k, n
<1>7. Len(Arguments(t)) = n
  BY <1>1, <1>3, <1>6
<1> QED
  BY <1>3, <1>5, <1>6, <1>7 DEF Reads, k, n

(* The other way round: what is found is the prefix, what is left the arguments. *)
LEMMA TextIsPrefixAndArguments ==
  ASSUME NEW C, NEW t \in Seq(C), Found(t)
  PROVE  /\ Shout(t) = Prefix[Entry(t)] \o Shout(Arguments(t))
         /\ Entry(t) \in Entries
         /\ Entry(t) = "RP" /\ Len(Arguments(t)) > 0 => Upper(Arguments(t)[1]) # "K"
<1> DEFINE e == Entry(t)
           p == Prefix[e]
           k == Len(p)
           a == Arguments(t)
           n == Len(a)
           D == Capital \union {Upper(c) : c \in C}
           s == Shout(t)
           b == Shout(a)
           j == p \o b
<1>1. e \in Entries
  BY EntryIsListed DEF Entries
<1>2. /\ a \in Seq(C) /\ n = Len(t) - k /\ k = IF e = "RPK" THEN 3 ELSE 2
      /\ \A i \in 1 .. n : a[i] = t[k + i]
  BY ArgumentsLength
<1>3. /\ Len(s) = Len(t) /\ \A i \in 1 .. Len(t) : s[i] = Upper(t[i])
      /\ Len(b) = n /\ \A i \in 1 .. n : b[i] = Upper(a[i])
      /\ s \in Seq(D) /\ b \in Seq(D) /\ p \in Seq(D)
  <2>1. /\ Len(s) = Len(t) /\ \A i \in 1 .. Len(t) : s[i] = Upper(t[i])
        /\ Len(b) = n /\ \A i \in 1 .. n : b[i] = Upper(a[i])
    BY <1>2, Shouted, Zenon
  <2>2. /\ s \in Seq({Upper(c) : c \in C}) /\ b \in Seq({Upper(c) : c \in C})
        /\ p \in Seq(Capital)
    <3>1. p \in Seq(Capital)
      BY <1>1, PrefixIsShort
    <3>2. s \in Seq({Upper(c) : c \in C}) /\ b \in Seq({Upper(c) : c \in C})
      BY <1>2, Shouted, Zenon
    <3> QED
      BY <3>1, <3>2
  <2>3. \A E, F : \A q \in Seq(E) : q \in Seq(E \union F)
    OBVIOUS
  <2>4. {Upper(c) : c \in C} \union Capital = D
    OBVIOUS
  <2> QED
    <3> DEFINE U == {Upper(c) : c \in C}
    <3> HIDE DEF U, s, b, p
    <3>1. s \in Seq(U \union Capital) /\ b \in Seq(U \union Capital)
          /\ p \in Seq(Capital \union U)
      BY <2>2, <2>3, Zenon DEF U
    <3>2. U \union Capital = D /\ Capital \union U = D
      BY DEF U
    <3> QED
      BY <2>1, <3>1, <3>2
<1>4. Names(t, e) /\ n \in Nat /\ k \in Nat /\ Len(t) \in Nat
  BY <1>2, EntryIsNamed
<1>5. \A i \in 1 .. k : Upper(t[i]) = p[i]
  <2>1. \A x, y : /\ <<x, y>>[1] = x /\ <<x, y>>[2] = y
    OBVIOUS
  <2>2. /\ <<"R", "P", "K">>[1] = "R" /\ <<"R", "P", "K">>[2] = "P"
        /\ <<"R", "P", "K">>[3] = "K"
    OBVIOUS
  <2>3. HasPrefix(t, p)
    <3>1. Matching(t) \subseteq 1 .. 12
      BY MatchingEntries
    <3>2. Min(Matching(t)) \in Matching(t)
      BY <3>1, LeastIsThere DEF Found
    <3> QED
      BY <3>2 DEF Matching, Entry
  <2> QED
    BY <2>3 DEF HasPrefix
<1>6. IsJoined(j, p, b, D)
  BY <1>3, Joined
<1>7. /\ j \in Seq(D) /\ Len(j) = k + n
      /\ \A i \in 1 .. k : j[i] = p[i]
      /\ \A i \in 1 .. n : j[k + i] = b[i]
  BY <1>3, <1>6 DEF IsJoined
<1>8. e = "RP" /\ n > 0 => Upper(a[1]) # "K"
  <2> SUFFICES ASSUME e = "RP", n > 0 PROVE Upper(a[1]) # "K"
    OBVIOUS
  <2> HIDE DEF n, k, a, e
  <2>1. k = 2 /\ Len(t) >= 3 /\ 1 \in 1 .. n /\ 2 + 1 = 3
    BY <1>2, <1>4
  <2>2. a[1] = t[3]
    BY <1>2, <2>1
  <2>3. ~ (Len(t) >= 3 /\ Upper(t[3]) = "K")
    BY <1>4 DEF Names
  <2> QED
    BY <2>1, <2>2, <2>3
<1> HIDE DEF n, k, s, j, b, p, a, D, e
<1>9. \A i \in 1 .. Len(t) : s[i] = j[i]
  <2> SUFFICES ASSUME NEW i \in 1 .. Len(t) PROVE s[i] = j[i]
    OBVIOUS
  <2>1. CASE i <= k
    <3>1. i \in 1 .. k
      BY <1>4, <2>1
    <3> QED
      BY <1>3, <1>5, <1>7, <3>1
  <2>2. CASE ~ (i <= k)
    <3>1. i - k \in 1 .. n /\ k + (i - k) = i
      BY <1>2, <1>4, <2>2
    <3> DEFINE m == i - k
    <3>2. j[k + m] = b[m] /\ b[m] = Upper(a[m]) /\ a[m] = t[k + m]
      BY <1>2, <1>3, <1>7, <3>1
    <3> QED
      BY <1>3, <3>1, <3>2
  <2> QED
    BY <2>1, <2>2
<1>10. Len(s) = Len(t) /\ Len(j) = Len(t)
  BY <1>2, <1>3, <1>4, <1>7
<1>11. s = j
  BY <1>3, <1>4, <1>7, <1>9, <1>10, SeqEqual
<1> QED
  BY <1>1, <1>8, <1>11 DEF s, j, b, p, a, e, n

(* Which reading of the arguments belongs to which prefix (AduProtocol.c:701-716). *)
LEMMA HandlersRead ==
  ASSUME NEW t, Found(t)
  PROVE  LET e == Entry(t)
             args == Arguments(t)
         IN /\ e = "SK" => Processed(t) = ReadIndex("SK", args, NUM_RELAYS)
            /\ e = "RK" => Processed(t) = ReadIndex("RK", args, NUM_RELAYS)
            /\ e = "RPK" => Processed(t) = ReadIndex("RPK", args, NUM_RELAYS)
            /\ e = "RE" => Processed(t) = ReadIndex("RE", args, EVENT_COUNTER_NUM_COUNTERS)
            /\ e = "RC" => Processed(t) = ReadIndex("RC", args, EVENT_COUNTER_NUM_COUNTERS)
            /\ e = "DB" => Processed(t) = ReadSetting("DB", "DBn", args,
                                                      DEBOUNCE_SETTING_NUM_SETTINGS)
            /\ e = "WD" => Processed(t) = ReadSetting("WD", "WDn", args,
                                                      WATCHDOG_SETTING_NUM_SETTINGS)
            /\ e = "MK" => Processed(t) = ReadPortValue(args)
            /\ e = "PK" => Processed(t) = ReadNothing("PK", args)
            /\ e = "PI" => Processed(t) = ReadNothing("PI", args)
            /\ e = "PA" => Processed(t) = ReadPort("PA", args)
            /\ e = "RP" /\ Len(args) = 2 => Processed(t) = ReadPortLine(args)
            /\ e = "RP" /\ Len(args) # 2 => Processed(t) = ReadPort("RP", args)
<1> DEFINE e == Entry(t)
           args == Arguments(t)
<1>1. Processed(t) =
        CASE e \in {"SK", "RK", "RPK"} -> ReadIndex(e, args, NUM_RELAYS)
          [] e = "MK" -> ReadPortValue(args)
          [] e \in {"PK", "PI"} -> ReadNothing(e, args)
          [] e = "RP" /\ Len(args) = 2 -> ReadPortLine(args)
          [] e = "RP" /\ Len(args) # 2 -> ReadPort("RP", args)
          [] e = "PA" -> ReadPort("PA", args)
          [] e \in {"RE", "RC"} -> ReadIndex(e, args, EVENT_COUNTER_NUM_COUNTERS)
          [] e = "DB" -> ReadSetting("DB", "DBn", args, DEBOUNCE_SETTING_NUM_SETTINGS)
          [] e = "WD" -> ReadSetting("WD", "WDn", args, WATCHDOG_SETTING_NUM_SETTINGS)
  BY DEF Processed
<1>2. e \in {"SK", "RK", "MK", "RPK", "PK", "RP", "PA", "PI", "RE", "RC", "DB", "WD"}
  BY EntryIsListed
<1> HIDE DEF e, args
<1>3. /\ e = "SK" => Processed(t) = ReadIndex("SK", args, NUM_RELAYS)
      /\ e = "RK" => Processed(t) = ReadIndex("RK", args, NUM_RELAYS)
      /\ e = "RPK" => Processed(t) = ReadIndex("RPK", args, NUM_RELAYS)
      /\ e = "RE" => Processed(t) = ReadIndex("RE", args, EVENT_COUNTER_NUM_COUNTERS)
      /\ e = "RC" => Processed(t) = ReadIndex("RC", args, EVENT_COUNTER_NUM_COUNTERS)
      /\ e = "DB" => Processed(t) = ReadSetting("DB", "DBn", args,
                                                DEBOUNCE_SETTING_NUM_SETTINGS)
      /\ e = "WD" => Processed(t) = ReadSetting("WD", "WDn", args,
                                                WATCHDOG_SETTING_NUM_SETTINGS)
  BY <1>1
<1>4. /\ e = "MK" => Processed(t) = ReadPortValue(args)
      /\ e = "PK" => Processed(t) = ReadNothing("PK", args)
      /\ e = "PI" => Processed(t) = ReadNothing("PI", args)
      /\ e = "PA" => Processed(t) = ReadPort("PA", args)
      /\ e = "RP" /\ Len(args) = 2 => Processed(t) = ReadPortLine(args)
      /\ e = "RP" /\ Len(args) # 2 => Processed(t) = ReadPort("RP", args)
  BY <1>1
<1> QED
  BY <1>3, <1>4 DEF e, args

(* The digit that stands for a number, typed. *)
LEMMA TypedDigit ==
  ASSUME NEW n \in Nat
  PROVE  /\ n % 10 \in 0 .. 9 /\ n % 10 <= n
         /\ DigitOf(n % 10) = DigitOf(n) /\ DigitOf(n) \in Digit
         /\ DigitValue(DigitOf(n)) = n % 10
         /\ \A c : Upper(c) = DigitOf(n) => c = DigitOf(n)
<1> DEFINE m == n % 10
<1>1. m \in 0 .. 9 /\ m <= n
  OBVIOUS
<1>2. DigitOf(n) = Digits[m + 1]
  BY DEF DigitOf
<1>3. DigitOf(m) = Digits[(m % 10) + 1]
  BY DEF DigitOf
<1> HIDE DEF m
<1>4. m % 10 = m
  BY <1>1
<1>5. DigitOf(n) \in Digit /\ DigitValue(DigitOf(n)) = m
  BY <1>1, <1>2, DigitValues
<1>6. \A c : Upper(c) = DigitOf(n) => c = DigitOf(n)
  BY <1>5, DigitsHaveNoCase
<1> QED
  BY <1>1, <1>2, <1>3, <1>4, <1>5, <1>6 DEF m

(* One such digit below a limit is read as a number below it. *)
LEMMA DigitIsRead ==
  ASSUME NEW C, NEW args \in Seq(C), Len(args) = 1, NEW limit \in Nat,
         NEW n \in 0 .. limit - 1, Upper(args[1]) = DigitOf(n)
  PROVE  /\ n % 10 \in 0 .. limit - 1 /\ DigitOf(n % 10) = DigitOf(n)
         /\ Converted(args) /\ Value(args) = n % 10
<1>1. n \in Nat /\ n < limit
  OBVIOUS
<1>2. /\ n % 10 \in 0 .. 9 /\ n % 10 <= n /\ DigitOf(n % 10) = DigitOf(n)
      /\ DigitOf(n) \in Digit /\ DigitValue(DigitOf(n)) = n % 10 /\ args[1] = DigitOf(n)
  BY <1>1, TypedDigit
<1> DEFINE m == n % 10
<1> HIDE DEF m
<1>3. m \in 0 .. limit - 1
  <2>1. m \in 0 .. 9 /\ m <= n
    BY <1>2 DEF m
  <2> QED
    BY <1>1, <2>1
<1> QED
  BY <1>2, <1>3, OneCharacter DEF m

(* A prefix and a digit. *)
LEMMA NumberedIsObeyed ==
  ASSUME NEW C, NEW t \in Seq(C), NEW e \in Entries \ {"RP"}, NEW limit \in Nat, NEW op,
         NEW get,
         Found(t) /\ Entry(t) = e =>
           \/ Processed(t) = ReadIndex(op, Arguments(t), limit)
           \/ Processed(t) = ReadSetting(get, op, Arguments(t), limit),
         NEW d \in Numbered(Prefix[e], limit, op), d[1] = Shout(t)
  PROVE  <<Shout(t), Command(t)>> \in Numbered(Prefix[e], limit, op)
<1>1. PICK n \in 0 .. limit - 1 : d = <<Prefix[e] \o <<DigitOf(n)>>, [op |-> op, n |-> n]>>
  BY DEF Numbered
<1> DEFINE a == <<DigitOf(n)>>
           args == Arguments(t)
<1>2. Shout(t) = Prefix[e] \o a
  BY <1>1
<1>3. a \in Seq({DigitOf(n)}) /\ Len(a) = 1 /\ a[1] = DigitOf(n)
  OBVIOUS
<1> HIDE DEF a
<1>0. e \in Entries /\ e # "RP"
  OBVIOUS
<1>4. /\ Found(t) /\ Entry(t) = e
      /\ Len(t) = Len(Prefix[e]) + Len(a)
      /\ args \in Seq(C) /\ Len(args) = Len(a)
      /\ \A i \in 1 .. Len(a) : Upper(args[i]) = a[i]
  <2>1. e = "RP" => a = <<>> \/ a[1] # "K"
    BY <1>0
  <2>2. Reads(t, e, a, C)
    BY <1>0, <1>2, <1>3, <2>1, PrefixedTexts
  <2> QED
    BY <2>2, Zenon DEF Reads
<1>5. Len(args) = 1 /\ Upper(args[1]) = DigitOf(n)
  <2>1. 1 \in 1 .. 1
    OBVIOUS
  <2> QED
    BY <1>3, <1>4, <2>1
<1> HIDE DEF args
<1>6. /\ n % 10 \in 0 .. limit - 1 /\ DigitOf(n % 10) = DigitOf(n)
      /\ Converted(args) /\ Value(args) = n % 10
  BY <1>4, <1>5, DigitIsRead
<1> DEFINE m == n % 10
<1>7. Command(t) = [op |-> op, n |-> m]
  <2>1. Len(t) = 3 \/ Len(t) = 4
    BY <1>3, <1>4, PrefixIsShort
  <2>2. Command(t) = Processed(t)
    <3>1. \A k : k = 3 \/ k = 4 => ~ (k > 5)
      OBVIOUS
    <3> QED
      BY <2>1, <3>1, Zenon DEF Command, MAX_CMD_STR_SIZE
  <2> HIDE DEF m
  <2>3. m \in 0 .. limit - 1 /\ Converted(args) /\ Value(args) = m
    BY <1>6 DEF m
  <2>4. ReadIndex(op, args, limit) = [op |-> op, n |-> m]
    BY <1>5, <2>3 DEF ReadIndex
  <2>5. ReadSetting(get, op, args, limit) = [op |-> op, n |-> m]
    BY <1>5, <2>3 DEF ReadSetting
  <2> QED
    BY <1>4, <2>2, <2>4, <2>5 DEF args
<1> HIDE DEF m
<1>8. m \in 0 .. limit - 1 /\ DigitOf(m) = DigitOf(n)
  BY <1>6 DEF m
<1> QED
  BY <1>2, <1>7, <1>8 DEF Numbered, a

(* The decimal strings of a number, spelled out. *)
LEMMA DecimalStrings ==
  ASSUME NEW n \in Nat, NEW ddd
  PROVE  ddd \in DecimalOf(n) <=>
           \/ n < 1000 /\ ddd = <<DigitOf(n \div 100), DigitOf(n \div 10), DigitOf(n)>>
           \/ n < 100 /\ ddd = <<DigitOf(n \div 10), DigitOf(n)>>
           \/ n < 10 /\ ddd = <<DigitOf(n)>>
<1> DEFINE x == DigitOf(n \div 100)
           y == DigitOf(n \div 10)
           z == DigitOf(n)
           full == <<x, y, z>>
           P(k) == n < 10 ^ (4 - k) /\ ddd = SubSeq(full, k, 3)
<1>1. /\ SubSeq(full, 1, 3) = full
      /\ SubSeq(full, 2, 3) = <<y, z>> /\ SubSeq(full, 3, 3) = <<z>>
  <2>1. /\ full \in Seq({x, y, z}) /\ Len(full) = 3
        /\ full[1] = x /\ full[2] = y /\ full[3] = z
    OBVIOUS
  <2> HIDE DEF full
  <2>2. \A k \in 1 .. 3 : /\ SubSeq(full, k, 3) \in Seq({x, y, z})
                          /\ Len(SubSeq(full, k, 3)) = 4 - k
                          /\ \A i \in 1 .. 4 - k : SubSeq(full, k, 3)[i] = full[k + i - 1]
    BY <2>1
  <2>3. SubSeq(full, 1, 3) = full
    BY <2>1, SubSeqFull
  <2>4. SubSeq(full, 2, 3) = <<y, z>>
    <3> DEFINE q == SubSeq(full, 2, 3)
    <3>1. q \in Seq({x, y, z}) /\ Len(q) = 2 /\ q[1] = y /\ q[2] = z
      BY <2>1, <2>2
    <3> HIDE DEF q
    <3>2. q = <<y, z>>
      BY <3>1
    <3> QED
      BY <3>2 DEF q
  <2>5. SubSeq(full, 3, 3) = <<z>>
    <3> DEFINE q == SubSeq(full, 3, 3)
    <3>1. q \in Seq({x, y, z}) /\ Len(q) = 1 /\ q[1] = z
      BY <2>1, <2>2
    <3> HIDE DEF q
    <3>2. q = <<z>>
      BY <3>1
    <3> QED
      BY <3>2 DEF q
  <2> QED
    BY <2>3, <2>4, <2>5
<1>2. 10 ^ (4 - 1) = 1000 /\ 10 ^ (4 - 2) = 100 /\ 10 ^ (4 - 3) = 10
  BY Z3
<1>3. 1 .. 3 = {1, 2, 3}
  OBVIOUS
<1>4. DecimalOf(n) = {SubSeq(full, k, 3) : k \in {k \in 1 .. 3 : n < 10 ^ (4 - k)}}
  BY DEF DecimalOf
<1> HIDE DEF x, y, z, full
<1>5. ddd \in DecimalOf(n) <=> \E k \in {1, 2, 3} : P(k)
  BY <1>3, <1>4, Zenon
<1>6. P(1) <=> n < 1000 /\ ddd = full
  BY <1>1, <1>2, Zenon
<1>7. P(2) <=> n < 100 /\ ddd = <<y, z>>
  BY <1>1, <1>2, Zenon
<1>8. P(3) <=> n < 10 /\ ddd = <<z>>
  BY <1>1, <1>2, Zenon
<1> HIDE DEF P
<1>9. ddd \in DecimalOf(n) <=> P(1) \/ P(2) \/ P(3)
  BY <1>5, Zenon
<1> QED
  BY <1>6, <1>7, <1>8, <1>9, Zenon DEF x, y, z, full

(* They stand for that number, *)
LEMMA DecimalStandsForNumber ==
  ASSUME NEW n \in Nat, NEW ddd \in DecimalOf(n)
  PROVE  ddd \in Seq(Digit) /\ Len(ddd) \in 1 .. 3 /\ NumberOf(ddd) = n
<1> DEFINE a == n \div 10
           b == n \div 100
<1>1. a \in Nat /\ b \in Nat /\ b = a \div 10
  OBVIOUS
<1>2. n = 10 * a + (n % 10) /\ a = 10 * (a \div 10) + (a % 10)
  <2>1. \A m \in Nat : m = 10 * (m \div 10) + (m % 10)
    OBVIOUS
  <2> QED
    BY <1>1, <2>1
<1>3. /\ n < 1000 => b < 10
      /\ n < 100 => a < 10
  OBVIOUS
<1>4. \A m \in Nat : m < 10 => m % 10 = m
  OBVIOUS
<1>5. \A m \in Nat : DigitOf(m) \in Digit /\ DigitValue(DigitOf(m)) = m % 10
  BY TypedDigit
<1> HIDE DEF a, b
<1>6. \/ n < 1000 /\ ddd = <<DigitOf(b), DigitOf(a), DigitOf(n)>>
      \/ n < 100 /\ ddd = <<DigitOf(a), DigitOf(n)>>
      \/ n < 10 /\ ddd = <<DigitOf(n)>>
  BY DecimalStrings DEF a, b
<1>7. CASE n < 1000 /\ ddd = <<DigitOf(b), DigitOf(a), DigitOf(n)>>
  <2>1. ddd \in Seq(Digit) /\ Len(ddd) = 3 /\ Len(ddd) \in 1 .. 3
        /\ ddd[1] = DigitOf(b) /\ ddd[2] = DigitOf(a) /\ ddd[3] = DigitOf(n)
    BY <1>1, <1>5, <1>7
  <2>2. NumberOf(ddd) = 100 * DigitValue(ddd[1]) + 10 * DigitValue(ddd[2])
                       + DigitValue(ddd[3])
    BY <2>1, NumberIsSum, ZenonT(60) DEF IsSum
  <2>3. NumberOf(ddd) = 100 * (b % 10) + 10 * (a % 10) + (n % 10)
    BY <1>1, <1>5, <2>1, <2>2
  <2>4. b % 10 = b
    BY <1>1, <1>3, <1>4, <1>7
  <2>5. n % 10 \in Nat /\ a % 10 \in Nat
    BY <1>1
  <2> QED
    BY <1>1, <1>2, <2>1, <2>3, <2>4, <2>5
<1>8. CASE n < 100 /\ ddd = <<DigitOf(a), DigitOf(n)>>
  <2>1. ddd \in Seq(Digit) /\ Len(ddd) = 2 /\ Len(ddd) \in 1 .. 3
        /\ ddd[1] = DigitOf(a) /\ ddd[2] = DigitOf(n)
    BY <1>1, <1>5, <1>8
  <2>2. NumberOf(ddd) = 10 * DigitValue(ddd[1]) + DigitValue(ddd[2])
    BY <2>1, NumberIsSum DEF IsSum
  <2>3. NumberOf(ddd) = 10 * (a % 10) + (n % 10)
    BY <1>1, <1>5, <2>1, <2>2
  <2>4. a % 10 = a
    BY <1>1, <1>3, <1>4, <1>8
  <2> QED
    BY <1>2, <2>1, <2>3, <2>4
<1>9. CASE n < 10 /\ ddd = <<DigitOf(n)>>
  <2>1. ddd \in Seq(Digit) /\ Len(ddd) = 1 /\ Len(ddd) \in 1 .. 3 /\ ddd[1] = DigitOf(n)
    BY <1>5, <1>9
  <2>2. NumberOf(ddd) = DigitValue(ddd[1])
    BY <2>1, NumberIsSum DEF IsSum
  <2> QED
    BY <1>4, <1>5, <1>9, <2>1, <2>2
<1> QED
  BY <1>6, <1>7, <1>8, <1>9

(* and digits are among the strings of the number they stand for. *)
LEMMA DigitsAreDecimal ==
  ASSUME NEW ddd \in Seq(Digit), Len(ddd) \in 1 .. 3
  PROVE  NumberOf(ddd) \in Nat /\ ddd \in DecimalOf(NumberOf(ddd))
<1> DEFINE len == Len(ddd)
           N == NumberOf(ddd)
           v(i) == DigitValue(ddd[i])
<1>1. /\ \A i \in 1 .. len : ddd[i] \in Digit /\ v(i) \in 0 .. 9
      /\ len = 1 => N = v(1)
      /\ len = 2 => N = 10 * v(1) + v(2)
      /\ len = 3 => N = 100 * v(1) + 10 * v(2) + v(3)
      /\ N \in Nat
  <2>1. len = Len(ddd) /\ len \in 1 .. 3
    OBVIOUS
  <2> HIDE DEF len
  <2>2. IsSum(ddd, len, N)
    BY <2>1, NumberIsSum
  <2> HIDE DEF N
  <2> QED
    BY <2>2, Zenon DEF IsSum
<1>2. \A m \in Nat : DigitOf(m) = Digits[(m % 10) + 1]
  BY DEF DigitOf
<1>3. \A i \in 1 .. len : Digits[v(i) + 1] = ddd[i]
  BY <1>1, DigitValues
<1>4. len = 1 \/ len = 2 \/ len = 3
  OBVIOUS
<1>5. Len(ddd) = len
  OBVIOUS
<1> HIDE DEF N, v, len
<1>6. CASE len = 1
  <2>1. 1 \in 1 .. len
    BY <1>6
  <2> DEFINE x == v(1)
  <2>2. x \in 0 .. 9 /\ N = x /\ Digits[x + 1] = ddd[1]
    BY <1>1, <1>3, <1>6, <2>1
  <2> HIDE DEF x
  <2>3. N < 10 /\ N % 10 = x
    BY <2>2
  <2>4. DigitOf(N) = ddd[1]
    BY <1>1, <1>2, <2>2, <2>3
  <2>5. ddd = <<ddd[1]>>
    BY <1>5, <1>6
  <2> QED
    BY <1>1, <2>3, <2>4, <2>5, DecimalStrings DEF N
<1>7. CASE len = 2
  <2>1. 1 \in 1 .. len /\ 2 \in 1 .. len
    BY <1>7
  <2> DEFINE x == v(1)
             y == v(2)
  <2>2. /\ x \in 0 .. 9 /\ y \in 0 .. 9 /\ N = 10 * x + y
        /\ Digits[x + 1] = ddd[1] /\ Digits[y + 1] = ddd[2]
    BY <1>1, <1>3, <1>7, <2>1
  <2> HIDE DEF x, y
  <2>3. N < 100 /\ N % 10 = y /\ N \div 10 = x /\ x % 10 = x /\ x \in Nat
    BY <2>2
  <2>4. DigitOf(N) = ddd[2] /\ DigitOf(N \div 10) = ddd[1]
    BY <1>1, <1>2, <2>2, <2>3, Zenon
  <2>5. ddd = <<ddd[1], ddd[2]>>
    BY <1>5, <1>7
  <2> QED
    BY <1>1, <2>3, <2>4, <2>5, DecimalStrings DEF N
<1>8. CASE len = 3
  <2>1. 1 \in 1 .. len /\ 2 \in 1 .. len /\ 3 \in 1 .. len
    BY <1>8
  <2> DEFINE x == v(1)
             y == v(2)
             z == v(3)
  <2>2. /\ x \in 0 .. 9 /\ y \in 0 .. 9 /\ z \in 0 .. 9 /\ N = 100 * x + 10 * y + z
        /\ Digits[x + 1] = ddd[1] /\ Digits[y + 1] = ddd[2] /\ Digits[z + 1] = ddd[3]
    BY <1>1, <1>3, <1>8, <2>1
  <2> HIDE DEF x, y, z
  <2>3. N < 1000 /\ N % 10 = z /\ N \div 10 = 10 * x + y /\ N \div 100 = x
    BY <2>2
  <2>4. (10 * x + y) % 10 = y /\ x % 10 = x /\ 10 * x + y \in Nat /\ x \in Nat
    BY <2>2
  <2>5. DigitOf(N) = ddd[3] /\ DigitOf(N \div 10) = ddd[2] /\ DigitOf(N \div 100) = ddd[1]
    BY <1>1, <1>2, <2>2, <2>3, <2>4, ZenonT(60)
  <2>6. ddd = <<ddd[1], ddd[2], ddd[3]>>
    BY <1>5, <1>8
  <2> QED
    BY <1>1, <2>3, <2>5, <2>6, DecimalStrings DEF N
<1> QED
  BY <1>1, <1>4, <1>6, <1>7, <1>8 DEF N

(* A text of at most five characters is processed. *)
LEMMA ShortTextIsProcessed ==
  ASSUME NEW t, Len(t) \in Nat, Len(t) <= 5
  PROVE  Command(t) = Processed(t)
<1>1. \A k \in Nat : k <= 5 => ~ (k > 5)
  OBVIOUS
<1> QED
  BY <1>1, Zenon DEF Command, MAX_CMD_STR_SIZE

(* No argument at all. *)
LEMMA BarePrefixIsObeyed ==
  ASSUME NEW C, NEW t \in Seq(C), NEW e \in {"PK", "PI", "DB", "WD"}, Shout(t) = Prefix[e]
  PROVE  Command(t) = [op |-> e]
<1> DEFINE args == Arguments(t)
<1>1. e \in Entries /\ e # "RP" /\ e # "RPK"
  BY DEF Entries
<1>2. Prefix[e] \in Seq(Capital) /\ Len(Prefix[e]) = 2
  BY <1>1, PrefixIsShort
<1>3. Shout(t) = Prefix[e] \o <<>>
  BY <1>2
<1>4. Reads(t, e, <<>>, C)
  <2>1. <<>> \in Seq(C) /\ (e = "RP" => <<>> = <<>> \/ <<>>[1] # "K")
    OBVIOUS
  <2> QED
    BY <1>1, <1>3, <2>1, PrefixedTexts
<1>5. /\ Found(t) /\ Entry(t) = e /\ Len(t) = 2
      /\ args = <<>> /\ Len(args) = 0
  <2>1. Len(<<>>) = 0
    OBVIOUS
  <2>2. args \in Seq(C) /\ Len(args) = 0 /\ Len(t) = Len(Prefix[e]) + 0
        /\ Found(t) /\ Entry(t) = e
    BY <1>4, <2>1, Zenon DEF Reads
  <2> QED
    BY <1>2, <2>2
<1>6. Command(t) = Processed(t)
  <2>1. 2 \in Nat /\ 2 <= 5
    OBVIOUS
  <2> QED
    BY <1>5, <2>1, ShortTextIsProcessed, Zenon
<1>7. \/ Processed(t) = ReadNothing(e, args)
      \/ \E set, limit : Processed(t) = ReadSetting(e, set, args, limit)
  BY <1>5, HandlersRead, Zenon
<1>8. ReadNothing(e, args) = [op |-> e]
  BY <1>5, Zenon DEF ReadNothing
<1>9. \A set, limit : ReadSetting(e, set, args, limit) = [op |-> e]
  BY <1>5 DEF ReadSetting
<1> QED
  BY <1>6, <1>7, <1>8, <1>9, Zenon

(* A prefix and a port. *)
LEMMA PortIsObeyed ==
  ASSUME NEW C, NEW t \in Seq(C), NEW e \in {"RP", "PA"}, NEW y \in {"A", "B"},
         Shout(t) = Prefix[e] \o <<y>>
  PROVE  Command(t) = [op |-> e, port |-> y]
<1> DEFINE args == Arguments(t)
           a == <<y>>
<1>1. e \in Entries /\ e # "RPK"
  BY DEF Entries
<1>2. Len(Prefix[e]) = 2
  BY <1>1, PrefixIsShort
<1>3. a \in Seq({y}) /\ Len(a) = 1 /\ a[1] = y /\ y # "K"
  OBVIOUS
<1>4. Reads(t, e, a, C)
  BY <1>1, <1>3, PrefixedTexts
<1> HIDE DEF a
<1>5. /\ Found(t) /\ Entry(t) = e /\ Len(t) = 3
      /\ Len(args) = 1 /\ Upper(args[1]) = y
  <2>1. 1 \in 1 .. 1 /\ 2 + 1 = 3
    OBVIOUS
  <2> QED
    BY <1>2, <1>3, <1>4, <2>1, Zenon DEF Reads
<1>6. Command(t) = Processed(t)
  <2>1. 3 \in Nat /\ 3 <= 5
    OBVIOUS
  <2> QED
    BY <1>5, <2>1, ShortTextIsProcessed, Zenon
<1>7. Processed(t) = ReadPort(e, args)
  <2>1. 1 # 2
    OBVIOUS
  <2> QED
    BY <1>5, <2>1, HandlersRead, Zenon
<1>8. ReadPort(e, args) = [op |-> e, port |-> y]
  BY <1>5, Zenon DEF ReadPort, IsInputPort
<1> QED
  BY <1>6, <1>7, <1>8

(* What is left of two elements behind the first. *)
LEMMA TailOfTwo ==
  ASSUME NEW C, NEW q \in Seq(C), Len(q) = 2
  PROVE  Tail(q) \in Seq(C) /\ Len(Tail(q)) = 1 /\ Tail(q)[1] = q[2]
<1>1. 2 # 0 /\ 2 - 1 = 1 /\ 1 \in 1 .. 1 /\ 1 + 1 = 2 /\ Len(<<>>) = 0
  OBVIOUS
<1>2. q # <<>> => /\ Tail(q) \in Seq(C) /\ Len(Tail(q)) = Len(q) - 1
                  /\ \A i \in 1 .. Len(Tail(q)) : Tail(q)[i] = q[i + 1]
  BY HeadTailProperties
<1> QED
  BY <1>1, <1>2, Zenon

(* RPyn *)
LEMMA PortLineIsObeyed ==
  ASSUME NEW C, NEW t \in Seq(C), NEW y \in {"A", "B"},
         NEW n \in 0 .. INPUT_PORT_NUM_PINS - 1,
         Shout(t) = Prefix["RP"] \o <<y, DigitOf(n)>>
  PROVE  /\ Command(t) = [op |-> "RPn", port |-> y, n |-> n % 10]
         /\ n % 10 \in 0 .. INPUT_PORT_NUM_PINS - 1 /\ DigitOf(n % 10) = DigitOf(n)
<1> DEFINE args == Arguments(t)
           a == <<y, DigitOf(n)>>
           m == n % 10
<1>1. "RP" \in Entries
  BY DEF Entries
<1>2. Len(Prefix["RP"]) = 2
  BY <1>1, PrefixIsShort
<1>3. /\ a \in Seq({y, DigitOf(n)}) /\ Len(a) = 2 /\ a[1] = y /\ a[2] = DigitOf(n)
      /\ y # "K"
  OBVIOUS
<1>4. Reads(t, "RP", a, C)
  BY <1>1, <1>3, PrefixedTexts
<1> HIDE DEF a
<1>5. /\ Found(t) /\ Entry(t) = "RP" /\ Len(t) = 4
      /\ args \in Seq(C) /\ Len(args) = 2
      /\ Upper(args[1]) = y /\ Upper(args[2]) = DigitOf(n)
  <2>1. 1 \in 1 .. 2 /\ 2 \in 1 .. 2 /\ 2 + 2 = 4
    OBVIOUS
  <2> QED
    BY <1>2, <1>3, <1>4, <2>1, Zenon DEF Reads
<1>6. Command(t) = Processed(t)
  <2>1. 4 \in Nat /\ 4 <= 5
    OBVIOUS
  <2> QED
    BY <1>5, <2>1, ShortTextIsProcessed, Zenon
<1>7. Processed(t) = ReadPortLine(args)
  BY <1>5, HandlersRead, Zenon
<1>8. Tail(args) \in Seq(C) /\ Len(Tail(args)) = 1 /\ Tail(args)[1] = args[2]
  BY <1>5, TailOfTwo, Zenon
<1>9. /\ m \in 0 .. INPUT_PORT_NUM_PINS - 1 /\ DigitOf(m) = DigitOf(n)
      /\ Converted(Tail(args)) /\ Value(Tail(args)) = m
  <2>1. INPUT_PORT_NUM_PINS \in Nat
    BY AduCommandAssumption
  <2> HIDE DEF args, m
  <2>2. Upper(Tail(args)[1]) = DigitOf(n)
    BY <1>5, <1>8
  <2> QED
    BY <1>8, <2>1, <2>2, DigitIsRead DEF m
<1> HIDE DEF m
<1>10. ReadPortLine(args) = [op |-> "RPn", port |-> y, n |-> m]
  BY <1>5, <1>9, Zenon DEF ReadPortLine, IsInputPort
<1> QED
  BY <1>6, <1>7, <1>9, <1>10 DEF m

(* MKddd *)
LEMMA PortValueIsObeyed ==
  ASSUME NEW C, NEW t \in Seq(C), NEW n \in 0 .. UINT8_MAX, NEW ddd \in DecimalOf(n),
         Shout(t) = Prefix["MK"] \o ddd
  PROVE  Command(t) = [op |-> "MK", n |-> n]
<1> DEFINE args == Arguments(t)
           k == Len(ddd)
<1>0. n \in Nat
  OBVIOUS
<1>1. "MK" \in Entries /\ "MK" # "RP"
  BY DEF Entries
<1>2. Len(Prefix["MK"]) = 2
  BY <1>1, PrefixIsShort
<1>3. ddd \in Seq(Digit) /\ k \in 1 .. 3 /\ NumberOf(ddd) = n
  BY <1>0, DecimalStandsForNumber
<1>4. Reads(t, "MK", ddd, C)
  BY <1>1, <1>3, PrefixedTexts
<1>5. Converted(ddd) /\ Value(ddd) = n
  <2>1. k = Len(ddd)
    OBVIOUS
  <2> HIDE DEF k
  <2> QED
    BY <1>3, <2>1, DigitsConvert
<1>6. /\ Found(t) /\ Entry(t) = "MK" /\ Len(t) = 2 + k
      /\ args \in Seq(C) /\ Len(args) = k
      /\ \A i \in 1 .. k : Upper(args[i]) = ddd[i]
  BY <1>2, <1>4, Zenon DEF Reads
<1>7. \A i \in 1 .. k : ddd[i] \in Digit
  BY <1>3
<1>8. \A i \in 1 .. k : args[i] = ddd[i]
  BY <1>6, <1>7, DigitsHaveNoCase, Zenon
<1>9. args = ddd
  BY <1>3, <1>6, <1>8, SeqEqual
<1> HIDE DEF k
<1>10. Command(t) = Processed(t)
  <2>1. 2 + k \in Nat /\ 2 + k <= 5
    BY <1>3
  <2> QED
    BY <1>6, <2>1, ShortTextIsProcessed, Zenon
<1>11. Processed(t) = ReadPortValue(args)
  BY <1>6, HandlersRead, Zenon
<1>12. ReadPortValue(ddd) = [op |-> "MK", n |-> n]
  <2>1. k <= 3
    BY <1>3
  <2> QED
    BY <1>5, <2>1, Zenon DEF ReadPortValue, k
<1> QED
  BY <1>9, <1>10, <1>11, <1>12, Zenon

(* The manual by the prefix of its entries. *)
LEMMA DocumentedKinds ==
  ASSUME NEW d
  PROVE  d \in Documented <=>
           \/ d \in Numbered(Prefix["SK"], NUM_RELAYS, "SK")
           \/ d \in Numbered(Prefix["RK"], NUM_RELAYS, "RK")
           \/ d \in Numbered(Prefix["RPK"], NUM_RELAYS, "RPK")
           \/ d \in Numbered(Prefix["RE"], EVENT_COUNTER_NUM_COUNTERS, "RE")
           \/ d \in Numbered(Prefix["RC"], EVENT_COUNTER_NUM_COUNTERS, "RC")
           \/ d \in Numbered(Prefix["DB"], DEBOUNCE_SETTING_NUM_SETTINGS, "DBn")
           \/ d \in Numbered(Prefix["WD"], WATCHDOG_SETTING_NUM_SETTINGS, "WDn")
           \/ \E n \in 0 .. UINT8_MAX : \E ddd \in DecimalOf(n) :
                d = <<Prefix["MK"] \o ddd, [op |-> "MK", n |-> n]>>
           \/ \E e \in {"PK", "PI", "DB", "WD"} : d = <<Prefix[e], [op |-> e]>>
           \/ \E e \in {"RP", "PA"}, y \in {"A", "B"} :
                d = <<Prefix[e] \o <<y>>, [op |-> e, port |-> y]>>
           \/ \E y \in {"A", "B"}, n \in 0 .. INPUT_PORT_NUM_PINS - 1 :
                d = <<Prefix["RP"] \o <<y, DigitOf(n)>>,
                      [op |-> "RPn", port |-> y, n |-> n]>>
<1>1. /\ Prefix["SK"] = <<"S", "K">> /\ Prefix["RK"] = <<"R", "K">>
      /\ Prefix["MK"] = <<"M", "K">> /\ Prefix["RPK"] = <<"R", "P", "K">>
      /\ Prefix["PK"] = <<"P", "K">> /\ Prefix["RP"] = <<"R", "P">>
      /\ Prefix["PA"] = <<"P", "A">> /\ Prefix["PI"] = <<"P", "I">>
      /\ Prefix["RE"] = <<"R", "E">> /\ Prefix["RC"] = <<"R", "C">>
      /\ Prefix["DB"] = <<"D", "B">> /\ Prefix["WD"] = <<"W", "D">>
  BY DEF Prefix
<1>2. \A y : /\ <<"R", "P", y>> = <<"R", "P">> \o <<y>>
             /\ <<"P", "A", y>> = <<"P", "A">> \o <<y>>
  OBVIOUS
<1>3. \A y, z : <<"R", "P", y, z>> = <<"R", "P">> \o <<y, z>>
  OBVIOUS
<1>4. d \in Documented <=>
        \/ d \in Numbered(<<"S", "K">>, NUM_RELAYS, "SK")
        \/ d \in Numbered(<<"R", "K">>, NUM_RELAYS, "RK")
        \/ d \in Numbered(<<"R", "P", "K">>, NUM_RELAYS, "RPK")
        \/ d \in Numbered(<<"R", "E">>, EVENT_COUNTER_NUM_COUNTERS, "RE")
        \/ d \in Numbered(<<"R", "C">>, EVENT_COUNTER_NUM_COUNTERS, "RC")
        \/ d \in Numbered(<<"D", "B">>, DEBOUNCE_SETTING_NUM_SETTINGS, "DBn")
        \/ d \in Numbered(<<"W", "D">>, WATCHDOG_SETTING_NUM_SETTINGS, "WDn")
        \/ \E n \in 0 .. UINT8_MAX : \E ddd \in DecimalOf(n) :
             d = <<<<"M", "K">> \o ddd, [op |-> "MK", n |-> n]>>
        \/ \/ d = << <<"P", "K">>, [op |-> "PK"] >> \/ d = << <<"P", "I">>, [op |-> "PI"] >>
           \/ d = << <<"D", "B">>, [op |-> "DB"] >> \/ d = << <<"W", "D">>, [op |-> "WD"] >>
        \/ \E y \in {"A", "B"} : d = << <<"R", "P", y>>, [op |-> "RP", port |-> y] >>
        \/ \E y \in {"A", "B"} : d = << <<"P", "A", y>>, [op |-> "PA", port |-> y] >>
        \/ \E y \in {"A", "B"}, n \in 0 .. INPUT_PORT_NUM_PINS - 1 :
             d = << <<"R", "P", y, DigitOf(n)>>, [op |-> "RPn", port |-> y, n |-> n] >>
  <2> DEFINE mk == UNION {{<< <<"M", "K">> \o ddd, [op |-> "MK", n |-> n] >> :
                              ddd \in DecimalOf(n)} : n \in 0 .. UINT8_MAX}
             bare == {<< <<"P", "K">>, [op |-> "PK"] >>, << <<"P", "I">>, [op |-> "PI"] >>,
                      << <<"D", "B">>, [op |-> "DB"] >>, << <<"W", "D">>, [op |-> "WD"] >>}
             rp == {<< <<"R", "P", y>>, [op |-> "RP", port |-> y] >> : y \in {"A", "B"}}
             pa == {<< <<"P", "A", y>>, [op |-> "PA", port |-> y] >> : y \in {"A", "B"}}
             rpn == UNION {{<< <<"R", "P", y, DigitOf(n)>>,
                               [op |-> "RPn", port |-> y, n |-> n] >> :
                              n \in 0 .. INPUT_PORT_NUM_PINS - 1} : y \in {"A", "B"}}
             sk == Numbered(<<"S", "K">>, NUM_RELAYS, "SK")
             rk == Numbered(<<"R", "K">>, NUM_RELAYS, "RK")
             rpk == Numbered(<<"R", "P", "K">>, NUM_RELAYS, "RPK")
             re == Numbered(<<"R", "E">>, EVENT_COUNTER_NUM_COUNTERS, "RE")
             rc == Numbered(<<"R", "C">>, EVENT_COUNTER_NUM_COUNTERS, "RC")
             db == Numbered(<<"D", "B">>, DEBOUNCE_SETTING_NUM_SETTINGS, "DBn")
             wd == Numbered(<<"W", "D">>, WATCHDOG_SETTING_NUM_SETTINGS, "WDn")
  <2>1. Documented = sk \union rk \union rpk \union re \union rc \union db \union wd
                       \union mk \union bare \union rp \union pa \union rpn
    BY DEF Documented
  <2>2. d \in mk <=> \E n \in 0 .. UINT8_MAX : \E ddd \in DecimalOf(n) :
                       d = <<<<"M", "K">> \o ddd, [op |-> "MK", n |-> n]>>
    <3> DEFINE m(n) == {<< <<"M", "K">> \o ddd, [op |-> "MK", n |-> n] >> :
                          ddd \in DecimalOf(n)}
    <3>1. d \in mk <=> \E n \in 0 .. UINT8_MAX : d \in m(n)
      <4> HIDE DEF m
      <4>1. mk = UNION {m(n) : n \in 0 .. UINT8_MAX}
        BY DEF m
      <4> HIDE DEF mk
      <4> QED
        BY <4>1
    <3>2. \A n : d \in m(n) <=> \E ddd \in DecimalOf(n) :
                       d = <<<<"M", "K">> \o ddd, [op |-> "MK", n |-> n]>>
      BY Zenon
    <3> HIDE DEF m, mk
    <3> QED
      BY <3>1, <3>2, Zenon
  <2>3. d \in bare <=>
          \/ d = << <<"P", "K">>, [op |-> "PK"] >> \/ d = << <<"P", "I">>, [op |-> "PI"] >>
          \/ d = << <<"D", "B">>, [op |-> "DB"] >> \/ d = << <<"W", "D">>, [op |-> "WD"] >>
    BY Zenon
  <2>4. d \in rp <=>
          \E y \in {"A", "B"} : d = << <<"R", "P", y>>, [op |-> "RP", port |-> y] >>
    BY Zenon
  <2>5. d \in pa <=>
          \E y \in {"A", "B"} : d = << <<"P", "A", y>>, [op |-> "PA", port |-> y] >>
    BY Zenon
  <2>6. d \in rpn <=>
          \E y \in {"A", "B"}, n \in 0 .. INPUT_PORT_NUM_PINS - 1 :
            d = << <<"R", "P", y, DigitOf(n)>>, [op |-> "RPn", port |-> y, n |-> n] >>
    <3> DEFINE m(y) == {<< <<"R", "P", y, DigitOf(n)>>,
                           [op |-> "RPn", port |-> y, n |-> n] >> :
                          n \in 0 .. INPUT_PORT_NUM_PINS - 1}
    <3>1. d \in rpn <=> \E y \in {"A", "B"} : d \in m(y)
      <4> HIDE DEF m
      <4>1. rpn = UNION {m(y) : y \in {"A", "B"}}
        BY DEF m
      <4> HIDE DEF rpn
      <4> QED
        BY <4>1
    <3>2. \A y : d \in m(y) <=> \E n \in 0 .. INPUT_PORT_NUM_PINS - 1 :
            d = << <<"R", "P", y, DigitOf(n)>>, [op |-> "RPn", port |-> y, n |-> n] >>
      BY Zenon
    <3> HIDE DEF m, rpn
    <3> QED
      BY <3>1, <3>2, Zenon
  <2> HIDE DEF mk, bare, rp, pa, rpn
  <2>7. d \in Documented <=>
          \/ d \in sk \/ d \in rk \/ d \in rpk \/ d \in re \/ d \in rc
          \/ d \in db \/ d \in wd \/ d \in mk \/ d \in bare
          \/ d \in rp \/ d \in pa \/ d \in rpn
    <3> HIDE DEF sk, rk, rpk, re, rc, db, wd
    <3> QED
      BY <2>1, Zenon
  <2> QED
    BY <2>2, <2>3, <2>4, <2>5, <2>6, <2>7, Zenon
<1>5. \/ d = << <<"P", "K">>, [op |-> "PK"] >> \/ d = << <<"P", "I">>, [op |-> "PI"] >>
      \/ d = << <<"D", "B">>, [op |-> "DB"] >> \/ d = << <<"W", "D">>, [op |-> "WD"] >>
      <=> \E e \in {"PK", "PI", "DB", "WD"} : d = <<Prefix[e], [op |-> e]>>
  BY <1>1, Zenon
<1>6. \/ \E y \in {"A", "B"} : d = << <<"R", "P", y>>, [op |-> "RP", port |-> y] >>
      \/ \E y \in {"A", "B"} : d = << <<"P", "A", y>>, [op |-> "PA", port |-> y] >>
      <=> \E e \in {"RP", "PA"}, y \in {"A", "B"} :
            d = <<Prefix[e] \o <<y>>, [op |-> e, port |-> y]>>
  <2> DEFINE f(e, y) == <<Prefix[e] \o <<y>>, [op |-> e, port |-> y]>>
  <2>1. \A y : /\ << <<"R", "P", y>>, [op |-> "RP", port |-> y] >> = f("RP", y)
               /\ << <<"P", "A", y>>, [op |-> "PA", port |-> y] >> = f("PA", y)
    BY <1>1, <1>2
  <2> HIDE DEF f
  <2>2. \/ \E y \in {"A", "B"} : d = f("RP", y)
        \/ \E y \in {"A", "B"} : d = f("PA", y)
        <=> \E e \in {"RP", "PA"}, y \in {"A", "B"} : d = f(e, y)
    BY Zenon
  <2> QED
    BY <2>1, <2>2 DEF f
<1>7. \A y, n : << <<"R", "P", y, DigitOf(n)>>, [op |-> "RPn", port |-> y, n |-> n] >>
        = <<Prefix["RP"] \o <<y, DigitOf(n)>>, [op |-> "RPn", port |-> y, n |-> n]>>
  BY <1>1, <1>3
<1> DEFINE mk == \E n \in 0 .. UINT8_MAX : \E ddd \in DecimalOf(n) :
                   d = <<Prefix["MK"] \o ddd, [op |-> "MK", n |-> n]>>
           bare == \E e \in {"PK", "PI", "DB", "WD"} : d = <<Prefix[e], [op |-> e]>>
           port == \E e \in {"RP", "PA"}, y \in {"A", "B"} :
                     d = <<Prefix[e] \o <<y>>, [op |-> e, port |-> y]>>
           line == \E y \in {"A", "B"}, n \in 0 .. INPUT_PORT_NUM_PINS - 1 :
                     d = << <<"R", "P", y, DigitOf(n)>>,
                            [op |-> "RPn", port |-> y, n |-> n] >>
<1>8. d \in Documented <=>
        \/ d \in Numbered(Prefix["SK"], NUM_RELAYS, "SK")
        \/ d \in Numbered(Prefix["RK"], NUM_RELAYS, "RK")
        \/ d \in Numbered(Prefix["RPK"], NUM_RELAYS, "RPK")
        \/ d \in Numbered(Prefix["RE"], EVENT_COUNTER_NUM_COUNTERS, "RE")
        \/ d \in Numbered(Prefix["RC"], EVENT_COUNTER_NUM_COUNTERS, "RC")
        \/ d \in Numbered(Prefix["DB"], DEBOUNCE_SETTING_NUM_SETTINGS, "DBn")
        \/ d \in Numbered(Prefix["WD"], WATCHDOG_SETTING_NUM_SETTINGS, "WDn")
        \/ mk \/ bare \/ port \/ line
  <2>1. mk <=> \E n \in 0 .. UINT8_MAX : \E ddd \in DecimalOf(n) :
                 d = <<<<"M", "K">> \o ddd, [op |-> "MK", n |-> n]>>
    BY <1>1, Zenon
  <2> HIDE DEF mk, bare, port, line
  <2> QED
    BY <1>1, <1>4, <1>5, <1>6, <2>1, Zenon DEF bare, port, line
<1>9. line <=> \E y \in {"A", "B"}, n \in 0 .. INPUT_PORT_NUM_PINS - 1 :
        d = <<Prefix["RP"] \o <<y, DigitOf(n)>>, [op |-> "RPn", port |-> y, n |-> n]>>
  BY <1>7, Zenon
<1> HIDE DEF line
<1> QED
  BY <1>8, <1>9, Zenon

(***************************************************************************)
(* Whatever the case of its letters, a documented text is taken for the    *)
(* command the handlers' comments say it is (AduProtocol.c:218-758).       *)
(***************************************************************************)
THEOREM ManualIsAlwaysObeyed == TypeSpec => []ManualIsObeyed
<1>1. ASSUME TextInv, Shout(text) \in DocumentedTexts
      PROVE  <<Shout(text), Command(text)>> \in Documented
  <2> DEFINE s == Shout(text)
             result == <<s, Command(text)>>
  <2>1. text \in Seq(TypedChar)
    BY <1>1 DEF TextInv
  <2>2. PICK d \in Documented : d[1] = s
    BY <1>1 DEF DocumentedTexts
  <2>3. /\ NUM_RELAYS \in Nat /\ EVENT_COUNTER_NUM_COUNTERS \in Nat
        /\ DEBOUNCE_SETTING_NUM_SETTINGS \in Nat /\ WATCHDOG_SETTING_NUM_SETTINGS \in Nat
    BY AduCommandAssumption
  <2> HIDE DEF s
  <2>4. ASSUME NEW e \in Entries \ {"RP"}, NEW limit \in Nat, NEW op, NEW get,
               Found(text) /\ Entry(text) = e =>
                 \/ Processed(text) = ReadIndex(op, Arguments(text), limit)
                 \/ Processed(text) = ReadSetting(get, op, Arguments(text), limit),
               d \in Numbered(Prefix[e], limit, op)
        PROVE  result \in Numbered(Prefix[e], limit, op)
    BY <2>1, <2>2, <2>4, NumberedIsObeyed DEF s
  <2>5. {"SK", "RK", "RPK", "RE", "RC", "DB", "WD"} \subseteq Entries \ {"RP"}
    BY DEF Entries
  <2>6. CASE d \in Numbered(Prefix["SK"], NUM_RELAYS, "SK")
    <3>1. result \in Numbered(Prefix["SK"], NUM_RELAYS, "SK")
      BY <2>3, <2>4, <2>5, <2>6, HandlersRead, Zenon
    <3> QED
      BY <3>1, DocumentedKinds, Zenon DEF s
  <2>7. CASE d \in Numbered(Prefix["RK"], NUM_RELAYS, "RK")
    <3>1. result \in Numbered(Prefix["RK"], NUM_RELAYS, "RK")
      BY <2>3, <2>4, <2>5, <2>7, HandlersRead, Zenon
    <3> QED
      BY <3>1, DocumentedKinds, Zenon DEF s
  <2>8. CASE d \in Numbered(Prefix["RPK"], NUM_RELAYS, "RPK")
    <3>1. result \in Numbered(Prefix["RPK"], NUM_RELAYS, "RPK")
      BY <2>3, <2>4, <2>5, <2>8, HandlersRead, Zenon
    <3> QED
      BY <3>1, DocumentedKinds, Zenon DEF s
  <2>9. CASE d \in Numbered(Prefix["RE"], EVENT_COUNTER_NUM_COUNTERS, "RE")
    <3>1. result \in Numbered(Prefix["RE"], EVENT_COUNTER_NUM_COUNTERS, "RE")
      BY <2>3, <2>4, <2>5, <2>9, HandlersRead, Zenon
    <3> QED
      BY <3>1, DocumentedKinds, Zenon DEF s
  <2>10. CASE d \in Numbered(Prefix["RC"], EVENT_COUNTER_NUM_COUNTERS, "RC")
    <3>1. result \in Numbered(Prefix["RC"], EVENT_COUNTER_NUM_COUNTERS, "RC")
      BY <2>3, <2>4, <2>5, <2>10, HandlersRead, Zenon
    <3> QED
      BY <3>1, DocumentedKinds, Zenon DEF s
  <2>11. CASE d \in Numbered(Prefix["DB"], DEBOUNCE_SETTING_NUM_SETTINGS, "DBn")
    <3>1. result \in Numbered(Prefix["DB"], DEBOUNCE_SETTING_NUM_SETTINGS, "DBn")
      BY <2>3, <2>4, <2>5, <2>11, HandlersRead, Zenon
    <3> QED
      BY <3>1, DocumentedKinds, Zenon DEF s
  <2>12. CASE d \in Numbered(Prefix["WD"], WATCHDOG_SETTING_NUM_SETTINGS, "WDn")
    <3>1. result \in Numbered(Prefix["WD"], WATCHDOG_SETTING_NUM_SETTINGS, "WDn")
      BY <2>3, <2>4, <2>5, <2>12, HandlersRead, Zenon
    <3> QED
      BY <3>1, DocumentedKinds, Zenon DEF s
  <2>13. CASE \E n \in 0 .. UINT8_MAX : \E ddd \in DecimalOf(n) :
               d = <<Prefix["MK"] \o ddd, [op |-> "MK", n |-> n]>>
    <3>1. PICK n \in 0 .. UINT8_MAX : \E ddd \in DecimalOf(n) :
            d = <<Prefix["MK"] \o ddd, [op |-> "MK", n |-> n]>>
      BY <2>13
    <3>2. PICK ddd \in DecimalOf(n) : d = <<Prefix["MK"] \o ddd, [op |-> "MK", n |-> n]>>
      BY <3>1
    <3>3. s = Prefix["MK"] \o ddd
      BY <2>2, <3>2
    <3>4. Command(text) = [op |-> "MK", n |-> n]
      BY <2>1, <3>3, PortValueIsObeyed DEF s
    <3>5. result = d
      BY <3>2, <3>3, <3>4
    <3> QED
      BY <3>5 DEF s
  <2>14. CASE \E e \in {"PK", "PI", "DB", "WD"} : d = <<Prefix[e], [op |-> e]>>
    <3>1. PICK e \in {"PK", "PI", "DB", "WD"} : d = <<Prefix[e], [op |-> e]>>
      BY <2>14
    <3>2. s = Prefix[e]
      BY <2>2, <3>1
    <3>3. Command(text) = [op |-> e]
      BY <2>1, <3>2, BarePrefixIsObeyed DEF s
    <3>4. result = d
      BY <3>1, <3>2, <3>3
    <3> QED
      BY <3>4 DEF s
  <2>15. CASE \E e \in {"RP", "PA"}, y \in {"A", "B"} :
               d = <<Prefix[e] \o <<y>>, [op |-> e, port |-> y]>>
    <3>1. PICK e \in {"RP", "PA"}, y \in {"A", "B"} :
            d = <<Prefix[e] \o <<y>>, [op |-> e, port |-> y]>>
      BY <2>15
    <3>2. s = Prefix[e] \o <<y>>
      BY <2>2, <3>1
    <3>3. Command(text) = [op |-> e, port |-> y]
      BY <2>1, <3>2, PortIsObeyed DEF s
    <3>4. result = d
      BY <3>1, <3>2, <3>3
    <3> QED
      BY <3>4 DEF s
  <2>16. CASE \E y \in {"A", "B"}, n \in 0 .. INPUT_PORT_NUM_PINS - 1 :
               d = <<Prefix["RP"] \o <<y, DigitOf(n)>>,
                     [op |-> "RPn", port |-> y, n |-> n]>>
    <3>1. PICK y \in {"A", "B"}, n \in 0 .. INPUT_PORT_NUM_PINS - 1 :
            d = <<Prefix["RP"] \o <<y, DigitOf(n)>>, [op |-> "RPn", port |-> y, n |-> n]>>
      BY <2>16
    <3>2. s = Prefix["RP"] \o <<y, DigitOf(n)>>
      BY <2>2, <3>1
    <3> DEFINE m == n % 10
    <3>3. /\ Command(text) = [op |-> "RPn", port |-> y, n |-> m]
          /\ m \in 0 .. INPUT_PORT_NUM_PINS - 1 /\ DigitOf(m) = DigitOf(n)
      BY <2>1, <3>2, PortLineIsObeyed DEF s
    <3> HIDE DEF m
    <3>4. result = <<Prefix["RP"] \o <<y, DigitOf(m)>>,
                     [op |-> "RPn", port |-> y, n |-> m]>>
      BY <3>2, <3>3
    <3> QED
      BY <3>3, <3>4, DocumentedKinds, Zenon DEF s
  <2> QED
    BY <2>6, <2>7, <2>8, <2>9, <2>10, <2>11, <2>12, <2>13, <2>14, <2>15, <2>16,
       DocumentedKinds, Zenon
<1>2. TextInv => ManualIsObeyed
  BY <1>1 DEF ManualIsObeyed
<1> QED
  BY <1>2, TextInvariant, PTL

(* A short text in capitals is its prefix and the few arguments in capitals. *)
LEMMA FewArguments ==
  ASSUME NEW C, NEW t \in Seq(C), Found(t)
  PROVE  LET p == Prefix[Entry(t)]
             args == Arguments(t)
         IN /\ Len(args) = 0 => Shout(t) = p
            /\ Len(args) = 1 => Shout(t) = p \o <<Upper(args[1])>>
            /\ Len(args) = 2 => Shout(t) = p \o <<Upper(args[1]), Upper(args[2])>>
<1> DEFINE p == Prefix[Entry(t)]
           args == Arguments(t)
           b == Shout(args)
           D == {Upper(c) : c \in C}
<1>1. Shout(t) = p \o b /\ Entry(t) \in Entries
  BY TextIsPrefixAndArguments
<1>2. args \in Seq(C)
  BY ArgumentsLength
<1>3. /\ b \in Seq(D) /\ Len(b) = Len(args)
      /\ \A i \in 1 .. Len(args) : b[i] = Upper(args[i])
  BY <1>2, Shouted
<1>4. p \in Seq(Capital)
  BY <1>1, PrefixIsShort
<1> HIDE DEF p, args, b, D
<1>5. Len(args) = 0 => Shout(t) = p
  BY <1>1, <1>3, <1>4
<1>6. Len(args) = 1 => Shout(t) = p \o <<Upper(args[1])>>
  <2> SUFFICES ASSUME Len(args) = 1 PROVE b = <<Upper(args[1])>>
    BY <1>1
  <2>1. Len(b) = 1 /\ b[1] = Upper(args[1])
    BY <1>3
  <2> QED
    BY <1>3, <2>1
<1>7. Len(args) = 2 => Shout(t) = p \o <<Upper(args[1]), Upper(args[2])>>
  <2> SUFFICES ASSUME Len(args) = 2 PROVE b = <<Upper(args[1]), Upper(args[2])>>
    BY <1>1
  <2>1. Len(b) = 2 /\ b[1] = Upper(args[1]) /\ b[2] = Upper(args[2])
    BY <1>3
  <2> QED
    BY <1>3, <2>1
<1> QED
  BY <1>5, <1>6, <1>7 DEF p, args

(* A digit that is accepted is documented. *)
LEMMA DigitIsDocumented ==
  ASSUME NEW C, NEW t \in Seq(C), Found(t), Len(Arguments(t)) = 1,
         Arguments(t)[1] \in Digit, NEW limit \in Nat,
         Value(Arguments(t)) \in 0 .. limit - 1, NEW op
  PROVE  <<Shout(t), [op |-> op, n |-> Value(Arguments(t))]>>
           \in Numbered(Prefix[Entry(t)], limit, op)
<1> DEFINE args == Arguments(t)
           v == Value(args)
<1>1. args \in Seq(C)
  BY ArgumentsLength
<1>2. v = DigitValue(args[1])
  BY <1>1, OneCharacter
<1>3. v \in 0 .. 9 /\ Digits[v + 1] = args[1]
  BY <1>2, DigitValues
<1>4. Upper(args[1]) = args[1]
  BY DigitsHaveNoCase
<1>5. DigitOf(v) = args[1]
  <2> HIDE DEF v
  <2>1. v % 10 = v
    BY <1>3
  <2> QED
    BY <1>3, <2>1 DEF DigitOf
<1>6. Shout(t) = Prefix[Entry(t)] \o <<DigitOf(v)>>
  BY <1>4, <1>5, FewArguments
<1>7. v \in 0 .. limit - 1
  OBVIOUS
<1> HIDE DEF v
<1>8. <<Shout(t), [op |-> op, n |-> v]>> \in Numbered(Prefix[Entry(t)], limit, op)
  BY <1>6, <1>7, Zenon DEF Numbered
<1> QED
  BY <1>8 DEF v

(***************************************************************************)
(* What MK takes for a value are the digits that the text ends in, behind  *)
(* white space and a sign, or it is 0 (AduProtocol.c:425-434).             *)
(***************************************************************************)
LEMMA PortValueEndsText ==
  ASSUME NEW C, NEW t \in Seq(C), Found(t), Entry(t) = "MK",
         Len(Arguments(t)) <= 3, Converted(Arguments(t)),
         Value(Arguments(t)) \in 0 .. UINT8_MAX
  PROVE  \/ Len(t) = 2 /\ Value(Arguments(t)) = 0
         \/ \E k \in 3 .. Len(t) :
              Skipped(t, 3, k) /\ SubSeq(t, k, Len(t)) \in DecimalOf(Value(Arguments(t)))
<1> DEFINE args == Arguments(t)
           n == Len(args)
           v == Value(args)
<1>1. /\ args \in Seq(C) /\ n = Len(t) - 2 /\ n \in Nat /\ Len(t) \in Nat
      /\ \A i \in 1 .. n : args[i] = t[2 + i]
  <2>1. Len(Prefix[Entry(t)]) = 2
    BY ArgumentsLength
  <2> QED
    BY <2>1, ArgumentsLength
<1>2. CASE n = 0 /\ v = 0
  BY <1>1, <1>2
<1>3. CASE ~ (n = 0 /\ v = 0)
  <2>1. PICK j \in 1 .. n :
          /\ Skipped(args, 1, j)
          /\ SubSeq(args, j, n) \in Seq(Digit) /\ Len(SubSeq(args, j, n)) = n + 1 - j
          /\ v = NumberOf(SubSeq(args, j, n))
    BY <1>1, <1>3, ConvertedSuffix
  <2>2. n <= 3
    OBVIOUS
  <2> DEFINE d == SubSeq(args, j, n)
             k == j + 2
             ddd == SubSeq(t, k, Len(t))
  <2> HIDE DEF args, n, v
  <2>3. j \in Nat /\ j >= 1 /\ j <= n
    BY <1>1
  <2>4. k \in 3 .. Len(t)
    BY <1>1, <2>3
  <2>5. Skipped(t, 3, k)
    <3> SUFFICES ASSUME NEW i \in 3 .. k - 1
                 PROVE  t[i] \in Blank \/ (i = k - 1 /\ t[i] \in {"+", "-"})
      BY Zenon DEF Skipped
    <3>1. i - 2 \in 1 .. j - 1 /\ i - 2 \in 1 .. n /\ 2 + (i - 2) = i
      BY <1>1, <2>3
    <3> DEFINE m == i - 2
    <3>2. args[m] = t[2 + m]
      BY <1>1, <3>1
    <3>3. args[m] \in Blank \/ (m = j - 1 /\ args[m] \in {"+", "-"})
      BY <2>1, <3>1 DEF Skipped
    <3>4. m = j - 1 => i = k - 1
      BY <2>3
    <3> QED
      BY <3>1, <3>2, <3>3, <3>4
  <2>6. ddd = d
    <3>1. /\ ddd \in Seq(C) /\ Len(ddd) = (IF k <= Len(t) THEN Len(t) - k + 1 ELSE 0)
          /\ \A i \in 1 .. Len(t) - k + 1 : ddd[i] = t[k + i - 1]
      <4>1. k \in Int /\ Len(t) \in Int /\ \A i \in k .. Len(t) : t[i] \in C
        BY <1>1, <2>4
      <4> HIDE DEF k
      <4> QED
        BY <4>1, SubSeqProperties
    <3>2. d \in Seq(C) /\ \A i \in 1 .. n - j + 1 : d[i] = args[j + i - 1]
      <4>1. j \in Int /\ n \in Int /\ \A i \in j .. n : args[i] \in C
        BY <1>1, <2>3 DEF n
      <4> QED
        BY <4>1, SubSeqProperties
    <3> HIDE DEF ddd, d
    <3>3. Len(ddd) = n + 1 - j /\ Len(d) = n + 1 - j
      BY <1>1, <2>1, <2>3, <3>1 DEF d
    <3>4. \A i \in 1 .. n + 1 - j : ddd[i] = d[i]
      <4> TAKE i \in 1 .. n + 1 - j
      <4>1. i \in 1 .. Len(t) - k + 1 /\ i \in 1 .. n - j + 1
        BY <1>1, <2>3
      <4>2. j + i - 1 \in 1 .. n /\ k + i - 1 = 2 + (j + i - 1)
        BY <1>1, <2>3
      <4> DEFINE m == j + i - 1
      <4>3. ddd[i] = t[2 + m]
        BY <3>1, <4>1, <4>2
      <4>4. d[i] = args[m] /\ args[m] = t[2 + m]
        BY <1>1, <3>2, <4>1, <4>2
      <4> QED
        BY <4>3, <4>4
    <3>5. Len(ddd) = Len(d) /\ \A i \in 1 .. Len(ddd) : ddd[i] = d[i]
      BY <3>3, <3>4, Zenon
    <3> QED
      BY <3>1, <3>2, <3>5, SeqEqual
  <2>7. d \in DecimalOf(v)
    <3>1. d \in Seq(Digit) /\ Len(d) = n + 1 - j /\ v = NumberOf(d)
      BY <2>1
    <3> HIDE DEF d
    <3>2. Len(d) \in 1 .. 3
      BY <1>1, <2>2, <2>3, <3>1
    <3> QED
      BY <3>1, <3>2, DigitsAreDecimal
  <2> QED
    BY <2>4, <2>5, <2>6, <2>7 DEF args, v
<1> QED
  BY <1>2, <1>3

(* A text that reads as a command of the manual is documented. *)
LEMMA DocumentedText ==
  ASSUME NEW t, NEW d, <<Shout(t), d>> \in Documented
  PROVE  Shout(t) \in DocumentedTexts
<1>1. <<Shout(t), d>>[1] = Shout(t)
  OBVIOUS
<1> QED
  BY <1>1, Zenon DEF DocumentedTexts

(* One argument of a command of two letters is the third character. *)
LEMMA OneArgument ==
  ASSUME NEW C, NEW t \in Seq(C), Found(t), Len(Prefix[Entry(t)]) = 2,
         Len(Arguments(t)) = 1
  PROVE  Len(t) = 3 /\ Arguments(t)[1] = t[3]
<1> DEFINE a == Arguments(t)
           n == Len(a)
           k == Len(Prefix[Entry(t)])
<1>1. n = Len(t) - k /\ \A i \in 1 .. n : a[i] = t[k + i]
  BY ArgumentsLength, Zenon
<1>2. n = 1 /\ k = 2 /\ Len(t) \in Nat
  OBVIOUS
<1> HIDE DEF a, n, k
<1>3. Len(t) = 3
  BY <1>1, <1>2
<1>4. a[1] = t[2 + 1]
  <2>1. 1 \in 1 .. n
    BY <1>2
  <2>2. a[1] = t[k + 1]
    BY <1>1, <2>1, Zenon
  <2> QED
    BY <1>2, <2>2
<1>5. 2 + 1 = 3
  OBVIOUS
<1> QED
  BY <1>3, <1>4, <1>5 DEF a

(* What a text that the manual does not have is taken for. *)
LEMMA UndocumentedText ==
  ASSUME NEW C, NEW t \in Seq(C), Shout(t) \notin DocumentedTexts,
         Command(t) \notin {TooLong, Invalid}
  PROVE  /\ Found(t) /\ Command(t) = Processed(t)
         /\ \/ /\ Entry(t) = "MK"
               /\ Len(Arguments(t)) <= 3 /\ Converted(Arguments(t))
               /\ Value(Arguments(t)) \in 0 .. UINT8_MAX
               /\ Command(t) = [op |-> "MK", n |-> Value(Arguments(t))]
            \/ /\ Command(t) \in {[op |-> "DBn", n |-> 0], [op |-> "WDn", n |-> 0]}
               /\ Len(t) = 3 /\ t[3] \notin Digit
<1> DEFINE e == Entry(t)
           args == Arguments(t)
           v == Value(args)
           p == Prefix[e]
<1>1. Command(t) = Processed(t) /\ Command(t) # Invalid
  BY DEF Command
<1>2. Found(t)
  BY <1>1, Zenon DEF Processed
<1>3. \A d : <<Shout(t), d>> \notin Documented
  BY DocumentedText
<1>4. args \in Seq(C) /\ e \in Entries
  BY <1>2, ArgumentsLength, TextIsPrefixAndArguments
<1>5. /\ Len(args) = 0 => Shout(t) = p
      /\ Len(args) = 1 => Shout(t) = p \o <<Upper(args[1])>>
      /\ Len(args) = 2 => Shout(t) = p \o <<Upper(args[1]), Upper(args[2])>>
  BY <1>2, FewArguments
<1>6. /\ NUM_RELAYS \in Nat /\ EVENT_COUNTER_NUM_COUNTERS \in Nat
      /\ DEBOUNCE_SETTING_NUM_SETTINGS \in Nat /\ WATCHDOG_SETTING_NUM_SETTINGS \in Nat
      /\ INPUT_PORT_NUM_PINS \in Nat
  BY AduCommandAssumption
<1>7. Len(args) = 1 =>
        /\ args[1] \in Digit => Converted(args) /\ v = DigitValue(args[1])
        /\ args[1] \notin Digit => ~Converted(args) /\ v = 0
  BY <1>4, OneCharacter
<1>8. ASSUME Len(args) = 1, args[1] \in Digit, NEW limit \in Nat, v \in 0 .. limit - 1
      PROVE  \A op : <<Shout(t), [op |-> op, n |-> v]>> \in Numbered(p, limit, op)
  BY <1>2, <1>4, <1>8, DigitIsDocumented
<1> HIDE DEF e, args, v, p
<1>9. ASSUME NEW limit \in Nat, NEW op, ReadIndex(op, args, limit) # Invalid
      PROVE  \A f : <<Shout(t), [op |-> f, n |-> v]>> \in Numbered(p, limit, f)
  <2>1. Len(args) = 1 /\ Converted(args) /\ v \in 0 .. limit - 1
    BY <1>9 DEF ReadIndex, v
  <2>2. args[1] \in Digit
    BY <1>7, <2>1
  <2> QED
    BY <1>8, <2>1, <2>2
<1>10. CASE e \in {"SK", "RK", "RPK", "RE", "RC"}
  <2>1. ASSUME NEW f \in {"SK", "RK", "RPK"}, e = f PROVE FALSE
    <3>1. ReadIndex(f, args, NUM_RELAYS) # Invalid
      BY <1>1, <1>2, <2>1, HandlersRead, Zenon DEF e, args
    <3>2. <<Shout(t), [op |-> f, n |-> v]>> \in Numbered(Prefix[f], NUM_RELAYS, f)
      BY <1>6, <1>9, <2>1, <3>1 DEF p
    <3> QED
      BY <1>3, <2>1, <3>2, DocumentedKinds, Zenon
  <2>2. ASSUME NEW f \in {"RE", "RC"}, e = f PROVE FALSE
    <3>1. ReadIndex(f, args, EVENT_COUNTER_NUM_COUNTERS) # Invalid
      BY <1>1, <1>2, <2>2, HandlersRead, Zenon DEF e, args
    <3>2. <<Shout(t), [op |-> f, n |-> v]>>
            \in Numbered(Prefix[f], EVENT_COUNTER_NUM_COUNTERS, f)
      BY <1>6, <1>9, <2>2, <3>1 DEF p
    <3> QED
      BY <1>3, <2>2, <3>2, DocumentedKinds, Zenon
  <2> QED
    BY <1>10, <2>1, <2>2
<1>11. CASE e \in {"PK", "PI"}
  <2>1. ReadNothing(e, args) # Invalid
    BY <1>1, <1>2, <1>11, HandlersRead, Zenon DEF e, args
  <2>2. Len(args) = 0
    BY <2>1 DEF ReadNothing
  <2>3. <<Shout(t), [op |-> e]>> = <<Prefix[e], [op |-> e]>>
    BY <1>5, <2>2 DEF p
  <2> QED
    BY <1>3, <1>11, <2>3, DocumentedKinds, Zenon
<1>12. ASSUME NEW f \in {"RP", "PA"}, e = f, ReadPort(f, args) # Invalid
       PROVE  FALSE
  <2>1. Len(args) = 1 /\ Upper(args[1]) \in {"A", "B"}
    BY <1>12 DEF ReadPort, IsInputPort
  <2> DEFINE y == Upper(args[1])
  <2>2. <<Shout(t), [op |-> f, port |-> y]>>
          = <<Prefix[f] \o <<y>>, [op |-> f, port |-> y]>>
    BY <1>5, <1>12, <2>1 DEF p
  <2>3. y \in {"A", "B"}
    BY <2>1
  <2> HIDE DEF y
  <2> QED
    BY <1>3, <2>2, <2>3, DocumentedKinds, Zenon
<1>13. CASE e = "PA"
  <2>1. ReadPort("PA", args) # Invalid
    BY <1>1, <1>2, <1>13, HandlersRead, Zenon DEF e, args
  <2> QED
    BY <1>12, <1>13, <2>1
<1>14. CASE e = "RP" /\ Len(args) # 2
  <2>1. ReadPort("RP", args) # Invalid
    BY <1>1, <1>2, <1>14, HandlersRead, Zenon DEF e, args
  <2> QED
    BY <1>12, <1>14, <2>1
<1>15. CASE e = "RP" /\ Len(args) = 2
  <2> DEFINE y == Upper(args[1])
             rest == Tail(args)
             n == Value(rest)
  <2>1. ReadPortLine(args) # Invalid
    BY <1>1, <1>2, <1>15, HandlersRead, Zenon DEF e, args
  <2>2. y \in {"A", "B"} /\ Converted(rest) /\ n \in 0 .. INPUT_PORT_NUM_PINS - 1
    BY <2>1 DEF ReadPortLine, IsInputPort
  <2>3. rest \in Seq(C) /\ Len(rest) = 1 /\ rest[1] = args[2]
    BY <1>4, <1>15, TailOfTwo
  <2>4. args[2] \in Digit /\ n = DigitValue(args[2])
    BY <2>2, <2>3, OneCharacter
  <2>5. n \in 0 .. 9 /\ Digits[n + 1] = args[2] /\ Upper(args[2]) = args[2]
    BY <2>4, DigitValues, DigitsHaveNoCase
  <2>6. DigitOf(n) = args[2]
    <3> HIDE DEF n
    <3>1. n % 10 = n
      BY <2>5
    <3> QED
      BY <2>5, <3>1 DEF DigitOf
  <2>7. Shout(t) = Prefix["RP"] \o <<y, DigitOf(n)>>
    BY <1>5, <1>15, <2>5, <2>6 DEF p
  <2> HIDE DEF y, n
  <2>8. <<Shout(t), [op |-> "RPn", port |-> y, n |-> n]>>
          = <<Prefix["RP"] \o <<y, DigitOf(n)>>, [op |-> "RPn", port |-> y, n |-> n]>>
    BY <2>7
  <2> QED
    BY <1>3, <2>2, <2>8, DocumentedKinds, Zenon
<1>16. CASE e = "MK"
  <2>1. ReadPortValue(args) # Invalid /\ Command(t) = ReadPortValue(args)
    BY <1>1, <1>2, <1>16, HandlersRead, Zenon DEF e, args
  <2>2. /\ Len(args) <= 3 /\ Converted(args) /\ v \in 0 .. UINT8_MAX
        /\ Command(t) = [op |-> "MK", n |-> v]
    BY <2>1, Zenon DEF ReadPortValue, v
  <2> QED
    BY <1>1, <1>2, <1>16, <2>2, Zenon DEF e, args, v
<1>17. ASSUME NEW get, NEW set, NEW limit \in Nat,
              Command(t) = ReadSetting(get, set, args, limit),
              Len(p) = 2, <<p, [op |-> get]>> \in Documented,
              \A d : d \in Numbered(p, limit, set) => d \in Documented
       PROVE  Command(t) = [op |-> set, n |-> 0] /\ Len(t) = 3 /\ t[3] \notin Digit
  <2>1. Len(args) # 0
    <3> SUFFICES ASSUME Len(args) = 0 PROVE FALSE
      OBVIOUS
    <3>1. Shout(t) = p
      BY <1>5
    <3> QED
      BY <1>3, <1>17, <3>1
  <2>2. Len(args) = 1 /\ v \in 0 .. limit - 1 /\ Command(t) = [op |-> set, n |-> v]
    BY <1>1, <1>17, <2>1 DEF ReadSetting, v
  <2>3. args[1] \notin Digit
    BY <1>3, <1>8, <1>17, <2>2
  <2>4. Len(t) = 3 /\ args[1] = t[3]
    BY <1>2, <1>17, <2>2, OneArgument DEF e, args, p
  <2> QED
    BY <1>7, <2>2, <2>3, <2>4
<1>18. CASE e = "DB"
  <2>1. Command(t) = ReadSetting("DB", "DBn", args, DEBOUNCE_SETTING_NUM_SETTINGS)
    BY <1>1, <1>2, <1>18, HandlersRead, Zenon DEF e, args
  <2>2. p = Prefix["DB"] /\ Len(p) = 2
    BY <1>18 DEF p, Prefix
  <2>3. /\ <<p, [op |-> "DB"]>> \in Documented
        /\ \A d : d \in Numbered(p, DEBOUNCE_SETTING_NUM_SETTINGS, "DBn")
                  => d \in Documented
    BY <2>2, DocumentedKinds, Zenon
  <2> QED
    BY <1>1, <1>2, <1>6, <1>17, <2>1, <2>2, <2>3
<1>19. CASE e = "WD"
  <2>1. Command(t) = ReadSetting("WD", "WDn", args, WATCHDOG_SETTING_NUM_SETTINGS)
    BY <1>1, <1>2, <1>19, HandlersRead, Zenon DEF e, args
  <2>2. p = Prefix["WD"] /\ Len(p) = 2
    BY <1>19 DEF p, Prefix
  <2>3. /\ <<p, [op |-> "WD"]>> \in Documented
        /\ \A d : d \in Numbered(p, WATCHDOG_SETTING_NUM_SETTINGS, "WDn")
                  => d \in Documented
    BY <2>2, DocumentedKinds, Zenon
  <2> QED
    BY <1>1, <1>2, <1>6, <1>17, <2>1, <2>2, <2>3
<1> QED
  BY <1>4, <1>10, <1>11, <1>13, <1>14, <1>15, <1>16, <1>18, <1>19 DEF Entries

(***************************************************************************)
(* No undocumented text acts but for the two ways the comments leave open  *)
(* (AduProtocol.c:425-434, 601-603, 649-651).                              *)
(***************************************************************************)
THEOREM NothingElseEverActs == TypeSpec => []NothingElseActs
<1>1. TextInv => NothingElseActs
  <2> SUFFICES ASSUME TextInv, Command(text) \notin {TooLong, Invalid},
                      Shout(text) \notin DocumentedTexts
               PROVE  \/ /\ Command(text).op = "MK"
                         /\ \/ Len(text) = 2 /\ Command(text).n = 0
                            \/ \E k \in 3 .. Len(text) :
                                 /\ Skipped(text, 3, k)
                                 /\ SubSeq(text, k, Len(text)) \in DecimalOf(Command(text).n)
                      \/ /\ Command(text).op \in {"DBn", "WDn"} /\ Command(text).n = 0
                         /\ Len(text) = 3 /\ text[3] \notin Digit
    BY DEF NothingElseActs, Skipped, Blank
  <2> DEFINE v == Value(Arguments(text))
  <2>1. text \in Seq(TypedChar)
    BY DEF TextInv
  <2>2. /\ Found(text)
        /\ \/ /\ Entry(text) = "MK"
              /\ Len(Arguments(text)) <= 3 /\ Converted(Arguments(text))
              /\ v \in 0 .. UINT8_MAX
              /\ Command(text) = [op |-> "MK", n |-> v]
           \/ /\ Command(text) \in {[op |-> "DBn", n |-> 0], [op |-> "WDn", n |-> 0]}
              /\ Len(text) = 3 /\ text[3] \notin Digit
    BY <2>1, UndocumentedText
  <2>3. CASE /\ Command(text) \in {[op |-> "DBn", n |-> 0], [op |-> "WDn", n |-> 0]}
             /\ Len(text) = 3 /\ text[3] \notin Digit
    BY <2>3
  <2>4. CASE /\ Entry(text) = "MK"
             /\ Len(Arguments(text)) <= 3 /\ Converted(Arguments(text))
             /\ v \in 0 .. UINT8_MAX
             /\ Command(text) = [op |-> "MK", n |-> v]
    <3>1. \/ Len(text) = 2 /\ v = 0
          \/ \E k \in 3 .. Len(text) :
               Skipped(text, 3, k) /\ SubSeq(text, k, Len(text)) \in DecimalOf(v)
      BY <2>1, <2>2, <2>4, PortValueEndsText
    <3>2. Command(text).op = "MK" /\ Command(text).n = v
      BY <2>4
    <3> HIDE DEF v
    <3> QED
      BY <3>1, <3>2
  <2> QED
    BY <2>2, <2>3, <2>4
<1> QED
  BY <1>1, TextInvariant, PTL

=============================================================================
