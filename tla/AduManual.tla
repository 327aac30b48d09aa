----------------------------- MODULE AduManual ------------------------------
(***************************************************************************)
(* The commands as the handlers' own comments describe them (the reference *)
(* of src/AduProtocol.c:218-622), against what AduCommand makes of every   *)
(* text a host may type.                                                   *)
(***************************************************************************)
EXTENDS AduReport

CONSTANTS
  PrefixChar,   (* The characters a host types first                   *)
  ArgumentChar, (* and those it types as an argument                   *)
  Memories      (* What the endpoint's buffer and the memory behind it *)
                (* may hold before a report comes in                   *)

(* No key types a NUL, and there is one behind the buffer. *)
ASSUME AduManualAssumption ==
  /\ NUL \notin PrefixChar \union ArgumentChar
  /\ \A memory \in Memories :
       /\ memory \in Seq(Range(memory))
       /\ \E i \in DOMAIN memory : i > CFG_TUD_HID_EP_BUFSIZE /\ memory[i] = NUL

VARIABLE text

-----------------------------------------------------------------------------
(* The host types a text, at most as long as a report has room for. *)
TypeInit == text = <<>>

TypePrefix ==
  /\ Len(text) < 2
  /\ \E c \in PrefixChar : text' = Append(text, c)

TypeArgument ==
  /\ Len(text) >= 2 /\ Found(text)
  /\ Len(text) < MAX_CMD_STR_SIZE
  /\ \E c \in ArgumentChar : text' = Append(text, c)

TypeTooMuch ==
  /\ Len(text) \in MAX_CMD_STR_SIZE .. CFG_TUD_HID_EP_BUFSIZE - 2
  /\ text' = Append(text, "0")

Submit ==
  /\ text # <<>>
  /\ text' = <<>>

TypeNext == TypePrefix \/ TypeArgument \/ TypeTooMuch \/ Submit

TypeSpec == TypeInit /\ [][TypeNext]_text

-----------------------------------------------------------------------------
(* The manual, a function from the texts it documents to their meaning. *)
DigitOf(d) == Digits[(d % 10) + 1]

(* The decimal strings of one to three digits that stand for n. *)
DecimalOf(n) ==
  LET ddd == <<DigitOf(n \div 100), DigitOf(n \div 10), DigitOf(n)>>
  IN {SubSeq(ddd, k, 3) : k \in {k \in 1 .. 3 : n < 10 ^ (4 - k)}}

Numbered(prefix, limit, op) ==
  {<<prefix \o <<DigitOf(n)>>, [op |-> op, n |-> n]>> : n \in 0 .. limit - 1}

Documented ==
  Numbered(<<"S", "K">>, NUM_RELAYS, "SK")
  \union Numbered(<<"R", "K">>, NUM_RELAYS, "RK")
  \union Numbered(<<"R", "P", "K">>, NUM_RELAYS, "RPK")
  \union Numbered(<<"R", "E">>, EVENT_COUNTER_NUM_COUNTERS, "RE")
  \union Numbered(<<"R", "C">>, EVENT_COUNTER_NUM_COUNTERS, "RC")
  \union Numbered(<<"D", "B">>, DEBOUNCE_SETTING_NUM_SETTINGS, "DBn")
  \union Numbered(<<"W", "D">>, WATCHDOG_SETTING_NUM_SETTINGS, "WDn")
  \union (UNION {{<< <<"M", "K">> \o ddd, [op |-> "MK", n |-> n] >> :
                    ddd \in DecimalOf(n)} : n \in 0 .. UINT8_MAX})
  \union {<< <<"P", "K">>, [op |-> "PK"] >>, << <<"P", "I">>, [op |-> "PI"] >>,
          << <<"D", "B">>, [op |-> "DB"] >>, << <<"W", "D">>, [op |-> "WD"] >>}
  \union {<< <<"R", "P", y>>, [op |-> "RP", port |-> y] >> : y \in {"A", "B"}}
  \union {<< <<"P", "A", y>>, [op |-> "PA", port |-> y] >> : y \in {"A", "B"}}
  \union (UNION {{<< <<"R", "P", y, DigitOf(n)>>, [op |-> "RPn", port |-> y, n |-> n] >> :
                    n \in 0 .. INPUT_PORT_NUM_PINS - 1} : y \in {"A", "B"}})

DocumentedTexts == {d[1] : d \in Documented}

Shout(t) == [i \in DOMAIN t |-> Upper(t[i])]

(***************************************************************************)
(* Every documented text, in either case, is taken for the command it      *)
(* documents, among twelve prefixes of which one contains another          *)
(* (AduProtocol.c:701-703).                                                *)
(***************************************************************************)
ManualIsObeyed ==
  Shout(text) \in DocumentedTexts => <<Shout(text), Command(text)>> \in Documented

(***************************************************************************)
(* No other text acts, except where the argument checks are looser than    *)
(* the comments.  A relay port value may be missing, which is 0, and its   *)
(* digits may follow white space and one sign, which strtoul skips         *)
(* (AduProtocol.c:425-430).  And one character that is no digit selects    *)
(* setting 0 of the debouncing or the watchdog (601-603, 649-651).         *)
(***************************************************************************)
NothingElseActs ==
  LET command == Command(text)
      Skipped(k) ==
        \A i \in 3 .. k - 1 :
          text[i] \in {" ", "\t"} \/ (i = k - 1 /\ text[i] \in {"+", "-"})
      IsPortValue(n) ==
        \/ Len(text) = 2 /\ n = 0
        \/ \E k \in 3 .. Len(text) :
             Skipped(k) /\ SubSeq(text, k, Len(text)) \in DecimalOf(n)
  IN (command \notin {TooLong, Invalid} /\ Shout(text) \notin DocumentedTexts)
       => \/ command.op = "MK" /\ IsPortValue(command.n)
          \/ /\ command.op \in {"DBn", "WDn"} /\ command.n = 0
             /\ Len(text) = 3 /\ text[3] \notin Digit

-----------------------------------------------------------------------------
(* The reports a text may be sent in: as long as can be, or just terminated. *)
FullReport ==
  <<REPORT_ID_ADU_CMD_RSP>> \o text
     \o [i \in 1 .. CFG_TUD_HID_EP_BUFSIZE - 1 - Len(text) |-> NUL]

TerminatedReports ==
  {FullReport} \union
    IF Len(text) < CFG_TUD_HID_EP_BUFSIZE - 1
      THEN {SubSeq(FullReport, 1, Len(text) + 2)} ELSE {}

(***************************************************************************)
(* A report that is full or terminated is taken for the command it holds,  *)
(* whatever earlier reports left behind it (AduProtocol.c:733-734), and an *)
(* empty one that follows does nothing that was not asked for: it repeats  *)
(* that command or is rejected, though its size wraps (Usb.c:111-114).     *)
(***************************************************************************)
ReportsActAsSent ==
  \A memory \in Memories, report \in TerminatedReports :
    LET first == Over(report, memory)
        command == Command(text)
    IN /\ ReportCommand(first, Len(report)) = command
       /\ \A empty \in {<<>>, <<REPORT_ID_ADU_CMD_RSP>>} :
            ReportCommand(Over(empty, first), Len(empty)) \in {command, Invalid, TooLong}

-----------------------------------------------------------------------------
(***************************************************************************)
(* What the comments say of the settings (AduProtocol.c:566-568, 614-616): *)
(* n ranges from '0' to '2' and from '0' to '3', so nothing else sets one. *)
(***************************************************************************)
OnlyDocumentedSettings ==
  Command(text) \notin {TooLong, Invalid} /\ Command(text).op \in {"DBn", "WDn"}
    => Shout(text) \in DocumentedTexts

=============================================================================
