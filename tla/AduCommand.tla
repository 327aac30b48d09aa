----------------------------- MODULE AduCommand -----------------------------
(***************************************************************************)
(* How src/AduProtocol.c reads the text of a command: the entry of the     *)
(* handler table it selects and the arguments that entry's handler accepts.*)
(* A text is the sequence of characters before the terminating NUL.        *)
(***************************************************************************)
EXTENDS Integers, Sequences, SequencesExt, Sizes

CONSTANTS
  NUM_RELAYS,                     (* 8 in the code              *)
  UINT8_MAX,                      (* 255: the value of a port   *)
  INPUT_PORT_NUM_PINS,            (* 4                          *)
  EVENT_COUNTER_NUM_COUNTERS,     (* 8                          *)
  DEBOUNCE_SETTING_NUM_SETTINGS,  (* 3                          *)
  WATCHDOG_SETTING_NUM_SETTINGS,  (* 4                          *)
  UlongMod                        (* Values of unsigned long: 2^32 *)

(* Five characters hold at most 99999, so that strtoul never saturates. *)
ASSUME AduCommandAssumption ==
  /\ {NUM_RELAYS, INPUT_PORT_NUM_PINS, EVENT_COUNTER_NUM_COUNTERS} \subseteq Nat
  /\ {DEBOUNCE_SETTING_NUM_SETTINGS, WATCHDOG_SETTING_NUM_SETTINGS} \subseteq Nat
  /\ UINT8_MAX \in Nat
  /\ UlongMod \in Nat /\ UlongMod > 99999 + UINT8_MAX

-----------------------------------------------------------------------------
(* The C library, as far as this code uses it. *)
LowerCase ==
  [s |-> "S", k |-> "K", r |-> "R", m |-> "M", p |-> "P", a |-> "A", b |-> "B",
   i |-> "I", e |-> "E", c |-> "C", d |-> "D", w |-> "W"]

(* toupper, on the letters the commands use. *)
Upper(c) == IF c \in DOMAIN LowerCase THEN LowerCase[c] ELSE c

Digits == <<"0", "1", "2", "3", "4", "5", "6", "7", "8", "9">>
Digit == {Digits[d] : d \in DOMAIN Digits}
DigitValue(c) == CHOOSE d \in 0 .. 9 : Digits[d + 1] = c

(* strncasecmp(text, prefix, strlen(prefix)) == 0 *)
HasPrefix(text, prefix) ==
  /\ Len(text) >= Len(prefix)
  /\ \A i \in 1 .. Len(prefix) : Upper(text[i]) = prefix[i]

(* The first position from `from` on whose character is not one of `chars`. *)
SkipOver(text, chars, from) ==
  Min({i \in from .. Len(text) + 1 : i = Len(text) + 1 \/ text[i] \notin chars})

(***************************************************************************)
(* strtoul(text, &endptr, 10): white space, a sign, digits.  Without a     *)
(* digit nothing is converted, and endptr stays at the start.              *)
(***************************************************************************)
StrToUL(text) ==
  LET sign  == SkipOver(text, {" ", "\t"}, 1)
      first == IF sign <= Len(text) /\ text[sign] \in {"+", "-"} THEN sign + 1 ELSE sign
      stop  == SkipOver(text, Digit, first)
      n     == FoldLeft(LAMBDA v, c : 10 * v + DigitValue(c), 0,
                        SubSeq(text, first, stop - 1))
  IN IF stop = first
       THEN [value |-> 0, endptr |-> 1]
       ELSE [value |-> IF first > sign /\ text[sign] = "-" THEN (UlongMod - n) % UlongMod
                                                           ELSE n,
             endptr |-> stop]

(* *endptr == '\0' *)
Converted(text) == StrToUL(text).endptr = Len(text) + 1

Value(text) == StrToUL(text).value

-----------------------------------------------------------------------------
(* The table of handlers and the search for the first prefix that fits. *)
Prefix ==
  [SK |-> <<"S", "K">>, RK |-> <<"R", "K">>, MK |-> <<"M", "K">>,
   RPK |-> <<"R", "P", "K">>, PK |-> <<"P", "K">>, RP |-> <<"R", "P">>,
   PA |-> <<"P", "A">>, PI |-> <<"P", "I">>, RE |-> <<"R", "E">>,
   RC |-> <<"R", "C">>, DB |-> <<"D", "B">>, WD |-> <<"W", "D">>]

(* Mutant: the general "RP" stands before its specialisation "RPK". *)
ENTRIES_RPFirst ==
  <<"SK", "RK", "MK", "RP", "PK", "RPK", "PA", "PI", "RE", "RC", "DB", "WD">>

ENTRIES ==
  <<"SK", "RK", "MK", "RPK", "PK", "RP", "PA", "PI", "RE", "RC", "DB", "WD">>

Matching(text) == {i \in DOMAIN ENTRIES : HasPrefix(text, Prefix[ENTRIES[i]])}

Found(text) == Matching(text) # {}

Entry(text) == ENTRIES[Min(Matching(text))]

Arguments(text) == SubSeq(text, Len(Prefix[Entry(text)]) + 1, Len(text))

-----------------------------------------------------------------------------
(* What the handlers make of their arguments: a command or Invalid. *)
Invalid == [op |-> "Invalid"]
TooLong == [op |-> "TooLong"]

(* Mutant: the end of the conversion is not looked at. *)
ReadIndex_EndUnchecked(op, args, limit) ==
  IF Len(args) = 1 /\ Value(args) \in 0 .. limit - 1
    THEN [op |-> op, n |-> Value(args)] ELSE Invalid

(* SKn, RKn, RPKn, REx, RCx: one character that names one of `limit` things. *)
ReadIndex(op, args, limit) ==
  IF Len(args) = 1 /\ Converted(args) /\ Value(args) \in 0 .. limit - 1
    THEN [op |-> op, n |-> Value(args)] ELSE Invalid

(* MKddd *)
ReadPortValue(args) ==
  IF Len(args) <= 3 /\ Converted(args) /\ Value(args) \in 0 .. UINT8_MAX
    THEN [op |-> "MK", n |-> Value(args)] ELSE Invalid

(* PK, PI *)
ReadNothing(op, args) == IF args = <<>> THEN [op |-> op] ELSE Invalid

(* CharToInputPort knows two ports. *)
IsInputPort(c) == Upper(c) \in {"A", "B"}

(* PAy *)
ReadPort(op, args) ==
  IF Len(args) = 1 /\ IsInputPort(args[1])
    THEN [op |-> op, port |-> Upper(args[1])] ELSE Invalid

(* RPyn *)
ReadPortLine(args) ==
  IF /\ IsInputPort(args[1])
     /\ Converted(Tail(args))
     /\ Value(Tail(args)) \in 0 .. INPUT_PORT_NUM_PINS - 1
    THEN [op |-> "RPn", port |-> Upper(args[1]), n |-> Value(Tail(args))] ELSE Invalid

(* DB, DBn, WD, WDn: here the end of the conversion is not looked at. *)
ReadSetting(get, set, args, limit) ==
  CASE Len(args) = 0 -> [op |-> get]
    [] Len(args) = 1 /\ Value(args) \in 0 .. limit - 1 -> [op |-> set, n |-> Value(args)]
    [] OTHER -> Invalid

(* The handler's reading of a text that is short enough. *)
Processed(text) ==
  IF ~Found(text) THEN Invalid
  ELSE LET entry == Entry(text)
           args == Arguments(text)
       IN CASE entry \in {"SK", "RK", "RPK"} -> ReadIndex(entry, args, NUM_RELAYS)
            [] entry = "MK" -> ReadPortValue(args)
            [] entry \in {"PK", "PI"} -> ReadNothing(entry, args)
            [] entry = "RP" /\ Len(args) = 2 -> ReadPortLine(args)
            [] entry = "RP" /\ Len(args) # 2 -> ReadPort("RP", args)
            [] entry = "PA" -> ReadPort("PA", args)
            [] entry \in {"RE", "RC"} -> ReadIndex(entry, args, EVENT_COUNTER_NUM_COUNTERS)
            [] entry = "DB" -> ReadSetting("DB", "DBn", args, DEBOUNCE_SETTING_NUM_SETTINGS)
            [] entry = "WD" -> ReadSetting("WD", "WDn", args, WATCHDOG_SETTING_NUM_SETTINGS)

(* The command a text is taken for. *)
Command(text) == IF Len(text) > MAX_CMD_STR_SIZE THEN TooLong ELSE Processed(text)

=============================================================================
