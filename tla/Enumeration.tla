---------------------------- MODULE Enumeration -----------------------------
(***************************************************************************)
(* A host finds out what the device is and configures it.  From power-up   *)
(* until main() is in its loop the device does not answer; then tud_task   *)
(* answers one control request after the other out of the tables and the   *)
(* scratch buffer of UsbDescriptors.  The stack (TinyUSB) and the host are *)
(* external: a string goes to the host packet by packet, each read from    *)
(* the scratch buffer as it is sent, and the host may give a request up    *)
(* and make another, or reset the bus, at any moment.                      *)
(***************************************************************************)
EXTENDS BoardStart, UsbDescriptors, FiniteSetsExt

CONSTANT Garbage  (* What the memory behind the scratch buffer holds *)

VARIABLES
  asked,       (* The host's last request                                    *)
  phase,       (* Whether it waits for tud_task, for data, or is answered    *)
  total,       (* The words the device has for it                            *)
  sent,        (* How many of them have been sent                            *)
  data,        (* Those words                                                *)
  known,       (* The descriptors the host has read                          *)
  isConfigured (* Whether the host has configured the device                 *)

pipeVars == <<asked, phase, total, sent, data>>
vars == <<startVars, scratch, pipeVars, known, isConfigured>>

Phase == {"idle", "setup", "data", "done", "stalled"}

Init ==
  /\ PoweredUp
  /\ scratch = [word \in 0 .. ScratchWords - 1 |-> 0]
  /\ asked = [type |-> "NOTHING"]
  /\ phase = "idle"
  /\ total = 0
  /\ sent = 0
  /\ data = <<>>
  /\ known = {}
  /\ isConfigured = FALSE

-----------------------------------------------------------------------------
(* What the host may ask, by what it knows. *)
Configurations == {d \in known : d.type = "CONFIGURATION"}
LangIds == {d.langid : d \in {d \in known : d.type = "LANGID"}}
KnowsInterface == \E d \in known : d.type = "HID"

StringRequests ==
  [type : {"STRING"}, index : 0 .. Len(STRING_DESCRIPTORS), langid : LangIds \union {0},
   wLength : {2, 255}]

Requests ==
  StringRequests
    \union [type : {"DEVICE"}]
    \union [type : {"CONFIGURATION"}, number : 1 .. 2,
            wLength : {TUD_CONFIG_DESC_LEN} \union {d.wTotalLength : d \in Configurations}]
    \union (IF KnowsInterface THEN [type : {"SET_CONFIGURATION"}, number : 1 .. 2] ELSE {})
    \union (IF isConfigured THEN [type : {"REPORT"}] ELSE {})

Asks(request) ==
  /\ attached
  /\ asked' = request
  /\ phase' = "setup"
  /\ total' = 0
  /\ sent' = 0
  /\ data' = <<>>
  /\ UNCHANGED <<startVars, scratch, known, isConfigured>>

HostAsks ==
  /\ phase \in {"idle", "done", "stalled"}
  /\ \E request \in Requests : Asks(request)

(* A new request puts an end to the one before. *)
HostGivesUp ==
  /\ phase \in {"setup", "data"}
  /\ \E request \in Requests : Asks(request)

HostResets ==
  /\ attached
  /\ asked' = [type |-> "NOTHING"]
  /\ phase' = "idle"
  /\ total' = 0
  /\ sent' = 0
  /\ data' = <<>>
  /\ known' = {}
  /\ isConfigured' = FALSE
  /\ UNCHANGED <<startVars, scratch>>

(* What a host has to ask next to be able to use the device. *)
Needed ==
  CASE \A d \in known : d.type # "DEVICE" -> [type |-> "DEVICE"]
    [] Configurations = {} ->
         [type |-> "CONFIGURATION", number |-> 1, wLength |-> TUD_CONFIG_DESC_LEN]
    [] ~KnowsInterface ->
         [type |-> "CONFIGURATION", number |-> 1, wLength |-> CONFIG_TOTAL_LEN]
    [] ~isConfigured -> [type |-> "SET_CONFIGURATION", number |-> 1]
    [] OTHER -> [type |-> "REPORT"]

HostProceeds ==
  /\ phase \in {"idle", "done", "stalled"}
  /\ Asks(Needed)

-----------------------------------------------------------------------------
(* What tud_task makes of a request. *)
Awaits(type) == InLoop /\ phase = "setup" /\ asked.type = type

Answered(descriptors) ==
  /\ phase' = "done"
  /\ known' = known \union descriptors
  /\ UNCHANGED <<startVars, scratch, asked, total, sent, data>>

Stalls ==
  /\ phase' = "stalled"
  /\ UNCHANGED <<startVars, scratch, asked, total, sent, data, known, isConfigured>>

HandleDevice ==
  /\ Awaits("DEVICE")
  /\ Answered({tud_descriptor_device_cb})
  /\ UNCHANGED isConfigured

(* The parts that end within the length asked for and the total length. *)
PartsWithin(descriptor, length) ==
  LET end(n) == MapThenSumSet(LAMBDA i : descriptor[i].bLength, 1 .. n)
  IN {descriptor[n] : n \in {n \in DOMAIN descriptor :
                              end(n) <= Lesser(length, descriptor[1].wTotalLength)}}

(* The stack passes a configuration's number less one. *)
HandleConfiguration ==
  /\ Awaits("CONFIGURATION")
  /\ LET descriptor == tud_descriptor_configuration_cb(asked.number - 1)
     IN IF descriptor = NULL
          THEN Stalls
          ELSE /\ Answered(PartsWithin(descriptor, asked.wLength))
               /\ UNCHANGED isConfigured

HandleSetConfiguration ==
  /\ Awaits("SET_CONFIGURATION")
  /\ IF tud_descriptor_configuration_cb(asked.number - 1) = NULL
       THEN Stalls
       ELSE Answered({}) /\ isConfigured' = TRUE

HandleReport ==
  /\ Awaits("REPORT")
  /\ Answered(tud_hid_descriptor_report_cb)
  /\ UNCHANGED isConfigured

WordsAsked == asked.wLength \div 2

(* The stack takes the length from the first byte of what it is given. *)
HandleString ==
  /\ Awaits("STRING")
  /\ IF StringSupported(asked.index, asked.langid)
       THEN /\ tud_descriptor_string_cb(asked.index)
            /\ total' = Lesser(WordsAsked, (scratch'[0] % UINT8_MOD) \div 2)
            /\ phase' = "data"
            /\ UNCHANGED <<startVars, asked, sent, data, known, isConfigured>>
       ELSE Stalls

(* One packet; a short one, or the last word asked for, ends the transfer. *)
WordsPerPacket == CFG_TUD_ENDPOINT0_SIZE \div 2

Memory(word) == IF word \in DOMAIN scratch THEN scratch[word] ELSE Garbage

SendPacket ==
  /\ phase = "data"
  /\ sent' = Lesser(total, sent + WordsPerPacket)
  /\ data' = [word \in 0 .. sent' - 1 |-> IF word < sent THEN data[word] ELSE Memory(word)]
  /\ phase' = IF sent' - sent < WordsPerPacket \/ sent' = WordsAsked THEN "done" ELSE "data"
  /\ known' = IF phase' = "done" /\ asked.index = 0 /\ sent' > 1
                THEN known \union {[type |-> "LANGID", langid |-> data'[1], strings |-> {}]}
                ELSE known
  /\ UNCHANGED <<startVars, scratch, asked, total, isConfigured>>

Answer ==
  \/ HandleDevice
  \/ HandleConfiguration
  \/ HandleSetConfiguration
  \/ HandleReport
  \/ HandleString
  \/ SendPacket

-----------------------------------------------------------------------------
StartUp == Start /\ UNCHANGED <<scratch, pipeVars, known, isConfigured>>

Next == StartUp \/ HostAsks \/ HostGivesUp \/ HostResets \/ Answer

Spec == Init /\ [][Next]_vars

(***************************************************************************)
(* main() and the stack go on.  A host that may again and again ask what   *)
(* it needs next in the end does so, whatever else it asks in between.     *)
(***************************************************************************)
FairSpec ==
  /\ Spec
  /\ WF_vars(StartUp)
  /\ WF_vars(Answer)
  /\ SF_vars(HostProceeds)

-----------------------------------------------------------------------------
(* The scratch buffer keeps its size: no string is written past its end. *)
EnumerationTypeOK ==
  /\ returned \in 0 .. Len(Main)
  /\ scratch \in [0 .. ScratchWords - 1 -> Nat]
  /\ phase \in Phase
  /\ asked \in Requests \union [type : {"NOTHING"}]
  /\ total \in 0 .. ScratchWords
  /\ sent \in 0 .. total
  /\ DOMAIN data = 0 .. sent - 1
  /\ isConfigured \in BOOLEAN

(***************************************************************************)
(* UsbDescriptors.c:238-242: what the host receives is the string it asked *)
(* for last, whole or cut to the buffer, with the length it really has,    *)
(* whatever the buffer held before, whichever transfers were given up and  *)
(* however many packets it takes; the length the host reads first, with a  *)
(* short request, is the one the whole string then has.                    *)
(***************************************************************************)
StringsArriveWhole ==
  (phase = "done" /\ asked.type = "STRING") =>
    LET string == STRING_DESCRIPTORS[asked.index + 1]
        length == Lesser(Len(string), ScratchWords - 1)
    IN /\ DOMAIN data = 0 .. Lesser(WordsAsked, length + 1) - 1
       /\ data[0] = 3 * 256 + 2 * (length + 1)
       /\ \A word \in DOMAIN data \ {0} : data[word] = string[word]

(***************************************************************************)
(* Every string a descriptor names is there in the language the device     *)
(* says it speaks (UsbDescriptors.c:56-58, 177, 186 against 219-227, 252). *)
(***************************************************************************)
NamedStringsArrive ==
  (phase = "stalled" /\ asked.type = "STRING") =>
    ~ \/ asked.index = 0
      \/ asked.langid \in LangIds /\ asked.index \in UNION {d.strings : d \in known}

(***************************************************************************)
(* A host that has configured the device finds both endpoints and reports  *)
(* that fit them with their ID, and that hold the longest command with its *)
(* NUL and the longest response (UsbDescriptors.c:83-100, 166, 183-193;    *)
(* tusb_config.h:103-104; AduProtocol.c:40-55).                            *)
(***************************************************************************)
EnumeratedHostCanTalk ==
  (isConfigured /\ \E d \in known : d.type = "REPORT") =>
    \E report, out, in \in known :
      /\ report.type = "REPORT" /\ report.id = REPORT_ID_ADU_CMD_RSP
      /\ out.type = "ENDPOINT" /\ out.direction = "OUT"
      /\ in.type = "ENDPOINT" /\ in.direction = "IN"
      /\ MAX_CMD_STR_SIZE + 1 <= report.output
      /\ report.output + 1 <= out.wMaxPacketSize
      /\ DEC_DIGITS_16_BIT <= report.input
      /\ report.input + 1 <= in.wMaxPacketSize

(***************************************************************************)
(* A host that sees the device sees a board that is ready: every pin set   *)
(* up, the timer of the watchdog and the counters running, and nothing     *)
(* failed on the way (Board.c:155-159, 234-243, 255-262; Main.c:37-41).    *)
(***************************************************************************)
OnlyReadyBoardsAttach ==
  attached => InLoop /\ ~hung /\ pinsSet = DOMAIN Port /\ timerRuns

(***************************************************************************)
(* Unless the board hangs on the way up or the USB stack fails to come up, *)
(* a host that from some time on lets its requests be answered gets to     *)
(* know and configures the device (UsbDescriptors.c:68-71, 158-161,        *)
(* 204-212; Usb.c:147).                                                    *)
(***************************************************************************)
EnumerationCompletes ==
  <>[][~HostGivesUp /\ ~HostResets]_vars
    => <>(hung \/ (InLoop /\ ~attached) \/ (isConfigured /\ \E d \in known : d.type = "REPORT"))

=============================================================================
