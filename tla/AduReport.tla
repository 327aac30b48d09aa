----------------------------- MODULE AduReport ------------------------------
(***************************************************************************)
(* The command that a report on the OUT endpoint is taken for.  The stack  *)
(* hands src/Usb.c a buffer and the number of bytes that are new in it;    *)
(* behind them stands what earlier reports left, and behind the buffer     *)
(* what the memory happens to hold.  All of that is `memory`, in which     *)
(* there is a NUL somewhere.                                               *)
(***************************************************************************)
EXTENDS AduCommand

UINT16_MOD == 65536

NUL == "NUL"

Ignored == [op |-> "Ignored"]

(* strnlen(memory, len) *)
StrNLen(memory, len) == Min({len, SelectInSeq(memory, LAMBDA c : c = NUL) - 1})

(* The text the handlers see ends at the first NUL, wherever the report ends. *)
TextAt(memory) == SubSeq(memory, 1, SelectInSeq(memory, LAMBDA c : c = NUL) - 1)

(* Mutant: any text that may stand in a report is short enough. *)
ProcessBuffer_BoundedByReport(memory, len) ==
  IF StrNLen(memory, len) > CFG_TUD_HID_EP_BUFSIZE - 1 THEN TooLong
                                                       ELSE Processed(TextAt(memory))

(* AduProtocolProcessCommand(memory, len): the length looked at is not the text's. *)
ProcessBuffer(memory, len) ==
  IF StrNLen(memory, len) > MAX_CMD_STR_SIZE THEN TooLong ELSE Processed(TextAt(memory))

(* The ID is the first byte, even of a report of none, whose size less one wraps. *)
ReportCommand(memory, bufsize) ==
  IF Head(memory) # REPORT_ID_ADU_CMD_RSP
    THEN Ignored
    ELSE ProcessBuffer(Tail(memory), (bufsize + UINT16_MOD - 1) % UINT16_MOD)

(* What the memory holds once a report has come in over what it held. *)
Over(bytes, memory) == bytes \o SubSeq(memory, Len(bytes) + 1, Len(memory))

=============================================================================
