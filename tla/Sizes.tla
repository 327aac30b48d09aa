------------------------------- MODULE Sizes --------------------------------
(***************************************************************************)
(* The sizes on which src/AduProtocol.c, src/Usb.c, src/UsbDescriptors.c   *)
(* and src/tusb_config.h have to agree, and the report they all mean.      *)
(***************************************************************************)
MAX_CMD_STR_SIZE == 5

DEC_DIGITS_1_BIT == 1
DEC_DIGITS_4_BIT == 2
DEC_DIGITS_8_BIT == 3
DEC_DIGITS_16_BIT == 5

CFG_TUD_HID_EP_BUFSIZE == 8
CFG_TUD_ENDPOINT0_SIZE == 8

REPORT_ID_ADU_CMD_RSP == "ID1"

=============================================================================
