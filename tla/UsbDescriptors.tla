--------------------------- MODULE UsbDescriptors ---------------------------
(***************************************************************************)
(* src/UsbDescriptors.c: the tables that tell the host what the device is, *)
(* and the callbacks by which the USB stack fetches them.  A descriptor is *)
(* a record of the fields a host acts on; `strings` are the indices of the *)
(* strings it names.  A string descriptor is built in one scratch buffer   *)
(* of 16-bit words, whose first holds its type and its length in bytes.    *)
(***************************************************************************)
EXTENDS Integers, Sequences, Sizes

CONSTANTS
  STRING_DESCRIPTORS,  (* The language ID, then the characters of each string *)
  ScratchWords         (* The words of the scratch buffer: 32                 *)

LANGID_ENGLISH == 1033

ASSUME UsbDescriptorsAssumption ==
  /\ ScratchWords \in 2 .. 127
  /\ STRING_DESCRIPTORS \in Seq(Seq(Nat))
  /\ Len(STRING_DESCRIPTORS) > 0
  /\ STRING_DESCRIPTORS[1] = <<LANGID_ENGLISH>>

VARIABLE scratch  (* stringDescriptorScratchBuffer *)

-----------------------------------------------------------------------------
DEVICE_DESCRIPTOR ==
  [type |-> "DEVICE", bMaxPacketSize0 |-> CFG_TUD_ENDPOINT0_SIZE,
   bNumConfigurations |-> 1, strings |-> {1, 2, 3}]

(* Mutant: the count includes the byte of the report ID. *)
HID_REPORT_COUNT_WithID == CFG_TUD_HID_EP_BUFSIZE

HID_REPORT_COUNT == CFG_TUD_HID_EP_BUFSIZE - 1

(* One collection for each report ID: the bytes of its two reports. *)
HID_REPORT_DESCRIPTOR ==
  {[type |-> "REPORT", id |-> id, input |-> HID_REPORT_COUNT, output |-> HID_REPORT_COUNT,
    strings |-> {}] : id \in {REPORT_ID_ADU_CMD_RSP, "ID2", "ID3"}}

(* The parts of the configuration, as the stack's macros lay them out. *)
TUD_CONFIG_DESC_LEN == 9
TUD_HID_INOUT_DESC_LEN == 9 + 9 + 7 + 7

(* Mutant: the length of an interface with an IN endpoint only. *)
CONFIG_TOTAL_LEN_InOnly == TUD_CONFIG_DESC_LEN + 9 + 9 + 7

CONFIG_TOTAL_LEN == TUD_CONFIG_DESC_LEN + TUD_HID_INOUT_DESC_LEN

CONFIGURATION_DESCRIPTOR ==
  <<[type |-> "CONFIGURATION", bLength |-> TUD_CONFIG_DESC_LEN,
     wTotalLength |-> CONFIG_TOTAL_LEN, strings |-> {4}],
    [type |-> "INTERFACE", bLength |-> 9, strings |-> {5}],
    [type |-> "HID", bLength |-> 9, strings |-> {}],
    [type |-> "ENDPOINT", bLength |-> 7, direction |-> "OUT",
     wMaxPacketSize |-> CFG_TUD_HID_EP_BUFSIZE, strings |-> {}],
    [type |-> "ENDPOINT", bLength |-> 7, direction |-> "IN",
     wMaxPacketSize |-> CFG_TUD_HID_EP_BUFSIZE, strings |-> {}]>>

-----------------------------------------------------------------------------
tud_descriptor_device_cb == DEVICE_DESCRIPTOR

tud_hid_descriptor_report_cb == HID_REPORT_DESCRIPTOR

NULL == <<>>

(* Mutant: the stack is taken to pass the configuration's number. *)
tud_descriptor_configuration_cb_ByNumber(index) ==
  IF index # 1 THEN NULL ELSE CONFIGURATION_DESCRIPTOR

tud_descriptor_configuration_cb(index) ==
  IF index # 0 THEN NULL ELSE CONFIGURATION_DESCRIPTOR

-----------------------------------------------------------------------------
(* Mutant: the last string is out of range. *)
StringSupported_OffByOne(index, langid) ==
  /\ index < Len(STRING_DESCRIPTORS) - 1
  /\ index # 0 => langid = LANGID_ENGLISH

(* Any other request makes tud_descriptor_string_cb return NULL. *)
StringSupported(index, langid) ==
  /\ index < Len(STRING_DESCRIPTORS)
  /\ index # 0 => langid = LANGID_ENGLISH

StringOf(index) == STRING_DESCRIPTORS[index + 1]

Lesser(a, b) == IF a < b THEN a ELSE b

(* Mutant: no room is left for the first word. *)
NumChars_NoHeader(index) == Lesser(Len(StringOf(index)), ScratchWords)

NumChars(index) == Lesser(Len(StringOf(index)), ScratchWords - 1)

TUSB_DESC_STRING == 3
UINT8_MOD == 256

(* Mutant: the length is that of the string before it is cut. *)
BLength_Uncut(index) == (2 + 2 * Len(StringOf(index))) % UINT8_MOD

BLength(index) == (2 + 2 * NumChars(index)) % UINT8_MOD

(* The words behind the string keep what an earlier one left there. *)
tud_descriptor_string_cb(index) ==
  scratch' = [word \in DOMAIN scratch \union 0 .. NumChars(index) |->
                IF word = 0 THEN TUSB_DESC_STRING * UINT8_MOD + BLength(index)
                ELSE IF word <= NumChars(index) THEN StringOf(index)[word]
                ELSE scratch[word]]

=============================================================================
