--------------------------- MODULE MCEnumeration ----------------------------
(***************************************************************************)
(* The board's own tables and buffer, with strings of the lengths they     *)
(* have and characters that tell them apart.  The serial number is set     *)
(* when the firmware is built; here it is one that has to be cut.          *)
(***************************************************************************)
EXTENDS Enumeration

MCLengths == <<12, 24, 40, 30, 23>>

MCStringDescriptors ==
  <<<<LANGID_ENGLISH>>>> \o [s \in 1 .. 5 |-> [c \in 1 .. MCLengths[s] |-> 100 * s + c]]

=============================================================================
