---------------------------- MODULE MCAduManual -----------------------------
(***************************************************************************)
(* The commands of the board itself: eight relays, eight counters, two     *)
(* ports of four lines.  Arguments are made of characters on both sides of *)
(* every limit (3, 7, 8, 255), the port letters and what strtoul skips.    *)
(***************************************************************************)
EXTENDS AduManual

MCPrefixChar ==
  {"S", "K", "R", "M", "P", "A", "I", "E", "C", "D", "B", "W", "k", "p", "r", "d"}

MCArgumentChar ==
  {"A", "b", "K", "0", "2", "3", "5", "6", "7", "8", " ", "-", "x"}

(* An earlier command, and one that filled the buffer and runs on behind it. *)
MCMemories ==
  {<<"ID1", "S", "K", "0", NUL, NUL, NUL, NUL, NUL>>,
   <<"ID1", "R", "P", "K", "1", "2", "3", "4", "5", "6", NUL>>}

=============================================================================
