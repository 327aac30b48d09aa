---------------------------- MODULE BoardRelays -----------------------------
(***************************************************************************)
(* The output port of src/boards/Board.h.  The port's uint8_t is the set   *)
(* of relays that are closed.                                              *)
(***************************************************************************)
EXTENDS Naturals

CONSTANT NumRelays  (* NUM_RELAYS: 8 on the board *)

ASSUME RelaysAssumption == NumRelays \in Nat

VARIABLE relays  (* The output register of the relay port *)

Relay == 0 .. NumRelays - 1

BoardReadRelays == relays

(* The whole output register is written at once. *)
BoardWriteRelays(closed) == relays' = closed

=============================================================================
