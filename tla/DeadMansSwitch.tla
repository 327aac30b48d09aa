--------------------------- MODULE DeadMansSwitch ---------------------------
(***************************************************************************)
(* What the watchdog promises, with no timer in it: a switch the host must *)
(* keep talking to.  `silence` is the real time since the host last spoke. *)
(* While the switch is armed with a limit, relays stay as the host left    *)
(* them until the silence exceeds the limit, and then all of them open, no *)
(* more than Slack later.                                                  *)
(***************************************************************************)
EXTENDS Naturals

CONSTANTS
  Limit,    (* The limits the host can choose                      *)
  Disarmed, (* The one among them that means "no limit"            *)
  Slack,    (* How late the switch may act                         *)
  Horizon,  (* The clock of the silence stops here                 *)
  Relay

VARIABLES limit, silence, relays

vars == <<limit, silence, relays>>

Armed == limit # Disarmed

Init ==
  /\ limit = Disarmed
  /\ silence = Horizon
  /\ relays = {}

(* The host speaks: it may move relays and may choose another limit. *)
Speak ==
  /\ limit' \in Limit
  /\ relays' \in SUBSET Relay
  /\ silence' = 0

(* Only a silence longer than the limit trips the switch. *)
Trip ==
  /\ Armed
  /\ silence > limit
  /\ limit' = Disarmed
  /\ relays' = {}
  /\ UNCHANGED silence

(* Time cannot pass the deadline of an armed switch. *)
Pass ==
  /\ Armed => silence < limit + Slack
  /\ silence' = IF silence < Horizon THEN silence + 1 ELSE silence
  /\ UNCHANGED <<limit, relays>>

Next == Speak \/ Trip \/ Pass

Spec == Init /\ [][Next]_vars

=============================================================================
