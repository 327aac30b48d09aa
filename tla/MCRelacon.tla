----------------------------- MODULE MCRelacon ------------------------------
(***************************************************************************)
(* The whole firmware on small ports and a short timer.  The settings      *)
(* tables keep their order (the first watchdog setting is "disabled") with *)
(* times of a few ticks.                                                   *)
(***************************************************************************)
EXTENDS Relacon

(* "WD" and "WDn": disabled, and one tick or two. *)
MCShortWatchdogTimes == [n \in 0 .. 1 |-> n]
MCWatchdogTimes == [n \in 0 .. 1 |-> IF n = 0 THEN 0 ELSE 2]
MCNoWatchdog == [n \in 0 .. 0 |-> 0]

(* "DB" and "DBn": the longer time first, as in the code. *)
MCDebounceTimes == [n \in 0 .. 1 |-> IF n = 0 THEN 2 ELSE 1]
MCShortDebounceTimes == [n \in 0 .. 1 |-> 1 - n]
MCOneDebounceTime == [n \in 0 .. 0 |-> 1]

(* Relay and watchdog commands, one that is too long and an unknown one. *)
MCRelayTexts ==
  {<<"S", "K", "0">>, <<"M", "K", "2">>, <<"R", "K", "0">>, <<"W", "D", "1">>,
   <<"w", "d">>, <<"d", "b">>, <<"P", "K">>, <<"M", "K", "0", "0", "0", "1">>, <<"?">>}

MCRelayControl == {GetReport, OtherGetReport, OtherReport, <<"S", "K", "0">>}

(* Counter and debounce commands, and a reading of the line. *)
MCCounterTexts ==
  {<<"R", "C", "0">>, <<"r", "e", "0">>, <<"R", "P", "a", "0">>, <<"d", "b", "0">>,
   <<"D", "B", "1">>}

MCCounterControl == {}

(* Settings and relays, for the runs about one host and its requests. *)
MCSettingTexts ==
  {<<"S", "K", "0">>, <<"W", "D", "1">>, <<"W", "D">>, <<"D", "B", "0">>,
   <<"D", "B">>}

(* Commands with and without a response, for the run about a careless host. *)
MCProgressTexts == {<<"S", "K", "0">>, <<"W", "D", "1">>, <<"W", "D">>}

MCProgressControl == {GetReport, OtherGetReport, <<"S", "K", "0">>}

MCSettingControl == {GetReport, OtherReport, <<"S", "K", "0">>}

(* One command with a response of three digits and one that is too long. *)
MCQueryTexts == {<<"P", "K">>, <<"R", "P", "K", "0">>, <<"P", "K", " ", " ", " ", " ">>}

MCQueryControl == {GetReport, OtherGetReport}

=============================================================================
