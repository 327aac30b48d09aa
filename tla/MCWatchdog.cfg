CONSTANTS
  TimerMod = 8
  MaxLag = 2
  NumRelays = 2
  Timeouts = {0, 2, 5}
SPECIFICATION WatchdogFairSpec
INVARIANTS
  WatchdogTypeOK
  WatchdogInv
  SilentHostMeansOpenRelays
PROPERTIES
  TripsOnlyAfterSilence
  ImplementsSwitch
  SilenceIsNoticed
