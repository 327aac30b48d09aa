CONSTANTS
  TimerMod = 8
  MaxLag = 2
  MaxSkew = 1
  NumInputs = 1
  Bank2 = {}
  CountMod = 3
  DebounceTimes = {1, 4}
  DEFAULT_DEBOUNCE_TIME_US = 1
SPECIFICATION CounterFairSpec
INVARIANTS
  EventCounterTypeOK
  EventCounterInv
PROPERTIES
  DebounceHonoured
  NoMissedEvent
  Rearmed
