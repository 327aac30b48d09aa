CONSTANTS
  TimerMod = 3
  MaxLag = 1
  MaxSkew = 0
  NumRelays = 0
  NumInputs = 1
  Bank2 = {0}
  Timeouts = {0}
  CountMod = 3
  DebounceTimes = {0, 1}
  DEFAULT_DEBOUNCE_TIME_US = 1
  NUM_RELAYS = 0
  UINT8_MAX = 0
  INPUT_PORT_NUM_PINS = 1
  EVENT_COUNTER_NUM_COUNTERS = 1
  DEBOUNCE_SETTING_NUM_SETTINGS = 2
  WATCHDOG_SETTING_NUM_SETTINGS = 1
  UlongMod = 1000000
  DEBOUNCE_TIMES_US <- MCShortDebounceTimes
  WATCHDOG_TIMES_US <- MCNoWatchdog
  NoReport = NoReport
  OtherReport = OtherReport
  GetReport = GetReport
  OtherGetReport = OtherGetReport
  Texts <- MCCounterTexts
  ControlReports <- MCCounterControl
  CollectsFirst = TRUE
  BusResets = FALSE
SPECIFICATION Spec
INVARIANT EventsAccountedFor
PROPERTY ImplementsCounters
