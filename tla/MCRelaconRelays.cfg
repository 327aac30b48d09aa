CONSTANTS
  TimerMod = 4
  MaxLag = 1
  MaxSkew = 1
  NumRelays = 2
  NumInputs = 0
  Bank2 = {}
  Timeouts = {0, 2}
  CountMod = 2
  DebounceTimes = {1}
  DEFAULT_DEBOUNCE_TIME_US = 1
  NUM_RELAYS = 2
  UINT8_MAX = 3
  INPUT_PORT_NUM_PINS = 0
  EVENT_COUNTER_NUM_COUNTERS = 0
  DEBOUNCE_SETTING_NUM_SETTINGS = 1
  WATCHDOG_SETTING_NUM_SETTINGS = 2
  UlongMod = 1000000
  DEBOUNCE_TIMES_US <- MCOneDebounceTime
  WATCHDOG_TIMES_US <- MCWatchdogTimes
  NoReport = NoReport
  OtherReport = OtherReport
  GetReport = GetReport
  OtherGetReport = OtherGetReport
  Texts <- MCRelayTexts
  ControlReports <- MCRelayControl
  CollectsFirst = TRUE
  BusResets = FALSE
SPECIFICATION Spec
INVARIANTS
  SettingsAreReadable
  AnsweredPeriodHolds
  ResponsesMatchCommands
PROPERTIES
  RelaysCloseOnlyOnCommand
  ImplementsWatchdog
