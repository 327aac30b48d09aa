CONSTANTS
  TimerMod = 4
  MaxLag = 1
  MaxSkew = 0
  NumRelays = 1
  NumInputs = 0
  Bank2 = {}
  Timeouts = {0, 2}
  CountMod = 2
  DebounceTimes = {1, 2}
  DEFAULT_DEBOUNCE_TIME_US = 1
  NUM_RELAYS = 1
  UINT8_MAX = 1
  INPUT_PORT_NUM_PINS = 0
  EVENT_COUNTER_NUM_COUNTERS = 0
  DEBOUNCE_SETTING_NUM_SETTINGS = 2
  WATCHDOG_SETTING_NUM_SETTINGS = 2
  UlongMod = 1000000
  DEBOUNCE_TIMES_US <- MCDebounceTimes
  WATCHDOG_TIMES_US <- MCWatchdogTimes
  NoReport = NoReport
  OtherReport = OtherReport
  GetReport = GetReport
  OtherGetReport = OtherGetReport
  Texts <- MCSettingTexts
  ControlReports <- MCSettingControl
  CollectsFirst = FALSE
  BusResets = FALSE
SPECIFICATION Spec
PROPERTY FailedCommandsChangeNothing
