CONSTANTS
  NUM_RELAYS = 8
  UINT8_MAX = 255
  INPUT_PORT_NUM_PINS = 4
  EVENT_COUNTER_NUM_COUNTERS = 8
  DEBOUNCE_SETTING_NUM_SETTINGS = 3
  WATCHDOG_SETTING_NUM_SETTINGS = 4
  UlongMod = 1000000
  PrefixChar <- MCPrefixChar
  ArgumentChar <- MCArgumentChar
  Memories <- MCMemories
SPECIFICATION TypeSpec
INVARIANTS
  ManualIsObeyed
  NothingElseActs
  ReportsActAsSent
