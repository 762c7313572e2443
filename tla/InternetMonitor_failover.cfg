SPECIFICATION FairSpec
CONSTANTS
  Types = {LTE, WIFI}
  g_internet_type = LTE
  g_internet_fallback_type = WIFI
  g_internet_fallback = TRUE
  CONFIG_INTERNET_LTE = LTE
  Startable = {LTE, WIFI}
  Servers = {MQTT}
  INTERNET_MONITOR_FAIL_THRESHOLD = 3
  INTERNET_MONITOR_RECOVER_THRESHOLD = 6
INVARIANT OneConnection
PROPERTY FailsOver
PROPERTY ComesBack
