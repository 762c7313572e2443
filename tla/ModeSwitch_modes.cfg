SPECIFICATION ModeSpec
CONSTANTS
  Types = {ETHERNET, WIFI}
  g_internet_type = ETHERNET
  g_internet_fallback_type = WIFI
  g_internet_fallback = TRUE
  CONFIG_INTERNET_LTE = LTE
  CONFIG_INTERNET_WIFI = WIFI
  Buttons = {"button"}
  Startable = {ETHERNET, WIFI}
  Servers = {MQTT, HTTP}
  INTERNET_MONITOR_FAIL_THRESHOLD = 1
  INTERNET_MONITOR_RECOVER_THRESHOLD = 1
INVARIANT PortalUnlessRace
INVARIANT OneServerUnlessRace
