SPECIFICATION FairSpec
CONSTANTS
  WIFI_ESP_MAXIMUM_RETRY = 1
  MaxStarts = 2
  MaxConfigs = 1
  MaxAps = 1
  MaxDrops = 1
CHECK_DEADLOCK FALSE
INVARIANT FaultNeedsCause
INVARIANT StatusIsTrue
INVARIANT RunningApServes
INVARIANT IdleHasCause
