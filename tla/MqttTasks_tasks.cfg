SPECIFICATION FairSpec
CONSTANTS
  MQTT_PUBLISH_QUEUE_DEPTH = 1
  MaxStarts = 2
  MaxConfigs = 1
CHECK_DEADLOCK FALSE
INVARIANT NoStray
INVARIANT OnePublisher
INVARIANT FaultNeedsCatch
INVARIANT ConnectedIsTrue
