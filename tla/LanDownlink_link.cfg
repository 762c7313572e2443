SPECIFICATION FairSpec
CONSTANTS
  DOWNLINK_QUEUE_SIZE = 2
  MAX_RETRY_COUNT = 2
  Lengths = {1, 2}
  MaxDownlinks = 3
  MaxOthers = 1
INVARIANT WholePackets
INVARIANT AcceptedReachesTx
INVARIANT NoFalseAck
PROPERTY DownlinksArrive
