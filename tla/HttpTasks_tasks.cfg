SPECIFICATION FairSpec
CONSTANTS
  HTTP_QUEUE_SIZE = 1
  MaxStarts = 2
  Starters = {monitor, config}
  Stoppers = {config}
CHECK_DEADLOCK FALSE
INVARIANT FaultNeedsCatch
INVARIANT OneOfEachUnlessQuick
PROPERTY RoomAgain
