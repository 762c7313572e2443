SPECIFICATION FairSpec
CONSTANTS
  Bodies <- PostBodies
  OtherCommands <- Commands
  CONFIG_QUEUE_SIZE = 1
  MaxPosts = 2
  MaxOthers = 1
INVARIANT FaultNeedsTimeout
INVARIANT WaiterHeldOnce
INVARIANT OkMeansTaken
INVARIANT LastAnswerReachesSource
PROPERTY PostEnds
