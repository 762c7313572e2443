SPECIFICATION LteFairSpec
CONSTANTS
  MaxStarts = 2
  MaxReinits = 2
  MaxDrops = 2
CHECK_DEADLOCK FALSE
INVARIANT FaultNeedsCause
PROPERTY StopReturns
