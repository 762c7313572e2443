SPECIFICATION LteFairSpec
CONSTANTS
  MaxStarts = 1
  MaxReinits = 0
  MaxDrops = 1
CHECK_DEADLOCK FALSE
PROPERTY PppRecovers
