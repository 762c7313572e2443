SPECIFICATION FairSpec
CONSTANTS
  Versions = {1, 2}
  ServerVersion = 2
  LAN_FOTA_TIMEOUT = 2
  Commands = {"CFFW", "ML", "FW"}
  MaxCommands = 1
  MaxFlips = 2
  MaxRestarts = 1
INVARIANT ApHasOwner
INVARIANT TriggerSound
PROPERTY LanThenWan
PROPERTY WanFotaEndsByRestart
PROPERTY TimedWaitEnds
PROPERTY HandshakeAnswered
