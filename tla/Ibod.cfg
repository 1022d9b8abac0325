SPECIFICATION FairSpec
CONSTANTS
  Dirs = {"in"}
  Configs <- MCConfigs
  Second = 2
  Word = 16
  Line = 2
  Loads = {0, 2}
  MaxChannels = 2
  MaxLoss = 3
  MaxDelay = 2
  MaxUp = 1
  MaxEvents = 1
INVARIANTS
  TypeOK
  RateIsCarried
  NoFault
PROPERTIES
  StaysUp
  LoadAnswered
  IdleReleased
CHECK_DEADLOCK FALSE
