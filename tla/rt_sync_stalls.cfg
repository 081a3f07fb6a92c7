SPECIFICATION FairSpec
CONSTANTS
  RtCommands = {}
  Lines <- EndLines
  Startup <- NoScript
  MaxQueue = 2
  BlockSegs = 2
  SegCap = 2
  HardLimits = FALSE
PROPERTIES
  SyncReturns
