SPECIFICATION HoldSpec
CONSTANTS
  RtCommands = {"reset", "hold", "feed", "stopovr"}
  Lines <- AlarmLines
  Startup <- TorchScript
  MaxQueue = 1
  BlockSegs = 1
  SegCap = 1
  HardLimits = TRUE
INVARIANTS
  AlarmQuiet
PROPERTIES
  AlarmLock
  ResetServed
  HoldNeedsOperator
  HoldEnds
