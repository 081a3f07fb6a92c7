SPECIFICATION HoldSpec
CONSTANTS
  RtCommands = {"reset", "hold", "flood"}
  Lines <- MoveLines
  Startup <- NoScript
  MaxQueue = 2
  BlockSegs = 1
  SegCap = 1
  HardLimits = FALSE
PROPERTIES
  AlarmLock
  ResetNotDropped
  MotionStarts
  ProbeReturns
