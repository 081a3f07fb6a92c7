SPECIFICATION Spec
CONSTANTS
  RtCommands = {"reset", "jogcancel", "door", "start", "speed"}
  Lines <- DoorLines
  Startup <- NoScript
  MaxQueue = 1
  BlockSegs = 2
  SegCap = 1
  HardLimits = FALSE
INVARIANTS
  ParkedDeEnergized
PROPERTIES
  JogCancelFlushes
  DoorRestores
