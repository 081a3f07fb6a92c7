SPECIFICATION Spec
CONSTANTS
  RtCommands = {"hold"}
  Lines <- CutLines
  Startup <- NoScript
  MaxQueue = 2
  BlockSegs = 2
  SegCap = 2
  HardLimits = FALSE
PROPERTIES
  NoIgnitionInHold
