SPECIFICATION Spec
CONSTANTS
  RtCommands = {"hold", "start", "reset", "dryrun"}
  Lines <- CutLines
  Startup <- NoScript
  MaxQueue = 2
  BlockSegs = 2
  SegCap = 2
  HardLimits = FALSE
INVARIANTS
  TypeOK
  DryRunTorchOff
  StoppedWhenIdle
  HoldCompleteStopped
  PartialBlockKept
  BlocksCarryModalSpindle
  CycleNotLocked
