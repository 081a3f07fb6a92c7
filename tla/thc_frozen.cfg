SPECIFICATION Spec
CONSTANTS
  Volts <- Readings
  Pulses <- StepPulses
  Nominals <- HostNominals
  ArcOkVolts = 4
  LostVolts = 2
  Tolerance = 0
  OkDelay = 1
  LostDelay = 1
  SampleDelay = 1
  CalcInterval = 1
  SampleSize = 2
  HistorySize = 2
  Cutoff = 50
  InitialMax = 2
  MaxPass = 1
INVARIANTS
  FrozenHolds
