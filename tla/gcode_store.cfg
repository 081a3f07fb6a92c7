SPECIFICATION Spec
CONSTANTS
  MM_PER_INCH = 2
  Lines <- StoreLines
  StartupLines <- StoreStartup
  SystemLines <- StoreCommands
  Records = {"G54", "G55", "G30"}
  Bound = 1
  WcoRefresh = 2
INVARIANTS
  OrderIndependent
  CoordSystemCurrent
  OffsetsReported
PROPERTIES
  ExecutesWhole
