SPECIFICATION Spec
CONSTANTS
  Lines <- SomeLines
  Overrides <- Factors
  MaxBlocks = 4
  RapidRate = 3
  Slower = FALSE
INVARIANTS
  TypeOK
  PlannedValid
  PlanFeasible
  PlanOptimal
PROPERTIES
  SpeedContinuous
