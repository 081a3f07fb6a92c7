SPECIFICATION Spec
CONSTANTS
  Lines <- FewLines
  Overrides <- Factors
  MaxBlocks = 3
  RapidRate = 3
  Slower = TRUE
INVARIANTS
  PlanFeasible
