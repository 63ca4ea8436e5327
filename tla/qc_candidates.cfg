SPECIFICATION Spec
CONSTANTS
  Settings <- MixedSettings
  MaxCands = 6
  MaxRevs = 6
  MaxFaults = 1
  MaxOps = 1
CONSTRAINT Narrowing
INVARIANTS LineageWhole PlannerOnce GpuExclusive DecisionHolds
CHECK_DEADLOCK FALSE
