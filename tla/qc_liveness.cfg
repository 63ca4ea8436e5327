SPECIFICATION FairSpec
CONSTANTS
  Settings <- DraftSettings
  MaxCands = 4
  MaxRevs = 6
  MaxFaults = 1
  MaxOps = 0
PROPERTIES ApprovedDelivers WorkDrains
CHECK_DEADLOCK FALSE
