SPECIFICATION Spec
CONSTANTS
    Remakes <- Twice
    MaxFinals = 1
    MaxJobs = 1
    MaxFaults = 2
    Faults <- AllFaults
INVARIANTS RemakesConsistent PostedOnce RouteKept FinalIsSnapshot
PROPERTIES WorkOnce
CHECK_DEADLOCK FALSE
