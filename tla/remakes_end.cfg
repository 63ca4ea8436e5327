SPECIFICATION FairSpec
CONSTANTS
    Remakes <- TwoBatches
    MaxFinals = 0
    MaxJobs = 1
    MaxFaults = 1
    Faults <- AllFaults
PROPERTIES BatchEnds
CHECK_DEADLOCK FALSE
