SPECIFICATION FairSpec
CONSTANTS
    NChunks = 2
    MaxAttempts = 2
    MaxFaults = 2
    Faults <- AllFaults
INVARIANTS ChainConsistent PromptsAccounted
PROPERTIES ResultsStand Publishes RenderEnds
CHECK_DEADLOCK FALSE
