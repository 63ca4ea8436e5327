SPECIFICATION Spec
CONSTANTS
    Step = 2
    Window = 6
    Ticks = 2
    Requests <- ShortScenes
    Durations <- ShortBeats
    Moves <- SomeMoves
    MaxBeats = 4
INVARIANTS TypeOK Tiles Placed BeatsKept RouteMatchesPlan
CHECK_DEADLOCK FALSE
