SPECIFICATION FairSpec
CONSTANTS
    Count = 2
    Overlap = 0
    MaxTime = 4
    MaxFaults = 2
CHECK_DEADLOCK FALSE
INVARIANTS
    CopyIsCurrent
PROPERTIES
    DropsOnlyGone
    CatchesUp
