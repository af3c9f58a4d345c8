SPECIFICATION FairSpec
CONSTANTS
    Calls = {m1, l1}
    Modern = {m1}
    Capable = {m1, l1}
    NoCall = noCall
    MaxAsks = 2
    MaxPending = 1
    MaxLines = 1
    RingLines = 1
CHECK_DEADLOCK FALSE
INVARIANTS
    RightCaller
    Exclusive
    StderrIsOwn
PROPERTIES
    NobodyWaits
