SPECIFICATION FairSpec
CONSTANTS
    a = a
    b = b
    alice = alice
    bob = bob
    None = None
    Servers <- OneServer
    Ports <- OnePort
    MaxRunning = 1
    Operators <- OneOperator
    TeardownMayRaise = TRUE
    Nappers <- OneServer
    Kinds <- AllKinds
    MaxCalls = 1
    MaxInFlight = 1
CHECK_DEADLOCK FALSE
INVARIANTS
    DownIsDown
    ErasedStaysDown
PROPERTIES
    EverythingSettles
