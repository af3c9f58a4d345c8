SPECIFICATION Spec
CONSTANTS
    a = a
    b = b
    alice = alice
    bob = bob
    None = None
    Servers <- TwoServers
    Ports <- TwoPorts
    MaxRunning = 1
    Operators <- BothOperators
    TeardownMayRaise = TRUE
    Nappers = {}
    Kinds = {"restart"}
    MaxCalls = 2
    MaxInFlight = 0
SYMMETRY Alike
CHECK_DEADLOCK FALSE
INVARIANTS
    PoolsHold
