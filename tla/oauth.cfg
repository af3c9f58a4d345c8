SPECIFICATION Spec
CONSTANTS
    Flows = {f0, f1, f2}
    Earlier = f0
    alice = alice
    bob = bob
    url1 = url1
    url2 = url2
    Owners <- BothOwners
    Configs <- BothConfigs
    FirstRow <- AliceAtFirst
    MaxRequests = 3
    Operators = {o1, o2}
    None = None
    NoRow = NoRow
    NoPass = NoPass
    StopMayRaise = TRUE
SYMMETRY Alike
CHECK_DEADLOCK FALSE
INVARIANTS
    ErasedLeavesNothing
    OneAtATime
    ConnectedBridgeIsFresh
PROPERTIES
    CredentialFits
