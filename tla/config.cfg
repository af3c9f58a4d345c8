SPECIFICATION ConfigSpec
CONSTANTS
    Creates <- MCCreates
    Changes <- MCChanges
    MaxEdits = 3
CHECK_DEADLOCK FALSE
INVARIANTS
    ResendIsNoChange
    SecretsStayPut
    BridgeIsCurrent
PROPERTIES
    EnablingIsGated
