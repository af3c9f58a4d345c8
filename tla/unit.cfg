SPECIFICATION FairSpec
CONSTANTS
    MaxAttempts = 2
    PreLaunch <- BothScripts
    ping = ping
    call = call
    once = once
    Checks <- AllChecks
    Periodic <- PeriodicChecks
    NoCheck = NoCheck
    CleanupMayRaise = TRUE
    PipeMayBeHeld = TRUE
CHECK_DEADLOCK FALSE
INVARIANTS
    NothingLeaks
PROPERTIES
    StopSticks
    VerdictIsCurrent
    ImplementsContract
    Settles
