SPECIFICATION FairSpec
CONSTANTS
    Servers = {s1, s2}
    Slug <- OneSlug
    Providers = {"bearer"}
    Requests = {r1, r2}
    NoRequest = noRequest
    MaxParked = 1
    MaxGens = 3
    MaxChanges = 2
CHECK_DEADLOCK FALSE
INVARIANTS
    CompatibleMounted
    TurnsAccounted
    DrainedNeverCuts
PROPERTIES
    Settles
