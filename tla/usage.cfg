SPECIFICATION FairSpec
CONSTANTS
    Servers = {s1}
    Tools = {real, x, y}
    Real = {real}
    Plain = plain
    Overflow = overflow
    Catalog <- CatalogOfAll
    Workers = {ticker, final}
    Ticker = ticker
    Final = final
    NoWorker = noWorker
    MaxPendingKeys = 1
    MaxUnknownTools = 1
    MaxRecorded = 3
    MaxFailures = 1
CHECK_DEADLOCK FALSE
INVARIANTS
    CountsKept
    Bounded
    DeletedStaysDeleted
PROPERTIES
    CountsArrive
