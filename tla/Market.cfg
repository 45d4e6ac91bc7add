SPECIFICATION MCSpec
CONSTANTS
    ui = ui
    history = history
    Callers = {ui, history}
    BulkCallers = {history}
    Symbols = {"gold", "silver"}
    Wanted = 3
    BulkLimit = 2
    MinLimit = 1
    FirstBars = 2
    LastBar = 5
    MaxTicks = 3
    LastTime = 3
    Minute = 2
    Grace = 0
    RetryAfter = 1
    MaxRefines = 1
    Horizon = 4
    Change = 1
    MaxCrashes = 1
    LastMinute = 6
    FirstNewest = 5
    Wants = {4, 8}
    Snapshot = 2
    WalkPage = 2
    WalkChunk = 1
    MaxStops = 2
    MaxStalls = 1
INVARIANTS
    MarketTypeOK
    NoJobIsLost
    BulkYields
    QuoteIsWatched
    CopyHasNoHole
    ChartIsSound
    StoreIsSound
    WalkIsContiguous
PROPERTIES
    ForegroundIsServed
    ChartKeeps
    NoBarIsDropped
    ChartFills
CHECK_DEADLOCK FALSE
