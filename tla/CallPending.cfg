SPECIFICATION Spec
CONSTANTS
    long = long
    short = short
    scalp = scalp
    again = again
    retest = retest
    brief = brief
    Calls = {long, short, retest, brief, scalp, again}
    Created <- PendingCreated
    Expires <- PendingExpires
    MinLife = 1
    MaxTime = 10
    Terms <- PendingTerms
    Minute = 1
    LastMinute = 4
    Shapes = {"quiet", "dip"}
    OHLC <- MCOHLC
    ClosedMinutes = {}
    MaxConcurrent = 1
    MaxPerDirectionPerTf = 1
    TFs = {"M15", "M1"}
    TfOrder <- OrderBoth
    BarMinutes <- MCBarMinutes
    BiasTf = "M15"
    ScalpTfs = {"M1"}
    Biases = {"LONG"}
    LightHistory = 40
    MaxPending = 1
    MaxPendingAge = 2
    MaxDistance = 2
    HalfAtr = 0
    RecentCap = 300
    DayStarts = {1, 3}
    ReplayCap <- MCReplayCap
    StartMinute = 1
    PastShapes = {"quiet"}
    Lossy = {"M15"}
    MaxGap = 0
    MaxLag = 1
    MaxRestarts = 1
INVARIANTS
    ServiceTypeOK
    PublishingIsBounded
CHECK_DEADLOCK FALSE
