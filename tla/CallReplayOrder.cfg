SPECIFICATION Spec
CONSTANTS
    long = long
    short = short
    scalp = scalp
    again = again
    retest = retest
    brief = brief
    Calls = {long}
    Created <- OneCreated
    Expires <- OneExpires
    MinLife = 1
    MaxTime = 10
    Terms <- SlowTerms
    Minute = 1
    LastMinute = 6
    Shapes = {"quiet", "rally"}
    OHLC <- MCOHLC
    ClosedMinutes = {}
    MaxConcurrent = 1
    MaxPerDirectionPerTf = 1
    TFs = {"M15", "M1"}
    TfOrder <- OrderBoth
    BarMinutes <- MCBarMinutes
    BiasTf = "M15"
    ScalpTfs = {}
    Biases = {"LONG"}
    LightHistory = 40
    MaxPending = 2
    MaxPendingAge = 10
    MaxDistance = 1
    HalfAtr = 0
    RecentCap = 300
    DayStarts = {0}
    ReplayCap <- MCReplayCap
    StartMinute = 3
    PastShapes = {"rally"}
    Lossy = {}
    MaxGap = 0
    MaxLag = 1
    MaxRestarts = 0
INVARIANTS
    NoSweepPrecedesCreation
CHECK_DEADLOCK FALSE
