SPECIFICATION FairSpec
CONSTANTS
    long = long
    short = short
    scalp = scalp
    again = again
    retest = retest
    brief = brief
    Calls = {long, short}
    Created <- DuelCreated
    Expires <- LiveExpires
    MinLife = 1
    MaxTime = 10
    Terms <- DuelTerms
    Minute = 1
    LastMinute = 6
    Shapes = {"dip", "rally"}
    OHLC <- MCOHLC
    ClosedMinutes = {}
    MaxConcurrent = 1
    MaxPerDirectionPerTf = 1
    TFs = {"M1"}
    TfOrder <- OrderM1
    BarMinutes <- MCBarMinutes
    BiasTf = "M15"
    ScalpTfs = {}
    Biases = {"LONG"}
    LightHistory = 40
    MaxPending = 2
    MaxPendingAge = 2
    MaxDistance = 2
    HalfAtr = 0
    RecentCap = 300
    DayStarts = {1}
    ReplayCap <- MCReplayCap
    StartMinute = 1
    PastShapes = {"dip"}
    Lossy = {}
    MaxGap = 0
    MaxLag = 1
    MaxRestarts = 0
INVARIANTS
    FillsWithinPendingAge
PROPERTIES
    ActiveResolves
CHECK_DEADLOCK FALSE
