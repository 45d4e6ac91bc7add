SPECIFICATION Spec
CONSTANTS
    long = long
    short = short
    scalp = scalp
    again = again
    retest = retest
    brief = brief
    Calls = {long}
    Created <- GapCreated
    Expires <- GapExpires
    MinLife = 1
    MaxTime = 16
    Terms <- DuelTerms
    Minute = 2
    LastMinute = 5
    Shapes = {"dip", "rally"}
    OHLC <- MCOHLC
    ClosedMinutes = {3}
    MaxConcurrent = 1
    MaxPerDirectionPerTf = 1
    TFs = {"M1"}
    TfOrder <- OrderM1
    BarMinutes <- MCBarMinutes
    BiasTf = "M15"
    ScalpTfs = {}
    Biases = {"LONG"}
    LightHistory = 40
    MaxPending = 2
    MaxPendingAge = 20
    MaxDistance = 2
    HalfAtr = 0
    RecentCap = 300
    DayStarts = {2, 8}
    ReplayCap <- MCReplayCap
    StartMinute = 1
    PastShapes = {"dip"}
    Lossy = {}
    MaxGap = 1
    MaxLag = 1
    MaxRestarts = 1
INVARIANTS
    NoMinuteSkipped
    VoidNamesAHole
PROPERTIES
    EvaluatesInTime
CHECK_DEADLOCK FALSE
