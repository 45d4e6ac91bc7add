SPECIFICATION Spec
CONSTANTS
    long = long
    short = short
    scalp = scalp
    again = again
    retest = retest
    brief = brief
    Calls = {long, short}
    Created <- DuelCreated
    Expires <- DuelExpires
    MinLife = 1
    MaxTime = 10
    Terms <- DuelTerms
    Minute = 1
    LastMinute = 4
    Shapes = {"span", "rally", "wide"}
    OHLC <- MCOHLC
    ClosedMinutes = {}
    MaxConcurrent = 2
    MaxPerDirectionPerTf = 1
    TFs = {"M1"}
    TfOrder <- OrderM1
    BarMinutes <- MCBarMinutes
    BiasTf = "M15"
    ScalpTfs = {}
    Biases = {"LONG"}
    LightHistory = 40
    MaxPending = 2
    MaxPendingAge = 10
    MaxDistance = 2
    HalfAtr = 0
    RecentCap = 300
    DayStarts = {1, 3}
    ReplayCap <- MCReplayCap
    StartMinute = 1
    PastShapes = {"span"}
    Lossy = {}
    MaxGap = 0
    MaxLag = 1
    MaxRestarts = 1
INVARIANTS
    ExposureWithinLimits
    OutcomeMatchesEvidence
CHECK_DEADLOCK FALSE
