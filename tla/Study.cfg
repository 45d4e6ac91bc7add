SPECIFICATION MCSpec
CONSTANTS
    first = first
    second = second
    f1 = f1
    f2 = f2
    Calls = {first, second}
    Created <- MCCreated
    Expires <- MCExpires
    MinLife = 1
    MaxTime = 3
    Threads = {t1, t2}
    MaxEvents = 4
    Handles = {v1, v2}
    MaxClock = 3
    Lag = 1
    AnswerGap = 2
    CommandGap = 2
    CardTime = 2
    ThanksTime = 1
    HookTime = 2
    MaxQuestions = 2
    MaxShouts = 2
    MaxMessages = 3
    Logs = {f1, f2}
    MaxLines = 2
    WithId <- MCWithId
    Stamped <- MCStamped
    Overlong <- MCOverlong
    Chunk = 3
    MaxIds = 3
    MaxRotations = 2
    MaxTruncations = 1
    Shapes <- MCShapes
    Warm = 3
    SignificantLeg = 3
    BreakDistance = 2
    MaxBars = 8
    Candles <- MCCandles
    MinGap = 1
    MaxSpan = 4
    JoinOverlap = 50
    MaxCandles = 8
    Legs <- MCLegs
    LegBars = 4
    Displacement = 3
    LeastGap = 1
    MaxCluster = 2
    JoinShare = 50
    MaxUnion = 4
    Seeds = {0, 2}
    MaxBlockBars = 5
    MaxLost = 1
    Prices = {1, 2, 3}
    Penetration = 1
    ReclaimBars = 2
    MaxPoolBars = 2
    MaxDays = 1
    MaxPairs = 1
    MaxHoles = 1
    Quotes = {1, 2, 3}
    BucketsPerBar = 2
    Ttl = 3
    LeastSize = 2
    ReplayPoints = {0, 4}
    MaxBuckets = 5
    MaxMissing = 1
    QueueSize = 2
    FileRows = 2
    KeepFiles = 1
    MaxFrames = 3
    MaxErrors = 1
    MaxLives = 2
INVARIANTS
    StudyTypeOK
    BoardIsHonest
    EveryLineOnce
    StructureIsSound
    ZonesAreSound
    OneBlockPerOrigin
    RaidsAreSound
    BeatsTile
    CandidatesAreSound
    SinkIsHonest
PROPERTIES
    TerminalIsFinal
    ActiveIsIrrevocable
    ShowKeepsItsWord
CHECK_DEADLOCK FALSE
