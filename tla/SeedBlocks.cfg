SPECIFICATION BlockSpec
CONSTANTS
    Legs <- MCLegs
    LegBars = 3
    Displacement = 3
    LeastGap = 1
    MaxCluster = 2
    JoinShare = 50
    MaxUnion = 4
    Seeds = {0, 4}
    MaxBlockBars = 6
    MaxLost = 0
INVARIANT BlocksBreakOnClose
CHECK_DEADLOCK FALSE
