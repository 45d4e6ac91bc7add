SPECIFICATION StoreSpec
CONSTANTS
    Horizon = 3
    Change = 1
    MaxCrashes = 1
INVARIANT ChangedClockReconstructs
CHECK_DEADLOCK FALSE
