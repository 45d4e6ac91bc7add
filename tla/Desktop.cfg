SPECIFICATION MCSpec
CONSTANTS
    Calls = {c}
    Created <- MCCreated
    Expires <- MCExpires
    MinLife = 0
    MaxTime = 1
    MaxLines = 2
    Procs = {p, q}
    Accounts = {a, b}
    NoAccount = none
    Hurried = FALSE
    MaxEngines = 2
    MaxRequests = 4
    MaxFaults = 1
INVARIANTS
    DesktopTypeOK
    FileIsSound
    PendingIsTheChilds
    AccountsAgree
PROPERTIES
    ImplementsLedger
    ConnectEnds
CHECK_DEADLOCK FALSE
