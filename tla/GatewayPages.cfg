SPECIFICATION Spec
CONSTANTS
    ui = ui
    service = service
    history = history
    Callers = {ui, history}
    BulkCallers = {history}
    Symbols = {"gold"}
    Wanted = 3
    BulkLimit = 2
    MinLimit = 1
    FirstBars = 4
    LastBar = 5
INVARIANT NoBarTwice
CHECK_DEADLOCK FALSE
