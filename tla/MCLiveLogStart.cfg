SPECIFICATION Spec
CONSTANTS
    Logs = {l1}
    Stoppable = FALSE
    MaxStarts = 1
    MayFail = FALSE
    Logger = Logger
    Free = Free
INVARIANTS AliveHasLogger
CHECK_DEADLOCK FALSE
