SPECIFICATION Spec
CONSTANTS
    Logs = {l1, l2, l3}
    Stoppable = TRUE
    MaxStarts = 1
    MayFail = FALSE
    Logger = Logger
    Free = Free
INVARIANTS CleansAll
CHECK_DEADLOCK FALSE
