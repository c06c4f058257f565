SPECIFICATION FairSpec
CONSTANTS
    Logs = {l1}
    Stoppable = TRUE
    MaxStarts = 1
    MayFail = FALSE
    Logger = Logger
    Free = Free
PROPERTIES StopComesToClean
CHECK_DEADLOCK FALSE
