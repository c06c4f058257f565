SPECIFICATION FairSpec
CONSTANTS
    Logs = {l1, l2, l3}
    Stoppable = TRUE
    MaxStarts = 2
    MayFail = TRUE
    Logger = Logger
    Free = Free
INVARIANTS TypeOK NoLostWakeup DeliveredOnce JoinedBeforeDestroy
PROPERTIES Fifo EventuallyLogged CallerReturns
CHECK_DEADLOCK FALSE
