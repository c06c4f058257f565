SPECIFICATION FairSpec
CONSTANTS
    Managers = {m1}
    Requests = {r1}
    Ctl = {main}
    NativeCalls = {"start"}
    Ops = {"login", "logout"}
    SeqMod = 6
    MaxDraws = 1
    MaxStarts = 2
    JniMayFail = FALSE
    None = None
    NoManager = NoManager
    Free = Free
PROPERTIES ControlReturns
CHECK_DEADLOCK FALSE
