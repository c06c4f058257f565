SPECIFICATION FairSpec
CONSTANTS
    Managers = {m1}
    Requests = {r1}
    Ctl = {main}
    NativeCalls = {"start"}
    Ops = {"login", "logout", "sendMsgToUser"}
    SeqMod = 6
    MaxDraws = 1
    MaxStarts = 1
    JniMayFail = FALSE
    None = None
    NoManager = NoManager
    Free = Free
PROPERTIES MessageCallbackCalled
CHECK_DEADLOCK FALSE
