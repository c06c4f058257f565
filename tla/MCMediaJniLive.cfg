SPECIFICATION FairSpec
CONSTANTS
    Managers = {m1}
    Requests = {r1, r2}
    Ctl = {main}
    NativeCalls = {"start"}
    Ops = {"login"}
    SeqMod = 4
    MaxDraws = 0
    MaxStarts = 2
    JniMayFail = FALSE
    None = None
    NoManager = NoManager
    Free = Free
PROPERTIES AnswerArrives ControlReturnsUnlessJammed RequestReturnsUnlessJammed
CHECK_DEADLOCK FALSE
