SPECIFICATION AppSpec
CONSTANTS
    Managers = {m1}
    Requests = {r1, r2}
    Ctl = {main}
    UI = main
    NativeCalls = {"start"}
    Ops = {"login", "logout", "sendMsgToUser"}
    ErrCodes = {0, 10, 26}
    UserIds = {5, 40}
    IntRange = 16
    SeqMod = 4
    MaxDraws = 0
    MaxStarts = 2
    JniMayFail = FALSE
    None = None
    NoManager = NoManager
    Free = Free
SYMMETRY Symmetry
INVARIANTS AppTypeOK StartedWhenClickable ReportsReachStatus SuccessIsReal LoginShown
CHECK_DEADLOCK FALSE
