SPECIFICATION Spec
CONSTANTS
    Managers = {m1}
    Requests = {r1, r2}
    Ctl = {main}
    NativeCalls = {"start"}
    Ops = {"login", "sendMsgToUser"}
    SeqMod = 3
    MaxDraws = 2
    MaxStarts = 2
    JniMayFail = TRUE
    None = None
    NoManager = NoManager
    Free = Free
SYMMETRY Symmetry
INVARIANTS TypeOK CallbackOwnership CalledOnce OwnAnswer ReceiverSeesLiveInstance OneInstance
PROPERTIES KeepsContract
CHECK_DEADLOCK FALSE
