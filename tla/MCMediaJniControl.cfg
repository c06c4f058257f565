SPECIFICATION Spec
CONSTANTS
    Managers = {m1, m2}
    Requests = {r1}
    Ctl = {main, other}
    NativeCalls = {"start", "stop", "destory"}
    Ops = {"login"}
    SeqMod = 4
    MaxDraws = 0
    MaxStarts = 2
    JniMayFail = FALSE
    None = None
    NoManager = NoManager
    Free = Free
SYMMETRY Symmetry
INVARIANTS CallbackOwnership OneInstance JoinedDetached
PROPERTIES KeepsContract
CHECK_DEADLOCK FALSE
