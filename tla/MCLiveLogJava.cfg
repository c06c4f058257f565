SPECIFICATION Spec
CONSTANTS
    Threads = {t1, t2}
    MaxMessages = 2
    Creators = {c1, c2}
    Readers = {g1, g2}
    MaxGets = 2
    Destroyers = {d1}
    MaxDestroys = 1
    MAX_LENGTH = 1
SYMMETRY Symmetry
INVARIANTS TypeOK AtMostOnce LostOnlyInGap OneInstance Bounded
CHECK_DEADLOCK FALSE
