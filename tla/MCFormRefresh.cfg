SPECIFICATION Spec
CONSTANTS
    Threads = {t1, t2}
    LIMIT_COUNT = 1
    MaxEvents = 4
SYMMETRY ThreadSymmetry
INVARIANTS
    TypeOK
    NothingForgotten
    AddNeedIsAwaited
    CountIsBounded
CHECK_DEADLOCK FALSE
