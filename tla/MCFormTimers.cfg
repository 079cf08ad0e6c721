SPECIFICATION Spec
CONSTANTS
    Forms = {f1, f2}
    Threads = {t1, t2}
    NoForm = NoForm
    Day = 3
    Times = {0, 1}
    TimeLists = {{0, 1}}
    Half = 2
    MaxTime = 2
    MaxRequests = 3
SYMMETRY Alike
INVARIANTS TypeOK DynamicAlarmed UpdateAtAlarmed TimersAreServed
CHECK_DEADLOCK FALSE
