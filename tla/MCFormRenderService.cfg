CONSTANTS
    Ids = {1}
    NoId = 0
    MaxInbox = 2
    MaxOutbox = 1
    Faulty = TRUE
SPECIFICATION FairSpec
INVARIANTS
    TypeOK
    TimerHitsOnlyRecycle
    JsWorkIsReported
    WaitIsLimited
    RecordCoversForm
PROPERTIES
    OperationsEnd
CHECK_DEADLOCK FALSE
