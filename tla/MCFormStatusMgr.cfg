CONSTANTS
    Proxies = {1}
    EVENT_QUEUE_SIZE_MAX = 2
    MaxEventId = 3
    MaxPosts = 2
    MaxReplies = 1
    MaxHosts = 1
SPECIFICATION Spec
INVARIANTS
    TypeOK
    RetryRepeatsOperation
    CallOwnsOperation
    NothingLeftBehind
PROPERTIES
    ImplementsOperations
    QueueTakenUp
CHECK_DEADLOCK FALSE
