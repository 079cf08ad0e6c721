CONSTANTS
    Proxies = {1}
    EVENT_QUEUE_SIZE_MAX = 1
    MaxEventId = 14
    MaxPosts = 3
    MaxReplies = 0
    MaxHosts = 0
SPECIFICATION LiveSpec
PROPERTIES
    OperationsEnd
CHECK_DEADLOCK FALSE
