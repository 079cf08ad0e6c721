CONSTANTS
    Proxies = {1}
    EVENT_QUEUE_SIZE_MAX = 1
    MaxEventId = 2
    MaxPosts = 3
    MaxReplies = 1
    MaxHosts = 0
SPECIFICATION Spec
PROPERTIES
    RecoverOnlyWhenRecycled
CHECK_DEADLOCK FALSE
