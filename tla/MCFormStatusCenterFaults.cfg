CONSTANTS
    EVENT_QUEUE_SIZE_MAX = 1
    MaxEventId = 3
    MaxPosts = 2
    MaxReplies = 20
    MaxHosts = 1
    ClientOps = {"StopRenderingForm", "ReleaseRenderer", "RecycleForms"}
    Faulty = TRUE
    Slow = TRUE
    MaxCrashes = 1
SPECIFICATION Spec
PROPERTIES
    ImplementsStatusMgr
    EndsWhatItGuards
CHECK_DEADLOCK FALSE
