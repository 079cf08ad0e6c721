CONSTANTS
    EVENT_QUEUE_SIZE_MAX = 2
    MaxEventId = 8
    MaxPosts = 5
    MaxReplies = 20
    MaxHosts = 1
    ClientOps = {"UpdateForm", "StopRenderingForm", "ReleaseRenderer", "RecycleForms", "RecoverForms"}
    Faulty = FALSE
    Slow = FALSE
    MaxCrashes = 0
SPECIFICATION Spec
INVARIANTS
    ServicesAgree
    BusyIsGuarded
CHECK_DEADLOCK FALSE
