SPECIFICATION Spec
CONSTANTS
    MaxConnections = 6
    Kinds = {"refresh", "message", "acquire"}
    MaxRetryCount = 2
    OneAtATime = TRUE
    MaxRequests = 2
INVARIANTS TypeOK PartialIsTimed RetriesBounded
PROPERTIES SupersededNotRetried DeletedNotRetried DualSignal
CHECK_DEADLOCK FALSE
