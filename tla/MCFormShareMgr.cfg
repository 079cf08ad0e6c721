CONSTANTS
    Keys = {k1, k2}
    Hosts = {h1, h2}
    Worker = worker
    FORM_SHARE_INFO_MAX_SIZE = 0
    MaxShares = 2
    MaxEventId = 4
SPECIFICATION FairSpec
INVARIANTS
    TypeOK
    NothingUntimed
    InstallActsOnItsShare
    AtMostOneOver
PROPERTIES
    SharesEnd
CHECK_DEADLOCK FALSE
