SPECIFICATION FairSpec
CONSTANTS
    Idle = 2
    Timeout = 3
    WaitLimit = 2
    HasRecord = {TRUE, FALSE}
    MaxXStops = 1
INVARIANTS
    TypeOK
    ExpiryAgreesWithSample
    ActiveUserIsKept
PROPERTIES
    OnIdleOncePerPeriod
    AbandonedSessionIsDeleted
