SPECIFICATION FairSpec
CONSTANTS
    Window = {w1, w2}
    Root = root
    Limit = 2
    MaxChanges = 3
    MaxCrashes = 1
    MaxSlow = 1
INVARIANTS
    TypeOK
    OneRecordingPerScreen
    KilledForCause
    LeftoversHaveACause
    OthersAreKept
PROPERTIES
    RecordingSettles
CHECK_DEADLOCK FALSE
