SPECIFICATION FairSpec
CONSTANTS
    a1 = a1
    a2 = a2
    None = None
    App = {a1, a2}
    AppName <- MCAppName
    MaxEvent = 4
    NumMice = 2
    NumJs = 1
    MaxFaults = 1
INVARIANTS
    TypeOK
    EndpointsDriveTheirDevices
    ReadyFileIsEarned
PROPERTIES
    NumbersAreLearned
    PoolSettles
    PluginFollowsLinks
