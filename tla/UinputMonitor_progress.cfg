SPECIFICATION FairOrderSpec
CONSTANTS
    c1 = c1
    Container = {c1}
    Helper = {c1}
    Pod <- MCPod
    PodMode = {}
    Socket = {s1}
    Device = {d1}
    None = None
    NoNumber = NoNumber
    Window = 1
    Fault = {"find"}
    MaxOpens = 2
    MaxCrashes = 1
PROPERTIES
    CallReturns
    GroupIsFlushed
    DeviceEventsInOrder
