SPECIFICATION Spec
CONSTANTS
    c1 = c1
    c2 = c2
    c3 = c3
    Container = {c1}
    Helper = {c1}
    Pod <- MCPod
    PodMode = {}
    Socket = {s1}
    Device = {d1}
    None = None
    NoNumber = NoNumber
    Window = 1
    Fault = {}
    MaxOpens = 1
    MaxCrashes = 0
INVARIANTS
    RemovesKnowTheNumber
