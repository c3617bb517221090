SPECIFICATION Spec
CONSTANTS
    c1 = c1
    c2 = c2
    c3 = c3
    Container = {c1, c2}
    Helper = {c1, c2}
    Pod <- MCPod
    PodMode = {}
    Socket = {s1, s2}
    Device = {d1}
    None = None
    NoNumber = NoNumber
    Window = 1
    Fault = {"find"}
    MaxOpens = 2
    MaxCrashes = 0
SYMMETRY SocketSymmetry
INVARIANTS
    GrantedIsMemorised
    PermissionsMatchNodes
