SPECIFICATION Spec
CONSTANTS
    c1 = c1
    c2 = c2
    c3 = c3
    Container = {c1, c2, c3}
    Helper = {c1, c2}
    Pod <- MCPod
    PodMode = {c1}
    Socket = {s1, s2}
    Device = {d1}
    None = None
    NoNumber = NoNumber
    Window = 1
    Fault = {"find", "pod", "info", "cgroup", "exec"}
    MaxOpens = 1
    MaxCrashes = 1
SYMMETRY SocketSymmetry
INVARIANTS
    TypeOK
    GrantsFollowTheSocket
