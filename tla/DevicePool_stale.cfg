SPECIFICATION Spec
CONSTANTS
    a1 = a1
    a2 = a2
    None = None
    App = {a1}
    AppName <- MCAppName
    MaxEvent = 3
    NumMice = 1
    NumJs = 1
    MaxFaults = 1
PROPERTIES
    SidecarIsReady
