SPECIFICATION Spec
CONSTANTS
    d1 = d1
    d2 = d2
    d3 = d3
    Device = {d1, d2}
    Linked = {d2}
    MaxAppear = 0
    MaxVanish = 0
    MaxKubelet = 0
    MaxDeaths = 0
    MaxHandlers = 2
PROPERTIES
    RestartsForNewDevices
