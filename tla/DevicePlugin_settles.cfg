SPECIFICATION FairSpec
CONSTANTS
    d1 = d1
    d2 = d2
    d3 = d3
    Device = {d1, d2, d3}
    Linked = {d3}
    MaxAppear = 2
    MaxVanish = 2
    MaxKubelet = 2
    MaxDeaths = 1
    MaxHandlers = 2
INVARIANTS
    TypeOK
    AdvertisedAreKnown
    StoppedServerIsNoticed
    RestartedKubeletIsNoticed
PROPERTIES
    NewDeviceIsAdvertised
    PluginSettles
