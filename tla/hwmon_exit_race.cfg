CONSTANTS
    s = s
    k = k
    f = f
    b1 = b1
    b2 = b2
    c1 = c1
    c2 = c2
    smbus = smbus
    NVIDIA = "10de"
    Models <- MCModels
    AdapterIndex = 1
    NoNumber = NoNumber
    AllowUnknown = FALSE
    Devices <- MCDevices
    Describe <- MCDescribe
    Board <- MCBoard
    None = None
    Buses = {b1, b2}
    Adapters = {s, k, f}
    CardAdapters <- MCCardAdapters
    SensorNamed <- MCSensorNamed
    BusParam = None
    Clients = {c1, c2}
    RetryLimit = 2
    CardFound <- MCCardFound
    MaxAdds = 2
SPECIFICATION Spec
INVARIANTS
    ExitClientLive
