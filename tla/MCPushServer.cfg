SPECIFICATION Spec
CONSTANTS
    Sockets = {a}
    Tickets = {t, u}
    Sessions <- MCSessions
    Forced = {"FAILED"}
    Configs <- MCConfigs
    Watches <- MCWatches
    Patches = 2
    MaxFrames = 3
    MaxSwitches = 1
    MaxLine = 3
INVARIANTS
    TypeOK
    UpToDate
PROPERTIES
    FramesInOrder
    StatusArrives
