CONSTANTS
    Devices = {d1, d2}
    Clients = {d1, d2}
    Tracks = {t1}
    NoTrack = NoTrack
    NoDevice = NoDevice
    MaxTimers = 2
    MaxMailbox = 2
    MaxSelects = 1
    MaxPauses = 2
    MaxCrashes = 0
SPECIFICATION Safety
INVARIANTS
    StopNotLost
    GoneIsSilent
CHECK_DEADLOCK FALSE
SYMMETRY Symmetry
