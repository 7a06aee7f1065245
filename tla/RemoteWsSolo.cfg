CONSTANTS
    Devices = {d1}
    Clients = {d1}
    Tracks = {t1, t2}
    NoTrack = NoTrack
    NoDevice = NoDevice
    MaxTimers = 2
    MaxMailbox = 2
    MaxSelects = 2
    MaxPauses = 2
    MaxCrashes = 1
SPECIFICATION Spec
INVARIANTS
    PendingIsLive
PROPERTIES
    HandlersReturn
    AtMostOneStopPerSchedule
    EveryStopSettles
CHECK_DEADLOCK FALSE
