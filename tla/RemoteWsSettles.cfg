CONSTANTS
    Devices = {d1, d2}
    Clients = {d1, d2}
    Tracks = {t1, t2}
    NoTrack = NoTrack
    NoDevice = NoDevice
    MaxTimers = 0
    MaxMailbox = 2
    MaxSelects = 1
    MaxPauses = 0
    MaxCrashes = 0
SPECIFICATION Spec
INVARIANTS
    DedupAgreesWithProfile
PROPERTIES
    PrimarySettles
CHECK_DEADLOCK FALSE
