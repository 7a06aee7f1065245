CONSTANTS
    Players = {p1}
    Controllers = {c1}
    Tracks = {t1, t2}
    NoTrack = NoTrack
    NoDevice = NoDevice
    MaxInbox = 2
    MaxJoins = 2
    MaxPicks = 1
    MaxExpiries = 0
SPECIFICATION Spec
INVARIANTS
    TypeOK
PROPERTIES
    PlayersAppear
CHECK_DEADLOCK FALSE
