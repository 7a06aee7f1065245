CONSTANTS
    Players = {p1, p2}
    Controllers = {c1}
    Tracks = {t1}
    NoTrack = NoTrack
    NoDevice = NoDevice
    MaxInbox = 2
    MaxJoins = 1
    MaxPicks = 1
    MaxExpiries = 1
SPECIFICATION Safety
INVARIANTS
    ViewsCatchUp
    ClientsConverge
CHECK_DEADLOCK FALSE
SYMMETRY PlayerSymmetry
