CONSTANTS
    Slots = {s1, s2}
    NoPoller = NoPoller
    Page = 1
    Backfill = 1
    MaxPlays = 2
    MaxPuts = 2
    MaxFaults = 1
SPECIFICATION Spec
INVARIANTS
    NothingPassedOver
    MirroredOnce
    FollowsRow
PROPERTIES
    PlaysMirrored
CHECK_DEADLOCK FALSE
