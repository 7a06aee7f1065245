CONSTANTS
    Records = {r1, r2}
    NoRecord = NoRecord
    ListenOf <- OneListen
    MaxEvents = 3
    MaxInflight = 2
    MaxEmbeds = 2
    MaxReplays = 1
    MaxFaults = 1
SPECIFICATION Spec
INVARIANTS
    TypeOK
    RowsFollowRecords
    AnnouncedOnce
PROPERTIES
    ComesToRest
CHECK_DEADLOCK FALSE
