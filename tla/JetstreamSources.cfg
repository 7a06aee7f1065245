CONSTANTS
    Sources = {s1, s2}
    Records = {r1}
    NoRecord = NoRecord
    Slack = 1
    MaxLag = 2
    ChannelCap = 1
    DedupCap = 1
    MaxEvents = 3
    MaxDrops = 1
SPECIFICATION SourcesSpec
INVARIANTS
    NothingSkipped
    ReplayEndsUpToDate
PROPERTIES
    FeedsInOrder
    EveryEventReceived
CHECK_DEADLOCK FALSE
