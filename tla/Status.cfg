CONSTANTS
    Tracks = {t1}
    Websocket = "websocket"
    Navidrome = "navidrome"
    Scrobbler = "scrobbler"
    Sources = {"websocket", "navidrome", "scrobbler", "spotify"}
    Untimed = {"scrobbler"}
    NoRecord = NoRecord
    MaxEvents = 3
    MaxInFlight = 2
    MaxCalls = 3
SPECIFICATION Spec
INVARIANTS
    TypeOK
    LastEventWins
    LastPushedIsRecord
    OneTimerLeft
PROPERTIES
    DedupExpires
    IdleSongsEnd
    OneStopPerCall
CHECK_DEADLOCK FALSE
