CONSTANTS
    Calls = {c1, c2, c3}
    Songs = {s1, s2}
    Times = {0, 1, 2}
    DupWindow = 1
    RateWindow = 2
    MaxInWindow = 2
    MaxFaults = 1
    MaxLapses = 1
SPECIFICATION Spec
INVARIANTS
    OneRecordPerListen
    AcceptedAreFew
    ListenKept
SYMMETRY Symmetry
CHECK_DEADLOCK FALSE
