CONSTANTS
    r1 = r1
    r2 = r2
    c1 = c1
    c2 = c2
    c3 = c3
    s1 = s1
    Routers = {r1, r2}
    Calls = {c1, c2, c3}
    Sweeps = {s1}
    Home <- MCHome
    NoCall = NoCall
    MaxMachines = 2
    MaxFaults = 1
SPECIFICATION Spec
INVARIANTS
    TypeOK
    NoOrphans
PROPERTIES
    CallsReturn
    StaleRowsRepaired
CHECK_DEADLOCK FALSE
