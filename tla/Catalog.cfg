CONSTANTS
    Calls = {c1, c2}
    Other = Other
    Namesake = Namesake
    None = None
    Bare = Bare
    MaxInflight = 3
    MaxTroubles = 1
SPECIFICATION Spec
INVARIANTS
    SongLinksAgree
    AllSettled
SYMMETRY Symmetry
CHECK_DEADLOCK FALSE
