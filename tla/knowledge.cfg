SPECIFICATION Spec
CONSTANTS
    d1 = d1
    d2 = d2
    Dirs = {d1, d2}
    None = none
    MaxVersion = 2
    MaxRequests = 2
    MaxFaults = 1
    MaxCrashes = 1
INVARIANTS
    RowsMirrorTheirFiles
    CutTopicsAreSearchable
    NothingVanishes
SYMMETRY Names
CHECK_DEADLOCK FALSE
