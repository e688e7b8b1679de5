SPECIFICATION Spec
CONSTANTS
    Kinds <- OneKind
    AlertThreshold = 2
    Backoffs = 1
    Restarts = 1
    MaxSweeps = 2
    MaxWrites = 2
    MaxFaults = 3
INVARIANTS
    LockedWorkLosesOnlyToOthers
    
PROPERTIES
    TailIsMerged
CHECK_DEADLOCK FALSE
