SPECIFICATION Spec
CONSTANTS
    Strategies <- TwoStrategies
    Root <- Outside
    Down <- Inside
    Gated <- Inside
    Threshold = 2
    MaxRetries = 1
    Slots = 1
    MaxRecords = 8
    MaxEvents = 2
    MaxStarts = 3
    MaxErrors = 1
INVARIANTS
    TypeOK
    ActiveCountsRuns
    GatedRunsArePaid
PROPERTIES
    StatusIsWrittenOnce
    NoRunTwice
CHECK_DEADLOCK FALSE
