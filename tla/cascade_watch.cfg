SPECIFICATION Spec
CONSTANTS
    Paths = {p1}
    Server = server
    Clis = {cli}
    None = none
    Left = left
    Mixed = mixed
    Overlap = FALSE
    Watching = TRUE
    Outage = FALSE
    BatchSize = 1
    MaxRetry = 1
    MaxTotalRetries = 2
    MaxVersion = 2
    MaxFaults = 1
    MaxPending = 2
CONSTRAINT
    WatcherKeepsUp
INVARIANTS
    TypeOK
    SettledRowsMirrorDisk
PROPERTIES
    StaleVerdictsLose
    ImplementsProjection
