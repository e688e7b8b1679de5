SPECIFICATION FairSpec
CONSTANTS
    Paths = {p1}
    Server = server
    Clis = {}
    None = none
    Left = left
    Mixed = mixed
    Overlap = FALSE
    Watching = FALSE
    Outage = TRUE
    BatchSize = 1
    MaxRetry = 1
    MaxTotalRetries = 2
    MaxVersion = 2
    MaxFaults = 4
    MaxPending = 0
PROPERTIES
    Converges
    RetriesTerminate
