SPECIFICATION Live
CONSTANTS
    Strategies <- TwoStrategies
    Root <- Outside
    Down <- Inside
    Gated <- Inside
    Threshold = 2
    MaxRetries = 1
    Slots = 1
    MaxRecords = 8
    MaxEvents = 2
    MaxStarts = 2
    MaxErrors = 0
PROPERTIES
    EnqueuedRunsEnd
CHECK_DEADLOCK FALSE
