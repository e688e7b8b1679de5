SPECIFICATION Spec
CONSTANTS
    a = a
    b = b
    Sessions = {a, b}
    None = none
    Lines <- SomeLines
    Silent = {2}
    Threshold = 2
    Stops <- SomeStops
    Ends = {a}
    MaxFaults = 1
INVARIANTS
    NothingSkipped
    OpenWindowHasMaxTimer
PROPERTIES
    CapturedIsFlushed
CHECK_DEADLOCK FALSE
