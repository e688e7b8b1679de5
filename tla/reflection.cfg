SPECIFICATION Spec
CONSTANTS
    e1 = e1
    e2 = e2
    e3 = e3
    m1 = m1
    m2 = m2
    c1 = c1
    c2 = c2
    Episodes = {e1, e2, e3}
    Merged = {m1, m2}
    Clusters = {c1, c2}
    None = none
    MaxAttempts = 2
    MaxReflections = 2
    MaxFaults = 1
INVARIANTS
    NothingForgotten
    CountsItsMembers
    DeprecatedLeave
SYMMETRY Same
CHECK_DEADLOCK FALSE
