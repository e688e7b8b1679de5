SPECIFICATION Spec
CONSTANTS
    e1 = e1 c1 = c1 c2 = c2 k1 = k1 k2 = k2 n1 = n1 n2 = n2
    None = None
    Episodes = {e1}
    Cases = {c1, c2}
    Poor = {}
    Old = {e1, c1}
    Edited = {e1}
    Clusters = {k1, k2}
    Names = {n1, n2}
    MaxShown = 1
    MaxOps = 1
    MaxAttempts = 2
    MaxRuns = 2
    MaxFaults = 1
    MaxVersion = 2
    MaxStarts = 2
SYMMETRY Symmetry
INVARIANTS VectorsAreOfTheirText ClusteredOnce ExitZeroMeansDone
PROPERTIES LessonsStay
CHECK_DEADLOCK FALSE
