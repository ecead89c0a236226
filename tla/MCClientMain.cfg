SPECIFICATION Spec
CONSTANTS
    Threads = {t1, t2, t3}
    StopsRunning = TRUE
    MaxDepth = 1
    NestedReports = FALSE
INVARIANTS RunningMeansLoop ConnectionIsKnown SessionIsKnown
PROPERTIES StopEndsRun SessionClosedFirst
