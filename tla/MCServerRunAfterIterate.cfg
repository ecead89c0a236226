SPECIFICATION FairSpec
CONSTANTS
    Threads = {t1, t2}
    NoThread = NoThread
    Rules <- AllButRunStopped
    Faulty = FALSE
PROPERTY StopEndsRun
CHECK_DEADLOCK FALSE
