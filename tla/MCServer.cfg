SPECIFICATION FairSpec
CONSTANTS
    Threads = {t1, t2, t3}
    NoThread = NoThread
    Rules <- AllRules
    Faulty = TRUE
INVARIANTS NoOverlookedStop FlagTellsState
PROPERTIES DrivesNativeServer StopEndsRun StopReturns CallbackExceptionRethrown
