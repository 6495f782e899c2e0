SPECIFICATION FairSpec
CONSTANTS
    Workers = {w1, w2}
    Main = main
    UseCaller = TRUE
    Doroutines = {d1, d2, d3}
    NoDoroutine = NoDoroutine
    AnyThread = AnyThread
    WakeWhileRunning = FALSE
    MaxSchedules = 3
INVARIANTS
    TypeOK
    CountsExact
    StopIsFinal
    
PROPERTIES
    PoolSpec
    StopReturns
    TaskIsTaken
CHECK_DEADLOCK FALSE
