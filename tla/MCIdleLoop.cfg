SPECIFICATION FairSpec
CONSTANTS
    Workers = {w1}
    Main = main
    UseCaller = TRUE
    AnyThread = any
    PinTo = {w1}
    Timers = {1, 2}
    Distances = {0, 3}
    MaxTimeout = 2
    IntWord = 8
    AddWhileStopping = FALSE
    MaxCalls = 3
INVARIANTS
    TypeOK
    
PROPERTIES
    WorkIsFound
    StopReturns
(* stop() has returned *)
CHECK_DEADLOCK FALSE
