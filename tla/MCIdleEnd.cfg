SPECIFICATION Spec
CONSTANTS
    Workers = {w1}
    Main = main
    UseCaller = FALSE
    AnyThread = any
    PinTo = {w1}
    Timers = {1}
    Distances = {0, 3}
    MaxTimeout = 2
    IntWord = 8
    AddWhileStopping = FALSE
    MaxCalls = 2
INVARIANTS
    IdleEndIsStop
(* stop() has returned *)
CHECK_DEADLOCK FALSE
