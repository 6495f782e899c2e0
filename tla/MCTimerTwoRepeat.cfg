SPECIFICATION Spec
CONSTANTS
    Workers = {w1}
    Timers = {1, 2}
    Repeating = {1, 2}
    Periods = {1}
    InitNow = 3
    MaxNow = 5
    Hour = 3
    Word = 16
INVARIANT ListExpiredReturns
CHECK_DEADLOCK FALSE
