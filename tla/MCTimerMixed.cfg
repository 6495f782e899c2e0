SPECIFICATION Spec
CONSTANTS
    Workers = {w1, w2}
    Timers = {1, 2, 3}
    Repeating = {1, 2}
    Periods = {1}
    InitNow = 3
    MaxNow = 5
    Hour = 3
    Word = 16
SYMMETRY Symmetry
INVARIANT KeptOrCollected
PROPERTY AlarmSpec
CHECK_DEADLOCK FALSE
