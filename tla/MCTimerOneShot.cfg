SPECIFICATION FairSpec
CONSTANTS
    Workers = {w1, w2}
    Timers = {1, 2}
    Repeating = {}
    Periods = {0, 1, 2}
    InitNow = 3
    MaxNow = 5
    Hour = 3
    Word = 16
INVARIANTS
    TypeOK
    
    CancelDecides
PROPERTIES
    NeverEarly
    DueIsCollected
