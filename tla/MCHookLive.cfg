SPECIFICATION FairSpec
CONSTANTS
    Doroutines = {d1, d2}
    None = none
    Closers = {d2}
    NThreads = 1
    Spurious = FALSE
INVARIANTS
    ParkedCanWake
    ClosedHasNoEvent
PROPERTIES
    
    ClosedCallReturns
    
