SPECIFICATION FairSpec
CONSTANTS
    Fds = {f1, f2}
    Workers = {w1, w2}
    Events = {"READ"}
    Repeats = {TRUE, FALSE}
    OutsideCallers = TRUE
    MaxPending = 0
INVARIANTS
    TypeOK
    PendingExact
    NoEdgeLost
PROPERTY ReadyIsTriggered
