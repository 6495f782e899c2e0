SPECIFICATION FairSpec
CONSTANTS
    Fds = {f1}
    Workers = {w1}
    Events = {"READ", "WRITE"}
    Repeats = {TRUE, FALSE}
    OutsideCallers = FALSE
    MaxPending = 3
INVARIANTS
    PendingCovers
    RegistrationsAgree
PROPERTY WaitSpec
