SPECIFICATION Spec
CONSTANTS
    Threads = {t1, t2}
    MaxFd = 3
    InitFds = 2
    InitContexts = 2
    IoctlValues = {TRUE}
    MaxGrowers = 1
SYMMETRY Symmetry
INVARIANTS
    TypeOK
    SocketIsHooked
    
