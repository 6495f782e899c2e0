SPECIFICATION Spec
CONSTANTS
    Doroutines = {d1, d2, d3}
    None = none
    Closers = {d3}
    NThreads = 2
    Spurious = TRUE
SYMMETRY Symmetry
INVARIANTS
    TypeOK
    
    

    
