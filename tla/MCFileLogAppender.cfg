SPECIFICATION Spec
CONSTANTS
    Threads = {t1, t2}
    Layouts <- MCLayouts
    Interval = 2
    MaxTime = 4
SYMMETRY Symmetry
INVARIANTS
    TypeOK
    RenamedIsLeft
    FormatterIsMeant
