CONSTANTS
    MaxProc = 4
    NumPhysPages = 4
    Sizes = {1, 2}
    MemAll = "FirstFit"
    Orderly = TRUE
    TimeSlice = FALSE
SPECIFICATION Spec
INVARIANTS
    TypeOK
    NobodyLeftOver
PROPERTY ImplementsAddrSpace
