CONSTANTS
    Tasks = {3, 4, 5, 6}
    Chars = {"1"}
    MaxInput = 1
    MaxInt = 9
    NumPeople = 2
    M = 3
    S = 2
    Tries = 2
    StallCycles = {2}
    TimeSlice = TRUE
SPECIFICATION Spec
INVARIANTS
    TypeOK
    MutexRegions
    FreeSpaceCounts
    NobodyLeftBehind
PROPERTIES
    ImplementsDinner
    ImplementsMail
