CONSTANTS
    MaxProc = 3
    NumPhysPages = 4
    Sizes = {1, 2}
    MemAll = "FirstFit"
    Orderly = TRUE
    TimeSlice = FALSE
SPECIFICATION Spec
INVARIANT JoinWaitsForChild
