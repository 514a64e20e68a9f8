CONSTANTS
    MaxProc = 3
    NumPhysPages = 4
    Sizes = {2}
    MemAll = "FirstFit"
    Orderly = FALSE
    TimeSlice = TRUE
SPECIFICATION Spec
INVARIANTS
    LiveIsListed
    OnlyGoneAreMissed
PROPERTY ListedIsLive
