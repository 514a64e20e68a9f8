CONSTANTS
    Tasks = {1, 2, 3, 4, 5, 6}
    Chars = {"0", "1", "2", "+", "-", ".", "a"}
    MaxInput = 4
    MaxInt = 10
    NumPeople = 3
    M = 3
    S = 1
    Tries = 5
    StallCycles = {2, 3}
    TimeSlice = FALSE
SPECIFICATION FairSpec
INVARIANTS
    SticksConserved
    InputTypeIsRight
PROPERTIES
    ImplementsDinner
    EveryoneFinishes
