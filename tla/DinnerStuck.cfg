CONSTANTS
    Tasks = {4}
    Chars = {"1"}
    MaxInput = 1
    MaxInt = 9
    NumPeople = 2
    M = 2
    S = 2
    Tries = 2
    StallCycles = {2}
    TimeSlice = TRUE
SPECIFICATION Spec
INVARIANT AllLeave
