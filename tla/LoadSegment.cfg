CONSTANTS
    NumPhysPages = 6
    Sizes = {1, 2, 3}
    Algorithms = {"FirstFit", "BestFit", "WorstFit"}
    MaxSpaces = 3
    PageSize = 3
    UserStackSize = 1
SPECIFICATION LoadSpec
INVARIANTS
    FramesOwned
    FitIsRight
    StaysInside
    AlignedIsLoaded
