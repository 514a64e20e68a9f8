CONSTANTS
    W = 12
    Proc = {p1, p2}
    Main = p1
    GPRegs = {0, 2, 3, 4, 5, 6, 29, 31}
    PageSize = 16
    NumPhysPages = 8
    numPages <- MCNumPages
    StartHere <- MCStartHere
    Images <- MCImages
SPECIFICATION Spec
INVARIANTS
    TypeOK
    WrittenIsDirty
PROPERTIES
    RunsLikeExecute
    ProductIsExact
