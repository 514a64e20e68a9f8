CONSTANTS
    Name = {a, b, c}
    Byte = {"x"}
    NumSectors = 10
    SectorSize = 2
    NumDirEntries = 2
    EntriesPerSector = 1
    FileSizes = {1, 3}
    MaxOpen = 1
    Transfers = {2}
    NoFile = none
SYMMETRY Symmetry
SPECIFICATION Spec
INVARIANTS
    NoSectorShared
    MapIsExact
PROPERTY ImplementsFiles
