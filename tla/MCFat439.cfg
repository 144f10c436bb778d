SPECIFICATION FatSpec
CONSTANTS
    BlockSize = 10
    NBlocks = 11
    NameCells = 3
    NameLen <- TwoNames
    Names <- SomeNames
    Sizes = {0, 8, 9, 28}
    MaxOffset = 29
    MaxRead = 12
INVARIANTS
    NamesFound
PROPERTIES
    ReadsTheHostsFile
CHECK_DEADLOCK FALSE
