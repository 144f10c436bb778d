SPECIFICATION FatSpec
CONSTANTS
    BlockSize = 10
    NBlocks = 11
    NameCells = 3
    NameLen <- LongName
    Names <- SomeNames
    Sizes = {0, 9}
    MaxOffset = 10
    MaxRead = 4
INVARIANT EveryFileFound
CHECK_DEADLOCK FALSE
