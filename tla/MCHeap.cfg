SPECIFICATION HeapSpec
CONSTANTS
    Len0 = 20
    Requests = {1, 17}
    WordMod = 65536
INVARIANTS
    FreeListExact
PROPERTIES
    FullMeansFull
    ImplementsAllocator
CHECK_DEADLOCK FALSE
