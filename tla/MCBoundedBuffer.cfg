SPECIFICATION FairSpec
CONSTANTS
    Reader = {r1, r2, r3}
    Key = {a, b}
    Zero = Zero
    Size = 2
    MaxWant = 2
INVARIANTS
    SlotsAccounted
PROPERTIES
    ImplementsFifo
    ReadersServed
CHECK_DEADLOCK FALSE
