SPECIFICATION Spec
CONSTANTS
    Reader = {r1}
    Key = {a, b}
    Zero = Zero
    Size = 3
    MaxWant = 2
INVARIANT
    HandlerNeverBlocks
CHECK_DEADLOCK FALSE
