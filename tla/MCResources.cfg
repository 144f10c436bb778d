SPECIFICATION Spec
CONSTANTS
    Boot0 = Boot0
    P1 = P1
    P2 = P2
    Proc = {Boot0, P1, P2}
    Boot = Boot0
    Starts = {1}
    Obj = {1, 2}
    Slots = 3
    MaxLost = 1
SYMMETRY Alike
INVARIANTS
    CountsExact
    NothingDangles
    OneOpenFile
PROPERTIES
    StackOutlives
CHECK_DEADLOCK FALSE
