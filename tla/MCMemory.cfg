SPECIFICATION Spec
CONSTANTS
    Boot = boot
    Proc = {boot, p1, p2}
    Frames = 10
    Tables = 1
    PerTable = 2
    Value = {1}
INVARIANTS
    FramesOnce
PROPERTIES
    ImplementsPrivateMemory
CHECK_DEADLOCK FALSE
VIEW Renamed
