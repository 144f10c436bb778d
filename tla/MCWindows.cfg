SPECIFICATION FairSpec
CONSTANTS
    Client = {c1, c2}
    Manager = wm
    Frame = {f1, f2}
    Garbage = Garbage
    ScreenWidth = 3
    ScreenHeight = 2
    Border = 1
    FirstPosition = 1
    PositionStep = 1
    Near = {0, 1}
INVARIANTS
    WindowsMirror
    WholeFrames
    CorruptionExplained
PROPERTIES
    WindowAppears
CHECK_DEADLOCK FALSE
