SPECIFICATION GameFairSpec
CONSTANTS
    Player = {c1, c2}
    NoPlayer = NoPlayer
    Depth = 1
    Width = 11
    Height = 5
    Margin = 1
    Size = 2
    LeftPaddleEdge = 3
    RightPaddleEdge = 8
    HalfPaddle = 1
    KeyStep = 3
    Speed = 2
    StartX = 4
    StartY = 1
    StartPaddle = 1
PROPERTIES
    WinnersSeeIt
CHECK_DEADLOCK FALSE
