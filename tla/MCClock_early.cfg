SPECIFICATION ClockSpec
CONSTANTS
    Proc = {p1, p2}
    Word = 16
    Hz = 3
    PerSecond = 3
    MaxSleep = 3
PROPERTIES
    SleepsLongEnough
CHECK_DEADLOCK FALSE
