SPECIFICATION Spec
CONSTANTS
    Proc = {p1, p2}
    Idle = Idle
    NoProc = NoProc
    First = p1
    Table = {t1, t2}
    UserSem = {slots, mutex, chars}
    KbdEmpty = slots
    KbdMutex = mutex
    KbdFull = chars
    FileMutex = f
    TableMutex <- OwnTable
    InitCount <- OneSlot
    JiffyMod = 2
    Faulty = {p1}
    MaxCount = 1
INVARIANT
    OnlyKeysPanic
CHECK_DEADLOCK FALSE
