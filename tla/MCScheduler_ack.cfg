SPECIFICATION CooperativeSpec
CONSTANTS
    Proc = {p1, p2}
    Idle = Idle
    NoProc = NoProc
    First = p1
    Table = {t1, t2}
    UserSem = {slots, mutex, chars}
    KbdEmpty = slots
    KbdMutex = mutex
    KbdFull = chars
    FileMutex = f
    TableMutex <- OwnTable
    InitCount <- OneSlot
    JiffyMod = 2
    Faulty = {}
    MaxCount = 1
PROPERTY
    InterruptAcknowledged
CHECK_DEADLOCK FALSE
