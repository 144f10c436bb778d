SPECIFICATION CooperativeSpec
CONSTANTS
    Proc = {p1, p2}
    Idle = Idle
    NoProc = NoProc
    First = p1
    Table = {t1, t2}
    UserSem = {slots, mutex, chars}
    KbdEmpty = slots
    KbdMutex = mutex
    KbdFull = chars
    FileMutex = f
    TableMutex <- OwnTable
    InitCount <- OneSlot
    JiffyMod = 3
    Faulty = {p2}
    MaxCount = 2
INVARIANTS
    EachInOneQueue
    InterruptFlagExact
    PanicsExplained
    TimersAhead
    ReaperSafe
PROPERTIES
    EveryReadyRuns
    JoinersReturn
    TicksAcknowledged
    ImplementsSemaphore
CHECK_DEADLOCK FALSE
