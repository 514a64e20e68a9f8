CONSTANTS
    NoThread = NoThread
    NoSem = NoSem
    mutex = mutex
    done = done
    Thread = {main, a, b}
    Main = main
    Sem = {mutex, done}
    InitialValue <- MCInitialValue
    Device = {done}
    UserThread = {b}
    TimeSlice = TRUE
    MaxValue = 2
SPECIFICATION FairSpec
INVARIANTS
    TypeOK
    OnePlace
    NoLostWakeup
    HaltIsQuiescent
PROPERTIES
    DeleteOffStack
    ImplementsSemaphores
    ReadyRuns
    AvailableIsTaken
