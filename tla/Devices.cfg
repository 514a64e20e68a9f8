CONSTANTS
    d = d
    c = c
    m1 = m1
    m2 = m2
    Node = {d, c, m1, m2}
    DiskNode = {d, c}
    ConsoleNode = {c}
    MailNode = {m1, m2}
    SystemTick = 1
    TimerDelays = {5}
    MaxTicks = 21
    DiskUser <- MCDiskUser
    NumSectors = 6
    SectorsPerTrack = 3
    SeekTime = 3
    RotationTime = 2
    NoRequest = NoRequest
    ConsoleTime = 3
    Typed <- MCTyped
    Quit = "q"
    EOF = "EOF"
    NetworkTime = 2
    Tests <- MCTests
SPECIFICATION Spec
INVARIANTS
    InterruptsInOrder
    HeadPassesSector
    EveryRequestIsAnswered
    EchoesInput
    MailArrivesOnce
