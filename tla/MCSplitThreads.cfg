\* Three packets through two slots, one datagram out and two back, kernel errors.
SPECIFICATION FairSpec
CONSTANTS
    N = 3
    W = 2
    MAX_ATTEMPTS = 1
    RecvWnd = 3
    NetCap = 1
    QueueCap = 2
    IOErrors = TRUE
INVARIANTS
    OneReader
    TimerArmed
    SlotsIntact
PROPERTIES
    ImplementsReliableTransfer
    TransferEnds
    DestructorEnds
