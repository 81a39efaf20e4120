\* Three packets through a buffer of two, a receiver window that opens from 1 to 2.
SPECIFICATION Spec
CONSTANTS
    N = 3
    W = 2
    MAX_ATTEMPTS = 2
    RecvWnds = {1, 2}
    NetCap = 3
    IOErrors = FALSE
INVARIANTS
    TypeOK
    RetxBound
    ClosedMeansReceived
    TimeoutMeansExhausted
PROPERTIES
    KarnsRule
    ImplementsReliableTransfer
