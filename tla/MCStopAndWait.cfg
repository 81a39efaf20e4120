\* The attempts of the code; three packets, three datagrams each way.
SPECIFICATION FairSpec
CONSTANTS
    N = 3
    MAX_ATTEMPTS = 5
    NetCap = 3
    IOErrors = TRUE
INVARIANTS
    Delivered
    TimeoutMeansExhausted
    UnderWayByTimeouts
PROPERTIES
    ImplementsReliableTransfer
    Terminates
