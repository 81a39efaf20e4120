\* A steady effective window: the receiver advertises at least the sender's.
SPECIFICATION FairSpec
CONSTANTS
    N = 4
    W = 2
    MAX_ATTEMPTS = 1
    RecvWnds = {3}
    NetCap = 2
    IOErrors = TRUE
INVARIANTS
    FlowControl
    SlotsIntact
    CreditsReleased
PROPERTIES
    TransferEnds
    DestructorEnds
