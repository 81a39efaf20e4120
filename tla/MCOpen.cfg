\* A receiver window below, at and above the sender's; two foreign datagrams.
SPECIFICATION FairSpec
CONSTANTS
    W = 2
    RecvWnds = {1, 2, 3}
    MaxForeign = 2
    IOErrors = TRUE
INVARIANTS
    Handover
PROPERTY OpenReturns
