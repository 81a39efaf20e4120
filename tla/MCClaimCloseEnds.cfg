\* Close() must block until all outstanding acknowledgments are collected.
SPECIFICATION FairSpec
CONSTANTS
    N = 3
    W = 1
    MAX_ATTEMPTS = 3
    RecvWnds = {1}
    NetCap = 4
    IOErrors = FALSE
PROPERTIES
    ClaimCollects
CHECK_DEADLOCK FALSE
