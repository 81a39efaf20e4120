SPECIFICATION FairSpec
CONSTANTS
    MaxTTL = 2
    MaxProbes = 3
    TxIds = {t1, t2}
    ForeignSeqs = {0, 1}
    SendErrors = TRUE
INVARIANTS
    LastProbeHeard
    NamesFollowAnswers
PROPERTIES
    Settled
    Terminates
