\* Two threads race for the same host and the same address.
SPECIFICATION FairSpec
CONSTANTS
    t1 = t1
    t2 = t2
    h1 = h1
    h2 = h2
    i1 = i1
    i2 = i2
    Threads <- MCThreads
    Hosts <- MCHosts
    IPs <- MCIPs
    Answers <- MCAnswers
    Input <- MCInput
INVARIANTS
    HostOnce
    AddressOnce
    Accounted
    NothingSkipped
PROPERTY Terminates
