SPECIFICATION FairQSpec
CONSTANTS
    c1 = c1
    c2 = c2
    a1 = a1
    a2 = a2
    i1 = i1
    i2 = i2
    s1 = s1
    s2 = s2
    NoKey = NoKey
    Conn = {c1, c2}
    Addr = {a1}
    AddrsOf <- OneAddress
    Cid = {i1, i2, s1, s2}
    InitialCid <- Initials
    ServerCids <- SharedCids
    LengthOf <- CidLengths
    RouteFiles = {{c1, c2}, {c2}}
    Fragments = 2
    QueueLimit = 3
    PendingLimit = 1
INVARIANTS
    QTypeOK
    QueuesAreReclaimed
    IndexesAgree
PROPERTIES
    IngressResumes
    EveryOpeningEnds
CHECK_DEADLOCK FALSE
