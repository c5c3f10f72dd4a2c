SPECIFICATION QSpec
CONSTANTS
    c1 = c1
    c2 = c2
    a1 = a1
    a2 = a2
    i1 = i1
    i2 = i2
    s1 = s1
    s2 = s2
    NoKey = NoKey
    Conn = {c1, c2}
    Addr = {a1, a2}
    AddrsOf <- Migrating
    Cid = {i1, i2, s1, s2}
    InitialCid <- Initials
    ServerCids <- OwnCids
    LengthOf <- CidLengths
    RouteFiles = {{c1, c2}, {c2}}
    Fragments = 1
    QueueLimit = 1
    PendingLimit = 2
INVARIANTS
    NeverMixed
    PauseMatchesWait
CHECK_DEADLOCK FALSE
