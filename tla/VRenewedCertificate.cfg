SPECIFICATION CSpec
CONSTANTS
    k1 = k1
    k2 = k2
    h1 = h1
    r1 = r1
    r2 = r2
    Missing = Missing
    Cert = {k1}
    Host = {h1}
    Request = {r1}
    MayFail <- WritesAndMoves
    MaxIssued = 3
    MaxFaults = 0
    MaxCrashes = 0
SYMMETRY RequestsAreAlike
INVARIANT
    ServedIsLive
CHECK_DEADLOCK FALSE
