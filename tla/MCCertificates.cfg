SPECIFICATION CSpec
CONSTANTS
    k1 = k1
    k2 = k2
    h1 = h1
    r1 = r1
    r2 = r2
    Missing = Missing
    Cert = {k1}
    Host = {h1}
    Request = {r1, r2}
    MayFail <- WritesAndMoves
    MaxIssued = 3
    MaxFaults = 1
    MaxCrashes = 1
SYMMETRY RequestsAreAlike
INVARIANTS
    CTypeOK
    ActiveHasMaterial
    NoKeyLeftBehind
    AssignedExists
PROPERTIES
    FailedChangesNothing
CHECK_DEADLOCK FALSE
