\* Sessions, tokens, MFA, passwords and accounts under overlapping requests.
SPECIFICATION IdSpec
CONSTANTS
    root = root
    user = user
    q1 = q1
    q2 = q2
    None = None
    User <- MCUser
    Admin = root
    Request <- MCRequest
    Grants <- MCGrants
    Scopes <- MCScopes
    CodesPerBatch = 1
    MaxRequests = 3
SYMMETRY Symmetry
INVARIANTS
    IdTypeOK
    OneSessionPerLogin
    OneTokenPerGrant
    CodesMatchEnrollment
    CodesAreSpentOnce
    ResetForcesChange
PROPERTIES
    RevokedStaysRevoked
    EditsKeepTheRest
CHECK_DEADLOCK FALSE
