\* Overlapping requests on every table, an export, and imports of bundles and NPM databases.
SPECIFICATION PortabilitySpec
CONSTANTS
    root = root
    user = user
    q1 = q1
    q2 = q2
    c1 = c1
    c2 = c2
    p1 = p1
    p2 = p2
    None = None
    Kept = Kept
    User <- MCUser
    Admin = root
    Request <- MCRequest
    Claim <- MCClaim
    Password <- MCPassword
    ListId <- MCListId
    Naming <- MCNaming
    MaxId = 2
    MaxRequests = 3
    Dumps <- MCDumps
SYMMETRY Symmetry
INVARIANTS
    RoutingTypeOK
    CollisionsAreForeseen
    StreamsDoNotOverlap
    ImportRestores
PROPERTIES
    UntouchedFieldsStay
    PasswordsSurvive
CHECK_DEADLOCK FALSE
