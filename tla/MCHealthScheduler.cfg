SPECIFICATION FairSSpec
CONSTANTS
    Host = {h1, h2}
    Concurrency = 1
    MaxEdits = 1
    MaxDirect = 1
    MaxFaults = 1
PROPERTIES
    EventuallyCurrent
CHECK_DEADLOCK FALSE
