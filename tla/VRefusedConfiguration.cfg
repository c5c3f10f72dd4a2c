SPECIFICATION FairSpec
CONSTANTS
    p1 = p1
    p2 = p2
    w1 = w1
    w2 = w2
    v1 = v1
    Free = Free
    Stale = Stale
    NoGeneration = NoGeneration
    NoWorker = NoWorker
    Process = {p1}
    Worker = {w1}
    ProcOf <- OneTask
    Generation <- Contents
    Refused <- RefusedOfTwo
    Unrenderable = {}
    NParts = 2
    MaxCommits = 1
    SlowHolders = FALSE
    MaxFaults = 0
    MaxCrashes = 1
PROPERTIES
    RecoversFromCrash
