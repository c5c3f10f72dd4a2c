SPECIFICATION FairSpec
CONSTANTS
    p1 = p1
    p2 = p2
    w1 = w1
    w2 = w2
    v1 = v1
    Free = Free
    Stale = Stale
    NoGeneration = NoGeneration
    NoWorker = NoWorker
    Process = {p1}
    Worker = {w1, w2}
    ProcOf <- OneProcess
    Generation <- Contents
    Refused <- RefusedOfTwo
    Unrenderable <- UnrenderableOfTwo
    NParts = 2
    MaxCommits = 1
    SlowHolders = TRUE
    MaxFaults = 1
    MaxCrashes = 1
INVARIANTS
    TypeOK
    SettledServesActive
    AppliedIncludesOwnWrite
PROPERTIES
    EveryReconcileEnds
    RecoversOncePublished
