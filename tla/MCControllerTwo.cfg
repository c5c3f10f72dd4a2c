SPECIFICATION Spec
CONSTANTS
    p1 = p1
    p2 = p2
    w1 = w1
    w2 = w2
    v1 = v1
    Free = Free
    Stale = Stale
    NoGeneration = NoGeneration
    NoWorker = NoWorker
    Process = {p1, p2}
    Worker = {w1, v1}
    ProcOf <- TwoProcesses
    Generation <- Contents
    Refused <- RefusedOfOne
    Unrenderable = {}
    NParts = 1
    MaxCommits = 3
    SlowHolders = FALSE
    MaxFaults = 2
    MaxCrashes = 1
INVARIANTS
    OnlyValidatedIsServed
    OneReconcilerAtATime
    DatabaseAgreesWithDisk
PROPERTIES
    ImplementsLastKnownGood
