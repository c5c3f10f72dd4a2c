SPECIFICATION PSpec
CONSTANTS
    Prober = {r1, r2}
    Free = Free
    Stale = Stale
    MaxClock = 2
    MaxObservations = 3
    MaxCrashes = 1
INVARIANTS
    OneProbeAtATime
    SerialAuditFollowsHealth
