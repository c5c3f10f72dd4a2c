SPECIFICATION DSpec
CONSTANTS
    Host = {h1, h2}
    Content = {k1}
    Disabled = Disabled
    NoGeneration = NoGeneration
    Tampering = TRUE
    MaxRevisions = 5
INVARIANTS
    AppliedIsInForce
    FreshInForceIsApplied
