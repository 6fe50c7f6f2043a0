SPECIFICATION FairSpec
CONSTANTS
    Calls = {c1, c2, c3}
    FailureThreshold = 2
    RecoveryTimeout = 2
    HalfOpenMaxCalls = 1
    MaxAttempts = 2
    None = None
INVARIANTS
    OpenHasTimestamp
    ClosedBelowThreshold
    RefusalHasProbe
    FreshProbeLimit
PROPERTIES
    LeavesOpen
    HalfOpenDecides
