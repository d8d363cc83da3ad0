SPECIFICATION Spec
CONSTANTS
    c1 = c1
    c2 = c2
    None = None
    Client <- MCClient
    Overlap <- MCOverlap
    Request = {r1, r2}
    Cost = 2
    Burst = 2
    VisitorTTL = 5
    CleanupInterval = 3
    Second = 3
    MaxLag = 1
    MaxDebt = 1
    MaxTime = 6
SYMMETRY RequestSymmetry
INVARIANTS
    TypeOK
    AdmittedWithinRate
    RetryAfterHonoured
PROPERTIES
    ImplementsBucket
CHECK_DEADLOCK FALSE
