SPECIFICATION Spec
CONSTANTS
    u1 = u1
    u2 = u2
    r1 = r1
    r2 = r2
    r3 = r3
    r4 = r4
    r5 = r5
    k1 = k1
    k2 = k2
    None = None
    University <- MCUniversity
    Request <- MCRequest
    Key <- MCKey
    RequestVuz <- MCRequestVuz
    RequestKey <- MCRequestKey
    Overlap <- MCOverlap
INVARIANTS
    HalvesMatch
CHECK_DEADLOCK FALSE
