SPECIFICATION Spec
CONSTANTS
    u1 = u1
    u2 = u2
    demo = demo
    e1 = e1
    e2 = e2
    l1 = l1
    k1 = k1
    q1 = q1
    None = None
    University <- MCUniversity
    Email <- MCEmail
    UniversityEmail <- MCUniversityEmail
    DemoEmail = e2
    Request <- MCRequest
    RequestKind <- MCRequestKind
SYMMETRY UniversitySymmetry
INVARIANTS
    TypeOK
    DoneWhileActive
    RowsHaveUniversities
CHECK_DEADLOCK FALSE
