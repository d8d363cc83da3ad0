SPECIFICATION Spec
CONSTANTS
    u1 = u1
    d1 = d1
    r1 = r1
    r2 = r2
    None = None
    University <- MCUniversity
    Diploma <- MCDiploma
    DiplomaVuz <- MCDiplomaVuz
    Request <- MCRequest
    RequestHash <- MCRequestHash
    RequestTtl <- MCRequestTtl
    DefaultTtl = 3
    Visit = {v1, v2}
    MaxTime = 4
SYMMETRY VisitSymmetry
INVARIANTS
    TypeOK
    LinksHaveDiplomas
    AnswersInTime
    LinksOpen
    AnswersAreFresh
    UsesCountAnswers
CHECK_DEADLOCK FALSE
