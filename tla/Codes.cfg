SPECIFICATION Spec
CONSTANTS
    u1 = u1
    u2 = u2
    a = a
    b = b
    w1 = w1
    n1 = n1
    Blank = Blank
    None = None
    University <- MCUniversity
    Text <- MCText
    Contains <- MCContains
    SearchLimit = 1
    Upload <- MCUpload
    Secret <- MCSecret
    Wide <- MCWide
    Narrow <- MCNarrow
    Request = {q1}
INVARIANTS
    TypeOK
    CleanCodesVerify
    AnswersAreFresh
    SearchAgrees
    CodesOpen
    GatewayViewsAgree
CHECK_DEADLOCK FALSE
