SPECIFICATION Spec
CONSTANTS
    u1 = u1
    b1 = b1
    b2 = b2
    t1 = t1
    t2 = t2
    t3 = t3
    n1 = n1
    n2 = n2
    h1 = h1
    h2 = h2
    h3 = h3
    None = None
    University <- MCUniversity
    Number <- MCNumber
    Hash <- MCHash
    Batch <- MCBatch
    Task <- MCTask
    BatchVuz <- MCBatchVuz
    NumberVuz <- MCNumberVuz
    TaskBatch <- MCTaskBatch
    TaskNumber <- MCTaskNumber
    TaskHash <- MCTaskHash
    Chunks <- MCChunks
    Engine = {e1, e2}
    MaxAttempts = 1
    FaultKinds = {"broker", "timeout", "gateway", "engine", "takeover", "db"}
    MaxFaults = 1
SYMMETRY EngineSymmetry
INVARIANTS
    TypeOK
    CountersMatchRows
    StatusMatchesRows
    OkRowRegistered
    AcceptedIsPublished
PROPERTIES
    ResultsChangeNothing
    ImplementsLedger
CHECK_DEADLOCK FALSE
