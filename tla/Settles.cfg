SPECIFICATION FairSpec
CONSTANTS
    u1 = u1
    b1 = b1
    b2 = b2
    t1 = t1
    t2 = t2
    t3 = t3
    n1 = n1
    n2 = n2
    h1 = h1
    h2 = h2
    h3 = h3
    None = None
    University <- MCUniversity
    Number <- MCNumber
    Hash <- MCHash
    Batch <- OneBatch
    Task <- TwoTasks
    BatchVuz <- OneBatchVuz
    NumberVuz <- MCNumberVuz
    TaskBatch <- TwoTaskBatch
    TaskNumber <- TwoTaskNumber
    TaskHash <- TwoTaskHash
    Chunks <- TwoChunks
    Engine = {e1, e2}
    MaxAttempts = 2
    FaultKinds = {"broker", "timeout", "gateway", "engine", "takeover"}
    MaxFaults = 1
INVARIANTS
    NoTaskSkipped
    WorkIsInHand
PROPERTIES
    FinishedIsFinal
    AcceptedUploadSettles
CHECK_DEADLOCK FALSE
