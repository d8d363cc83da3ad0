SPECIFICATION FairSpec
CONSTANTS
    u1 = u1
    b1 = b1
    b2 = b2
    t1 = t1
    t2 = t2
    t3 = t3
    n1 = n1
    n2 = n2
    h1 = h1
    h2 = h2
    h3 = h3
    None = None
    University <- MCUniversity
    Number <- OneNumber
    Hash <- MCHash
    Batch <- OneBatch
    Task <- OneTask
    BatchVuz <- OneBatchVuz
    NumberVuz <- OneNumberVuz
    TaskBatch <- OneTaskBatch
    TaskNumber <- OneTaskNumber
    TaskHash <- OneTaskHash
    Chunks <- OneChunks
    Engine = {e1}
    MaxAttempts = 2
    FaultKinds = {"db"}
    MaxFaults = 1
PROPERTIES
    AcceptedUploadSettles
CHECK_DEADLOCK FALSE
