SPECIFICATION FairSpec
CONSTANTS
    t1 = t1
    t2 = t2
    h1 = h1
    h2 = h2
    Task <- TwoTasks
    Handler <- TwoHandlers
    Failing <- None
    MaxSeq = 2
    MaxLost = 1
CHECK_DEADLOCK FALSE
INVARIANTS
    SeqMatchesSender
PROPERTIES
    FifoSpec
    DeliveredUnlessStraddled
    WaitsForMissing
