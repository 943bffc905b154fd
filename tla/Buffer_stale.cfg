SPECIFICATION Spec
CONSTANTS
    t1 = t1
    t2 = t2
    h1 = h1
    h2 = h2
    Task <- TwoTasks
    Handler <- TwoHandlers
    Failing <- First
    MaxSeq = 2
    MaxLost = 1
CHECK_DEADLOCK FALSE
INVARIANTS
    TypeOK
    OwnDataInOrder
