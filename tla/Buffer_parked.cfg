SPECIFICATION Spec
CONSTANTS
    t1 = t1
    t2 = t2
    h1 = h1
    h2 = h2
    Task <- OneTask
    Handler <- OneHandler
    Failing <- None
    MaxSeq = 2
    MaxLost = 0
CHECK_DEADLOCK FALSE
INVARIANT
    ParkedIsFetched
