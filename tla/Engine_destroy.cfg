SPECIFICATION FairSpec
CONSTANTS
    c1 = c1
    c2 = c2
    Caller <- TwoCallers
    LoadLimit = 1
    MaxInit = 1
    MaxCommit = 1
PROPERTY NobodyLeftWaiting
CHECK_DEADLOCK FALSE
