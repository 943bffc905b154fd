SPECIFICATION FairSpec
CONSTANTS
    c1 = c1
    c2 = c2
    Caller <- TwoCallers
    LoadLimit = 2
    MaxInit = 2
    MaxCommit = 4
INVARIANTS TypeOK CommitBound NoNullInService
PROPERTIES RefusedOnlyWhenFull ReadyLeaves
CHECK_DEADLOCK FALSE
