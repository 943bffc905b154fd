SPECIFICATION FairSpec
CONSTANTS
    t1 = t1
    t2 = t2
    t3 = t3
    t4 = t4
    Task <- FourTasks
    Invited <- ThreeInvited
    Twice <- OneTwice
    MaxOther = 1
CHECK_DEADLOCK FALSE
INVARIANTS
    TypeOK
    StartOrder
    OneVerdict
    NoNonceHole
    MonitorNotBehindRun
    NoNonceSkipped
    
PROPERTIES
    OtherRoleStarts
