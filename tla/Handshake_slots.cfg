SPECIFICATION FairSpec
CONSTANTS
    n1 = n1
    n2 = n2
    t1 = t1
    t2 = t2
    t3 = t3
    Node <- MCNode
    Task <- ThreeTasks
    Invitor <- TwoAtN1
    Peerless <- ThirdTask
    ProcessorNum = 2
    MaxFaults = 0
CONSTRAINT PeerlessFirst
CHECK_DEADLOCK FALSE
INVARIANTS
    InFlightBounded
    NoDeadlock
PROPERTIES
    CommittedIsPushed
