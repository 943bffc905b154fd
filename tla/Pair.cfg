SPECIFICATION FairPairSpec
CONSTANTS
    n1 = n1
    n2 = n2
    t1 = t1
    t2 = t2
    Node <- MCNode
    Task <- TwoTasks
    Invitor <- AllAtN1
    Peerless <- NoTask
    ProcessorNum = 2
    MaxFaults = 0
    Breaking <- SecondTask
CHECK_DEADLOCK FALSE
INVARIANTS
    PairTypeOK
    NoCrossWait
    PairNoDeadlock
PROPERTIES
    HandshakeSpec
    CommittedIsEnded
