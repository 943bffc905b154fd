SPECIFICATION Spec
CONSTANTS
    n1 = n1
    n2 = n2
    t1 = t1
    t2 = t2
    t3 = t3
    Node <- MCNode
    Task <- TwoTasks
    Invitor <- OneEach
    Peerless <- NoTask
    ProcessorNum = 2
    MaxFaults = 1
CHECK_DEADLOCK FALSE
INVARIANTS
    TypeOK
    Agreement
    NoLostReady
    AbandonedNeverRuns
    NoOvertaking
    NoDeadlock
PROPERTIES
    RendezvousSpec
