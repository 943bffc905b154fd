SPECIFICATION Spec
CONSTANTS
    p1 = p1
    p2 = p2
    p3 = p3
    t1 = t1
    t2 = t2
    e1 = e1
    e2 = e2
    NoUser = none
    Provider <- Providers
    Endpoint = {e1, e2}
    Task <- TwoTasks
    Local = {p1, p3}
    AddrUrl <- TwoAddrUrl
    Url <- TwoUrl
    Invitor <- OneInvitor
INVARIANTS TypeOK AliceIsHere ServesItsParty ReachesTheOthers SameNodeThroughout
PROPERTIES TransactionCBFound
CHECK_DEADLOCK FALSE
