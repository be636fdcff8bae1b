CONSTANTS
    n1 = n1
    n2 = n2
    n3 = n3
    Node = {n1, n2, n3}
    Group = {g1}
    Endpoint = {n1, n2}
    EndpointOf <- Successor
    Gossip = TRUE
    SeqMod = 8
    StatusMod = 4
    Hwm = 2
    MaxQueue = 4
    Budget <- FaultBudget
SPECIFICATION Spec
INVARIANTS NothingLost OneMailbox NoDanglingPeer AnnouncedFirst
CHECK_DEADLOCK FALSE
