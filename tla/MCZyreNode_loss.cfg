CONSTANTS
    n1 = n1
    n2 = n2
    n3 = n3
    Node = {n1, n2}
    Group = {g1}
    Endpoint = {n1, n2}
    EndpointOf <- OwnEndpoints
    Gossip = FALSE
    SeqMod = 8
    StatusMod = 4
    Hwm = 8
    MaxQueue = 5
    Budget <- LossBudget
SPECIFICATION Spec
INVARIANT StatusAssertHolds
CHECK_DEADLOCK FALSE
