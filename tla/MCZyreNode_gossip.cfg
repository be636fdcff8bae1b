CONSTANTS
    n1 = n1
    n2 = n2
    n3 = n3
    Node = {n1, n2}
    Group = {g1}
    Endpoint = {n1, n2}
    EndpointOf <- OwnEndpoints
    Gossip = TRUE
    SeqMod = 8
    StatusMod = 4
    Hwm = 8
    MaxQueue = 5
    Budget <- GossipBudget
SPECIFICATION FairSpec
PROPERTIES Converges
CHECK_DEADLOCK FALSE
