CONSTANTS
    n1 = n1
    n2 = n2
    n3 = n3
    Node = {n1, n2}
    Group = {g1}
    Endpoint = {n1, n2}
    EndpointOf <- OwnEndpoints
    Gossip = FALSE
    SeqMod = 8
    StatusMod = 2
    Hwm = 8
    MaxQueue = 5
    Budget <- SettleBudget
SPECIFICATION FairSpec
INVARIANTS TypeOK StatusAssertHolds NeverIgnored
PROPERTIES Converges Forgets
CHECK_DEADLOCK FALSE
