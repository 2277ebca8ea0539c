SPECIFICATION FairSpec
CONSTANTS
    c1 = c1
    c2 = c2
    c3 = c3
    p1 = p1
    p2 = p2
    p3 = p3
    NoClient = NoClient
    Clients <- ThreeClients
    Peers = {p1, p2, p3}
    PeerOf <- OwnPeers
    Amounts = {3}
    Quantum = 2
    Paced = FALSE
    Burst = 2
    Cancellable = {c1}
    MayClose = TRUE
INVARIANTS
    RoundRobin
PROPERTIES
    EveryRequestAnswered
CHECK_DEADLOCK FALSE
