SPECIFICATION Spec
CONSTANTS
    c1 = c1
    c2 = c2
    c3 = c3
    p1 = p1
    p2 = p2
    p3 = p3
    NoClient = NoClient
    Clients <- ThreeClients
    Peers = {p1, p2, p3}
    PeerOf <- SharedPeer
    Amounts = {1, 3}
    Quantum = 2
    Paced = TRUE
    Burst = 3
    Cancellable = {c1}
    MayClose = TRUE
INVARIANTS
    NoRequestLost
    RunnerSleepsSafely
    PacingHolds
CHECK_DEADLOCK FALSE
