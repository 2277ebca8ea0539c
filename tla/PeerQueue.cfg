SPECIFICATION FairSpec
CONSTANTS
    m1 = m1
    m2 = m2
    m3 = m3
    m4 = m4
    NoMsg = NoMsg
    Msgs <- MCMsgs
    Size <- MCSize
    MaxMessages = 2
    MaxBytes = 4
    FailFast = {m3}
    Cancellable = {}
    CancellableTwice = {}
    Parts = 1
    Paced = FALSE
    MayFail = TRUE
    MayClose = FALSE
    PeerDials = FALSE
    MaxConns = 2
    MaxWriters = 6
INVARIANTS
    Fifo
PROPERTIES
    SendsEnd
CHECK_DEADLOCK FALSE
