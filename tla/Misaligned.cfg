SPECIFICATION Spec
CONSTANTS
    m1 = m1
    m2 = m2
    m3 = m3
    m4 = m4
    NoMsg = NoMsg
    Msgs <- MCMsgs
    Size <- MCSize
    MaxMessages = 2
    MaxBytes = 4
    FailFast = {m3}
    Cancellable = {m1, m2, m3}
    CancellableTwice = {}
    Parts = 2
    Paced = TRUE
    MayFail = FALSE
    MayClose = FALSE
    PeerDials = FALSE
    MaxConns = 2
    MaxWriters = 6
INVARIANTS
    WireAligned
CHECK_DEADLOCK FALSE
