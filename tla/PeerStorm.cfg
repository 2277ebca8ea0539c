SPECIFICATION Spec
CONSTANTS
    m1 = m1
    m2 = m2
    m3 = m3
    m4 = m4
    NoMsg = NoMsg
    Msgs <- MCMsgs
    Size <- MCSize
    MaxMessages = 2
    MaxBytes = 2
    FailFast = {m1}
    Cancellable = {m1, m2}
    CancellableTwice = {m2}
    Parts = 1
    Paced = TRUE
    MayFail = TRUE
    MayClose = TRUE
    PeerDials = FALSE
    MaxConns = 1
    MaxWriters = 6
INVARIANTS
    MessageAccounting
    ByteAccounting
    WithinLimits
    NoLostWakeup
CHECK_DEADLOCK FALSE
