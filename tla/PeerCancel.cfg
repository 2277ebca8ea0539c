SPECIFICATION Spec
CONSTANTS
    m1 = m1
    m2 = m2
    m3 = m3
    m4 = m4
    NoMsg = NoMsg
    Msgs <- MCFour
    Size <- MCSizeOfFour
    MaxMessages = 2
    MaxBytes = 4
    FailFast = {m3}
    Cancellable = {m1}
    CancellableTwice = {}
    Parts = 2
    Paced = TRUE
    MayFail = FALSE
    MayClose = FALSE
    PeerDials = TRUE
    MaxConns = 2
    MaxWriters = 6
INVARIANTS
    CompletionMatchesWire
    QueueServed
    BufferReleased
PROPERTIES
    AlignedWhileSole
    RefinesSendService
CHECK_DEADLOCK FALSE
