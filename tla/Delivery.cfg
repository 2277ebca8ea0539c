SPECIFICATION Spec
SYMMETRY MCSymmetry
CONSTANTS
    m1 = m1
    m2 = m2
    m3 = m3
    r1 = r1
    r3 = r3
    c1 = c1
    c2 = c2
    Bad = Bad
    Msgs = {m1, m2, m3}
    Tag <- MCTag
    OtherFrames = {Bad}
    Conns = {c1, c2}
    Receivers = {r1, r3}
    RTag <- MCRTag
    MayTimeout = {r3}
    MaxUnread = 1
    MayClose = TRUE
INVARIANTS
    NoReceiverForgotten
    ErrorMeansDown
    ConnectionsAreRead
    FifoPerTag
PROPERTIES
    RefinesTagChannels
