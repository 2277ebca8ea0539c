SPECIFICATION Spec
CONSTANTS
    A = A
    B = B
    a1 = a1
    a2 = a2
    b1 = b1
    Nodes = {A, B}
    Msgs = {a1, a2, b1}
    Outbox <- MCOutbox
    Conns = {1, 2, 3}
    MaxFaults = 2
CHECK_DEADLOCK FALSE
INVARIANTS
    SentArrives
    OvertakesOnSwitch
    OneSendPerFault
PROPERTIES
    ConnectionsSettle
