SPECIFICATION Spec
CONSTANTS
    A = A
    B = B
    C = C
    D = D
    Node = {A, B, C}
    MQTTNode = {A, B, C}
    Link <- Triangle
    Requests <- AckedBothWays
    BROADCAST_ADDR = BROADCAST_ADDR
    NoRoute = NoRoute
    Undecipherable = Undecipherable
    Dist <- HopDistance
    QueueMayFill = FALSE
    MAX_RETRANS = 1
    MaxSends = 2
    MaxPacketIDs = 4
    MaxRestarts = 0
PROPERTY
    DuplicateWasProcessed
CHECK_DEADLOCK FALSE
