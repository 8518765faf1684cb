SPECIFICATION ColdOrWarmFairSpec
CONSTANTS
    A = A
    B = B
    C = C
    D = D
    Node = {A, B, C}
    MQTTNode = {A, B, C}
    Link <- Line
    Requests <- PlainAC
    BROADCAST_ADDR = BROADCAST_ADDR
    NoRoute = NoRoute
    Undecipherable = Undecipherable
    Dist <- HopDistance
    QueueMayFill = FALSE
    MAX_RETRANS = 1
    MaxSends = 2
    MaxPacketIDs = 7
    MaxRestarts = 0
PROPERTY
    Delivered
CHECK_DEADLOCK FALSE
