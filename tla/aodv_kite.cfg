SPECIFICATION ColdOrWarmSpec
CONSTANTS
    A = A
    B = B
    C = C
    D = D
    Node = {A, B, C, D}
    MQTTNode = {A, B, C, D}
    Link <- Kite
    Requests <- AckedAD
    BROADCAST_ADDR = BROADCAST_ADDR
    NoRoute = NoRoute
    Undecipherable = Undecipherable
    Dist <- HopDistance
    QueueMayFill = TRUE
    MAX_RETRANS = 1
    MaxSends = 1
    MaxPacketIDs = 3
    MaxRestarts = 0
INVARIANTS
    TypeOK
    HopCountsNeverUnderestimate
    NextHopIsCloser
    DataFollowsRoutes
    FloodsDieOut
PROPERTY
    PhoneServiceHolds
CHECK_DEADLOCK FALSE
