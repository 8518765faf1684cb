SPECIFICATION WarmTimerSpec
CONSTANTS
    A = A
    B = B
    C = C
    D = D
    Node = {A, B, C}
    MQTTNode = {B, C}
    Link <- Line
    Requests <- Mixed
    BROADCAST_ADDR = BROADCAST_ADDR
    NoRoute = NoRoute
    Undecipherable = Undecipherable
    Dist <- HopDistance
    QueueMayFill = TRUE
    MAX_RETRANS = 1
    MaxSends = 1
    MaxPacketIDs = 4
    MaxRestarts = 1
INVARIANTS
    HopCountsNeverUnderestimate
    NeverComesBack
PROPERTIES
    PhoneServiceHolds
    PendingIsResolved
CHECK_DEADLOCK FALSE
