SPECIFICATION UserSpec
CONSTANTS
    A = A
    B = B
    C = C
    D = D
    alice = alice
    bob = bob
    Node = {A, B, C}
    User = {alice, bob}
    MQTTNode = {A, B}
    Link <- Line
    Requests = {}
    Workloads <- Mixed
    BROADCAST_ADDR = BROADCAST_ADDR
    NoRoute = NoRoute
    Undecipherable = Undecipherable
    Dist <- HopDistance
    QueueMayFill = TRUE
    MAX_RETRANS = 0
    MaxSends = 1
    MaxPacketIDs = 6
    MaxRestarts = 1
    IdsPerPacket = 1
    IdsThatFit = 1
    INBOX_MAX = 1
INVARIANTS
    UserTypeOK
    HopCountsNeverUnderestimate
    RoutesKeepOrder
    OneCopy
CHECK_DEADLOCK FALSE
