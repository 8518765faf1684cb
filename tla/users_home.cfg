SPECIFICATION UserSpec
CONSTANTS
    A = A
    B = B
    C = C
    D = D
    alice = alice
    bob = bob
    Node = {A, B, C, D}
    User = {alice, bob}
    MQTTNode = {A, B}
    Link <- LongLine
    Requests = {}
    Workloads <- AskingFar
    BROADCAST_ADDR = BROADCAST_ADDR
    NoRoute = NoRoute
    Undecipherable = Undecipherable
    Dist <- HopDistance
    QueueMayFill = FALSE
    MAX_RETRANS = 0
    MaxSends = 1
    MaxPacketIDs = 6
    MaxRestarts = 1
    IdsPerPacket = 1
    IdsThatFit = 1
    INBOX_MAX = 1
INVARIANT
    HomeIsFound
CHECK_DEADLOCK FALSE
