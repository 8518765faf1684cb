SPECIFICATION Spec
CONSTANTS
    None = None
    u1 = u1
    u2 = u2
    User = {u1, u2}
    Handle = {h1, h2}
    Message = {m1, m2, m3}
    Recipient <- AllToU1
    FromServer = {m3}
    InboxLength = 1
    MaxConnections = 2
    MaxMoves = 1
INVARIANTS
    TypeOK
    AtMostOnce
    DiffsAccountForUsers
PROPERTIES
    MovedUserLeavesNothing
CHECK_DEADLOCK FALSE
