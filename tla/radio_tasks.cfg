SPECIFICATION FairSpec
CONSTANTS
    QueueLength = 2
    StartMayFail = TRUE
    MaxPackets = 4
INVARIANTS
    TypeOK
    RadioTaskNeverAborts
    WaiterIsWoken
    QuietNodeListens
PROPERTY
    Drains
CHECK_DEADLOCK FALSE
