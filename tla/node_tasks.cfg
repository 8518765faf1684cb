SPECIFICATION FairSpec
CONSTANTS
    u = u
    v = v
    h1 = h1
    h2 = h2
    User = {u, v}
    Handle = {h1, h2}
    INVALID_HANDLE = INVALID_HANDLE
    ZeroHandle = h1
    Nothing = Nothing
    QUEUE_LENGTH = 1
    BLE_LENGTH = 2
    INBOX_LENGTH = 1
    UPLINK_LENGTH = 2
    BATCH = 2
    MQTT_LENGTH = 1
    RX_LENGTH = 1
    Workloads <- Mixed
INVARIANTS
    NodeTypeOK
    RequestsKeepOrder
    PrivateStaysPrivate
    UplinkedOnce
    RegistrationIsUnderWay
PROPERTY
    GatewayDrains
CHECK_DEADLOCK FALSE
