SPECIFICATION Spec
CONSTANTS
    u = u
    v = v
    h1 = h1
    h2 = h2
    User = {u, v}
    Handle = {h1, h2}
    INVALID_HANDLE = INVALID_HANDLE
    ZeroHandle = h1
    Nothing = Nothing
    QUEUE_LENGTH = 1
    BLE_LENGTH = 2
    INBOX_LENGTH = 1
    UPLINK_LENGTH = 1
    BATCH = 1
    MQTT_LENGTH = 1
    RX_LENGTH = 1
    Workloads <- Edges
INVARIANT
    PhonesHearOfLoss
CHECK_DEADLOCK FALSE
