SPECIFICATION Spec
CONSTANTS
    QueueLength = 2
    StartMayFail = FALSE
    MaxPackets = 4
INVARIANT
    PriorTransmissionDone
CHECK_DEADLOCK FALSE
