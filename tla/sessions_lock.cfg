SPECIFICATION FairSpec
CONSTANTS
    Task = {"router", "bleRx", "host", "timer", "sync"}
    Nobody = Nobody
INVARIANTS
    TypeOK
    ReadersExcludeWriters
PROPERTIES
    SectionsEnd
CHECK_DEADLOCK FALSE
