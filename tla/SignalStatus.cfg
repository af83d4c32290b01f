SPECIFICATION MCSpec
INVARIANTS CacheRight ErrorsTold
CONSTANTS
    DsrcLimit = 2
    TscLimit = 3
    KillDelay = 2
    PlainBits = {"VMS", "DISK"}
CHECK_DEADLOCK FALSE
