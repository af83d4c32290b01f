SPECIFICATION MCSpec
INVARIANTS ReceivedAsSent NumbersDistinct WellFormed
PROPERTIES AcksMeanReceived
CONSTANTS
    Waiters = {"poll"}
    Others = {"vips"}
    SeqMod = 3
    Lossy = TRUE
    MaxSent = 5
    MaxLine = 2
CHECK_DEADLOCK FALSE
