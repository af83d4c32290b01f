SPECIFICATION MCSpec
INVARIANTS PacketsKept ClientsFound PacketsIntact
PROPERTIES VehiclesKept
CHECK_DEADLOCK FALSE
CONSTANTS
    Senders = {"dispatcher", "timer"}
    Packets = 3
    ClientRingMax = 259
    Capacity = 2
    HandleIds = 2
    KeyIds = 3
    Radix = 3
    FirstId = 0
    MaxConnections = 3
