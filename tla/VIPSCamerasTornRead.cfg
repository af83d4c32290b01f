SPECIFICATION MCSpec
PROPERTIES EarlyClearanceIsReal
CONSTANTS
    G = 1
    GF = 1
    Y = 1
    R = 2
    PT = 10
    Counts <- MCCounts
    Cameras = {3}
    Packets <- WalkingPackets
    MaxCount = 1
    MaxFaults = 0
    MinDwell = 2
    MaxLine = 4
