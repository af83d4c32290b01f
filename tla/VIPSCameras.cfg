SPECIFICATION MCSpec
INVARIANTS MatrixShowsLastPackets OnlyTornRowsMislead Aligned
PROPERTIES SynchronizesDespiteFaults
CONSTANTS
    G = 1
    GF = 1
    Y = 1
    R = 2
    PT = 10
    Counts <- MCCounts
    Cameras = {3, 6}
    Packets <- MixedPackets
    MaxCount = 3
    MaxFaults = 2
    MinDwell = 2
    MaxLine = 4
