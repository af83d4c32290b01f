SPECIFICATION Spec
INVARIANTS TypeOK VehicleGreenBudget PedestrianGreenKept
PROPERTIES DirectionChangesAfterService BothDirectionsServed
CONSTANTS
    G = 30
    GF = 27
    Y = 2
    R = 2
    PT = 65
    Counts <- MCCounts
