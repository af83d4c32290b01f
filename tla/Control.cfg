SPECIFICATION MCSpec
INVARIANTS StatusExclusive
PROPERTIES EveryOperationEnds ControlCatchesUp
CONSTANTS
    Ticks = {"tick"}
    Applications = {"app"}
    OrderChanges = FALSE
    LogBuffer = FALSE
CHECK_DEADLOCK FALSE
