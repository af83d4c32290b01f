SPECIFICATION MCSpec
PROPERTIES EveryTickEnds
CONSTANTS
    Ticks = {"tick"}
    Applications = {"app"}
    OrderChanges = TRUE
    LogBuffer = FALSE
CHECK_DEADLOCK FALSE
