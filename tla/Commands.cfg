SPECIFICATION MCSpec
INVARIANTS CompensationRight CommandsInPhase
PROPERTIES FutureKept
CONSTANTS
    CYCLE_NUM = 3
    Plan <- MCPlan
    Effects = {1, 5}
    Adjustments <- MCAdjustments
    Ahead = {0, 1, 2}
    Compensations = {1, 3}
    MaxInstance = 7
    MaxInserts = 1
    Interrupts = {}
    PedSend = TRUE
CHECK_DEADLOCK FALSE
