SPECIFICATION MCSpec
INVARIANTS CallbacksInOrder LinksRight PriorityKept BusesServed
PROPERTIES BeatingAppsKept
CONSTANTS
    Vehicles = {"a", "b"}
    Areas = {"west", "north"}
    PhaseOf <- MCPhaseOf
    Threshold = 2
    Internal <- MCInternal
    External = {"first", "same"}
    app_id <- MCapp_id
    app_name <- MCapp_name
    priority <- MCpriority
    Events <- MCEvents
    wants <- MCwants
    Messages = {"SRM", "BSM"}
    Walkers = {"dispatcher"}
    EventOf <- MCEventOf
    Garbage <- MCGarbage
    NoApp = "none"
    Procs = {"p1", "p2"}
    AppOf <- MCAppOf
    Fds = {3, 4, 5, 6}
    Allowed = 1
    RcWidth = 3
    MaxLinks = 4
    NoProc = "nobody"
    Buses = {"x", "y"}
    Targets = {0, 2}
    PhaseCount = 2
    Distances = {499, 500}
    Seconds = {0, 200, 65535}
    Directory <- MCDirectory
    Plans = {1, 2}
    RSU = "me"
    MaxObjects = 2
    Near = 500
CHECK_DEADLOCK FALSE
