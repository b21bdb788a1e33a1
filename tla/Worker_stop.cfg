SPECIFICATION WorkerSpec
CONSTANTS
    Tasks = {"heartbeat", "scheduler", "maintenance", "dispatcher"}
    Stuck = {"maintenance"}
    Budget = 1
    Resources = {1, 2}
    Batch = 1
    MaxCrashes = 1
INVARIANTS ExitTells BypassBounded
PROPERTIES NoNewCycle StopEnds VisitComes
CHECK_DEADLOCK FALSE
