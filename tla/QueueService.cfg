\* Jobs end within the stale interval, connections hold, and a worker may be killed.
SPECIFICATION FairSpec
CHECK_DEADLOCK FALSE
CONSTANTS
    Calls = {1}
    Automatic = {1}
    Syncs = {service}
    Service = service
    Workers = {w1, w2}
    Requests = {q1, q2}
    None = None
    MaxCrashes = 1
    ConnectionLoss = FALSE
    Overruns = FALSE
INVARIANTS
    PredictedIsCompleted
PROPERTIES
    CallLifecycleSpec
    RequestIsAnswered
