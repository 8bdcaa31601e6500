SPECIFICATION Spec
CHECK_DEADLOCK FALSE
CONSTANTS
    Calls = {1}
    Automatic = {1}
    Syncs = {service}
    Service = service
    Workers = {w1}
    Requests = {q1}
    None = None
    MaxCrashes = 0
    ConnectionLoss = TRUE
    Overruns = FALSE
INVARIANTS
    FailedCanBeRetried
