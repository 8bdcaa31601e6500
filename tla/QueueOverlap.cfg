SPECIFICATION Spec
CHECK_DEADLOCK FALSE
CONSTANTS
    Calls = {1}
    Automatic = {1}
    Syncs = {service, manual}
    Service = service
    Workers = {w1, w2}
    Requests = {q1, q2, q3}
    None = None
    MaxCrashes = 1
    ConnectionLoss = TRUE
    Overruns = TRUE
SYMMETRY ProcessSymmetry
INVARIANTS
    TypeOK
    AnalyzedOnce
    PredictionOfItsRow
PROPERTIES
    PredictionIsImmutable
    DeletionSettles
