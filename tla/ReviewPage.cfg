\* An operator's page while one call is analysed and another decided
SPECIFICATION Spec
CHECK_DEADLOCK FALSE
CONSTANTS
    c1 = c1
    c2 = c2
    Calls = {c1, c2}
    First <- MCFirst
    Deletable = {c1}
    None = None
    Load = load
    Polls = {p1}
    MaxEvents = 2
INVARIANTS
    TypeOK
    OneDecision
    ButtonsFollow
PROPERTIES
    DecisionsAreRead
    QueueIsRefreshed
    StaleIsRepaired
