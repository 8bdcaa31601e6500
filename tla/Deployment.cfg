\* One call, from the migrations to its delivery
SPECIFICATION Spec
CHECK_DEADLOCK FALSE
CONSTANTS
    Phrases = {p1, p2}
    Criteria = {1, 21}
    Last = 3
    Repeatable = {1}
    App = app
    Commands = {cli}
    MaxFaults = 1
    RawScript = 2
    Backfills = {b1, b2}
    OldTranscripts = {{p1}}
INVARIANTS
    TypeOK
    ServesCompleteSchema
    ScriptsInOrder
    AnswersFit
    ComplaintIsInTranscript
    ListIsDeliverable
    HeardIsKept
    EnhancementIsTold
PROPERTIES
    ComesToServe
