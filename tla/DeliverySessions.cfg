\* Requests of two sessions on one candidate, in every order.  A request waits for
\* rows of its session and its candidate, so other candidates add no wait.
SPECIFICATION FairSpec
CONSTANTS
    Candidates = {c1}
    Deliverable = {c1}
    Sessions = {s1, s2}
    Requests = {r1, r2, r3}
INVARIANTS
    TypeOK
    OneDeliveryAtATime
    NoDeliveryForDeletedCall
    RowsAgree
    HistoryIsTrue
    EveryDeliveryRecorded
PROPERTIES
    RequestsEnd
CHECK_DEADLOCK FALSE
