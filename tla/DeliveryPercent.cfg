SPECIFICATION AnalyticsSpec
CHECK_DEADLOCK FALSE
CONSTANTS
    Candidates = {c1, c2}
    Deliverable = {c1, c2}
    Sessions = {s1}
    Requests = {r1, r2, r3}
INVARIANT PercentInRange
