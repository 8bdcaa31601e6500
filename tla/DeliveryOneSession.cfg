\* All requests come from one session, so each waits for the one before it.
SPECIFICATION Spec
CONSTANTS
    Candidates = {c1, c2}
    Deliverable = {c1}
    Sessions = {s1}
    Requests = {r1, r2, r3, r4}
SYMMETRY RequestSymmetry
INVARIANTS
    OneOutcome
PROPERTIES
    LifecycleSpec
CHECK_DEADLOCK FALSE
