SPECIFICATION Spec
CONSTANTS
    Candidates = {c1}
    Deliverable = {c1}
    Sessions = {s1, s2}
    Requests = {r1, r2, r3}
SYMMETRY RequestSymmetry
INVARIANTS
    OneOutcome
CHECK_DEADLOCK FALSE
