SPECIFICATION Spec
CONSTANTS
    Cap = 1
    MaxSeen = 2
INVARIANTS
    NoPanic
CHECK_DEADLOCK FALSE
