SPECIFICATION Spec
CONSTANTS
    Callers = {c1, c2}
    TTL = 1
    MaxClock = 4
INVARIANTS
    TypeOK
    NeverNil
    SerialAnswersAreFresh
CHECK_DEADLOCK FALSE
