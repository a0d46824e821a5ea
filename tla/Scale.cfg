SPECIFICATION Spec
CONSTANTS
    Requests = {r1, r2}
    MaxReplicas = 1
    OtherCounts = {0, 2}
    MaxRevision = 2
INVARIANTS
    TypeOK
    ReportedPreviousIsReplaced
    NoHiddenChange
    SuccessRowIsTrue
PROPERTIES
    ScaleIsAtomic
CHECK_DEADLOCK FALSE
