SPECIFICATION Spec
CONSTANTS
    Requests = {r1, r2}
    Shapes <- MCShapes
    MaxUid = 2
INVARIANTS
    TypeOK
    UnsupportedPodsAreLeftAlone
    SuccessMatchesEffect
    RefusalChangesNothing
CHECK_DEADLOCK FALSE
