SPECIFICATION FairSpec
CONSTANTS
    Requests = {r1}
    MaxFields = 2
    Operations <- MCOperations
    Contents <- MCContents
    Reasons = {"NotFound", "Forbidden", "Timeout"}
INVARIANTS
    TypeOK
    AllOrNothing
    MutationsAreSerial
    AuditMatchesAnswer
    CodesTellEffects
    ListsAreFaithful
PROPERTIES
    OperationsAreAnswered
    ShutdownEnds
CHECK_DEADLOCK FALSE
