SPECIFICATION Spec
CONSTANTS
    Requests = {r1}
    MaxFields = 2
    Operations <- MutationOperations
    Contents <- MCContents
    Reasons = {"NotFound", "Forbidden", "Timeout"}
INVARIANTS
    EffectsAreAudited
CHECK_DEADLOCK FALSE
