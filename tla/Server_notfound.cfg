SPECIFICATION Spec
CONSTANTS
    Requests = {r1}
    MaxFields = 2
    Operations <- PodOperations
    Contents <- MCContents
    Reasons = {"NotFound", "Forbidden", "Timeout"}
INVARIANTS
    MissingPodIsNotFound
CHECK_DEADLOCK FALSE
