SPECIFICATION FairSpec
CONSTANTS
    Cap = 1
    MaxSeen = 5
INVARIANTS
    TypeOK
    ConservedInOrder
    BoundedBacklog
    NoPanicWhileLive
    StopLoggedAfterClose
PROPERTIES
    StreamIsOneQueue
    CancelEndsProducer
    LiveDelivery
    ReturnCompletesClient
CHECK_DEADLOCK FALSE
