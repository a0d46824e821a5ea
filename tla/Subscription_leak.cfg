SPECIFICATION FairSpec
CONSTANTS
    Cap = 1
    MaxSeen = 2
PROPERTIES
    ConverterReleased
CHECK_DEADLOCK FALSE
