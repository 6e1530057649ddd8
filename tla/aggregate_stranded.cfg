SPECIFICATION FairSpec
CONSTANTS
    MaxFloor = 2
    NoFloor = NoFloor
    MaxCalls = 1
    StoredStates <- Written
PROPERTIES
    QueuedFloorIsReached
CHECK_DEADLOCK FALSE
