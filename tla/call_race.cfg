SPECIFICATION Spec
CONSTANTS
    MaxFloor = 1
    NoFloor = NoFloor
    NoElevator = NoElevator
    Nothing = Nothing
    Requests = {r1, r2, r3}
    Elevators = {e1, e2}
    MaxConcurrent = 2
    MaxFaults = 1
SYMMETRY Symmetric
INVARIANTS
    TypeOK
    LogHasNoGaps
    AnswerIsOnRecord
    OwnEventsInOrder
    DepartureIsOnRecord
    SameFleet
    RepeatsOnlyInRaces
    DefaultsOnlyInRaces
PROPERTIES
    LoneRequestLeavesSync
    DepartureNotLost
CHECK_DEADLOCK FALSE
