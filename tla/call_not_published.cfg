SPECIFICATION Spec
CONSTANTS
    MaxFloor = 1
    NoFloor = NoFloor
    NoElevator = NoElevator
    Nothing = Nothing
    Requests = {r1}
    Elevators = {e1}
    MaxConcurrent = 1
    MaxFaults = 0
INVARIANTS
    DepartureIsPublished
CHECK_DEADLOCK FALSE
