SPECIFICATION Spec
CONSTANTS
    MaxFloor = 1
    NoFloor = NoFloor
    NoElevator = NoElevator
    Nothing = Nothing
    Requests = {r1, r2}
    Elevators = {e1, e2}
    MaxConcurrent = 1
    Trips = {t1}
    Loops = {l1}
    NoTrip = NoTrip
    MaxFaults = 0
PROPERTIES
    StoppedIsNotCalled
CHECK_DEADLOCK FALSE
