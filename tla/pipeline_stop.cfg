SPECIFICATION Spec
CONSTANTS
    MaxFloor = 2
    NoFloor = NoFloor
    NoTrip = NoTrip
    Trips = {t1, t2}
    Elevators = {e1}
    Loops = {l1, l2}
    MaxHistory = 1
    MaxFaults = 0
PROPERTIES
    StopHolds
CHECK_DEADLOCK FALSE
