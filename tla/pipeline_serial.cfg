SPECIFICATION SerialSpec
CONSTANTS
    MaxFloor = 2
    NoFloor = NoFloor
    NoTrip = NoTrip
    Trips = {t1, t2}
    Elevators = {e1, e2}
    Loops = {l1, l2}
    MaxHistory = 1
    MaxFaults = 0
PROPERTIES
    ImplementsCab
CHECK_DEADLOCK FALSE
