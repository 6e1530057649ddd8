SPECIFICATION FairSpec
CONSTANTS
    MaxFloor = 1
    NoFloor = NoFloor
    NoTrip = NoTrip
    Trips = {t1}
    Elevators = {e1}
    Loops = {l1}
    MaxHistory = 1
    MaxFaults = 3
INVARIANTS
    ArrivalIsReported
PROPERTIES
    JobEnds
CHECK_DEADLOCK FALSE
