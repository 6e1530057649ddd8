SPECIFICATION Spec
CONSTANTS
    MaxFloor = 1
    NoFloor = NoFloor
    NoTrip = NoTrip
    Trips = {t1}
    Elevators = {e1}
    Loops = {l1, l2}
    MaxHistory = 1
    MaxFaults = 2
SYMMETRY Symmetric
INVARIANTS
    TypeOK
    ArrivalIsReported
    OneWorkerPerJob
CHECK_DEADLOCK FALSE
