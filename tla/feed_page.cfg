SPECIFICATION FairSpec
CONSTANTS
    Elevators = {e1}
    Clients = {c1}
    Pages = {c1}
    Pollers = {}
    Everyone = Everyone
    Nobody = Nobody
    MaxWrites = 2
    MaxPending = 2
    MaxFaults = 0
PROPERTIES
    PageCatchesUp
CHECK_DEADLOCK FALSE
