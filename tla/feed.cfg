SPECIFICATION FairSpec
CONSTANTS
    Elevators = {e1, e2}
    Clients = {c1}
    Pages = {}
    Pollers = {p1}
    Everyone = Everyone
    Nobody = Nobody
    MaxWrites = 3
    MaxPending = 2
    MaxFaults = 1
INVARIANTS
    TypeOK
PROPERTIES
    ImplementsBoard
    ListsCatchUp
CHECK_DEADLOCK FALSE
