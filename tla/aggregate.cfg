SPECIFICATION Spec
CONSTANTS
    MaxFloor = 2
    NoFloor = NoFloor
    MaxCalls = 2
    StoredStates <- WrittenOrClosed
INVARIANTS
    TypeOK
    HeadsForTarget
    TimerGuardsDoors
    StrandedOnlyAtOwnFloor
    NoFloorQueuedTwice
    JournalTellsTheJourney
PROPERTIES
    CourseIsHeld
    FirstComeFirstServed
    ImplementsCab
CHECK_DEADLOCK FALSE
