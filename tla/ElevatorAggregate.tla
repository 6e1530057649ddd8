------------------------- MODULE ElevatorAggregate --------------------------
(***************************************************************************)
(* One ElevatorAggregate object over its life: calls arrive, whoever holds *)
(* the object moves it floor by floor, the door timer fires, the           *)
(* repository commits its events, in any order.                            *)
(***************************************************************************)
EXTENDS ElevatorDomain, SequencesExt

CONSTANTS
    StoredStates,  \* the states a row may hold when the object is rebuilt from it
    MaxCalls       \* bound: how many calls are made

ASSUME StoredStatesAssumption == StoredStates \subseteq State

VARIABLES
    elevator,    \* the object
    doorTimers,  \* two-second timers set and not yet fired
    committed,   \* history: the events the repository has stored, in order
    calls        \* how many calls were made, against MaxCalls

vars == <<elevator, doorTimers, committed, calls>>

Init ==
    /\ elevator \in       {Created(f) : f \in Floor}
                    \cup {Rehydrated(f, s) : f \in Floor, s \in StoredStates}
    /\ doorTimers = 0
    /\ committed = <<>>
    /\ calls = 0

(* call(from, to); for a floor out of range and in MAINTENANCE it throws    *)
(* and changes nothing.                                                     *)
Call(from, to) ==
    /\ calls < MaxCalls
    /\ Accepts(elevator)
    /\ elevator' = WithCall(elevator, from, to)
    /\ calls' = calls + 1
    /\ UNCHANGED <<doorTimers, committed>>

FaultTimerEveryFloor ==         \* the timer is set outside the arrival branch
    /\ Travelling(elevator)
    /\ elevator' = WithOneFloor(elevator)
    /\ doorTimers' = doorTimers + 1
    /\ UNCHANGED <<committed, calls>>

(* moveOneFloor(); on arrival it sets the door timer.                       *)
MoveOneFloor ==
    /\ Travelling(elevator)
    /\ elevator' = WithOneFloor(elevator)
    /\ doorTimers' = IF FloorAfter(elevator) = elevator.target
                     THEN doorTimers + 1 ELSE doorTimers
    /\ UNCHANGED <<committed, calls>>

(* A door timer fires; its callback does not look at the state it finds.    *)
DoorTimer ==
    /\ doorTimers > 0
    /\ doorTimers' = doorTimers - 1
    /\ elevator' = WithDoorsTimedOut(elevator)
    /\ UNCHANGED <<committed, calls>>

(* The repository has stored the events and commits the object.             *)
MarkEventsAsCommitted ==
    /\ elevator.events # <<>>
    /\ committed' = committed \o elevator.events
    /\ elevator' = WithEventsCommitted(elevator)
    /\ UNCHANGED <<doorTimers, calls>>

Next ==
    \/ \E from, to \in Floor : Call(from, to)
    \/ MoveOneFloor
    \/ DoorTimer
    \/ MarkEventsAsCommitted

Spec == Init /\ [][Next]_vars

(* setTimeout fires.  That the object is moved on assumes a caller that the *)
(* program does not have: it serves only to show what fails even then.      *)
FairSpec == Spec /\ WF_vars(MoveOneFloor) /\ WF_vars(DoorTimer)

-----------------------------------------------------------------------------
(* The object is what its class declares.  That the floor stays in the      *)
(* building is the substance: moveOneFloor adds or subtracts one with no    *)
(* check of its own, and new Floor would throw half-way through it.         *)
TypeOK ==
    /\ elevator \in Aggregate
    /\ doorTimers \in Nat
    /\ committed \in Seq(Event)
    /\ calls \in Nat

(* A travelling elevator is not at its target and heads for it: the         *)
(* direction, fixed at departure, stays right at every floor on the way.    *)
HeadsForTarget ==
    Travelling(elevator) =>
        /\ elevator.target # elevator.floor
        /\ elevator.direction = DirectionTo(elevator.floor, elevator.target)

(* A door timer is pending only while the doors are opening, and never two: *)
(* so its callback, which sets IDLE whatever the state, never stops an      *)
(* elevator that moves.                                                     *)
TimerGuardsDoors ==
    /\ doorTimers <= 1
    /\ doorTimers = 1 => elevator.state = "DOORS_OPENING"

(* An IDLE elevator with floors still queued can only be one that was       *)
(* called to the floor it stands on: the early return of processNextRequest *)
(* is the one way to strand the rest of the queue.                          *)
StrandedOnlyAtOwnFloor ==
    elevator.state = "IDLE" /\ elevator.queue # <<>> => elevator.target = elevator.floor

(* No floor is queued twice, whatever calls are merged into the queue.      *)
NoFloorQueuedTwice == IsInjective(elevator.queue)

Journal == committed \o elevator.events

(* Where a log tells of the journey: the departures and the arrivals in it. *)
Legs(log) == {i \in DOMAIN log : log[i].type \in {"Moving", "Arrived"}}

Follows(e, f) ==
    \/ e.type = "Moving"  /\ f.type = "Arrived" /\ f.floor = e.to
    \/ e.type = "Arrived" /\ f.type = "Moving"  /\ f.from = e.floor

(* What the last of them says the object is doing.                          *)
Says(e, a) ==
    \/ e.type = "Moving"  /\ Travelling(a)
                          /\ a.target = e.to /\ a.direction = e.direction
    \/ e.type = "Arrived" /\ ~Travelling(a) /\ a.floor = e.floor

LegsFollow(log) ==
    \A i, j \in Legs(log) :
        i < j /\ (\A k \in Legs(log) : k <= i \/ j <= k) => Follows(log[i], log[j])

LastLegSays(log, a) ==
    \A i \in Legs(log) : (\A k \in Legs(log) : k <= i) => Says(log[i], a)

(* The events, committed or not, tell the journey and nothing else: every   *)
(* departure is followed by the arrival at its floor, the next departure is *)
(* from there, and the last event says what the object is doing now.  This  *)
(* is what makes the stored log worth reading back.                         *)
JournalTellsTheJourney == LegsFollow(Journal) /\ LastLegSays(Journal, elevator)

-----------------------------------------------------------------------------
Distance(a) == IF a.target > a.floor THEN a.target - a.floor ELSE a.floor - a.target

(* Until it arrives, a travelling elevator keeps its target and direction   *)
(* and never gets further from it, whatever is called meanwhile.            *)
HoldsCourse ==
    Travelling(elevator) =>
        \/ /\ Travelling(elevator')
           /\ elevator'.target = elevator.target
           /\ elevator'.direction = elevator.direction
           /\ Distance(elevator') <= Distance(elevator)
        \/ /\ elevator'.state = "DOORS_OPENING"
           /\ elevator'.floor = elevator.target

CourseIsHeld == [][HoldsCourse]_vars

(* First come, first served: a floor leaves the queue only from its head,   *)
(* and then it is the new target.                                           *)
ServesInOrder ==
    \/ IsPrefix(elevator.queue, elevator'.queue)
    \/ /\ IsPrefix(Tail(elevator.queue), elevator'.queue)
       /\ elevator'.target = Head(elevator.queue)

FirstComeFirstServed == [][ServesInOrder]_vars

(* The object is a cab as a passenger sees it.                              *)
Destination == IF Travelling(elevator) THEN elevator.target ELSE NoFloor

Doors == IF elevator.state = "DOORS_OPENING" THEN "open" ELSE "closed"

Cab == INSTANCE ElevatorCab WITH
           position <- elevator.floor, destination <- Destination, doors <- Doors

(* Every step of the aggregate is a step of the cab, or none.  Not that the *)
(* cab keeps moving: nothing in the program calls moveOneFloor.             *)
ImplementsCab == Cab!Safety

-----------------------------------------------------------------------------
(* README "Calls an elevator from any floor to any other floor": a floor    *)
(* asked for is reached.  The code does not keep this, even if somebody     *)
(* moves the object on.                                                     *)
QueuedFloorIsReached ==
    \A f \in Floor : f \in Range(elevator.queue) ~> elevator.floor = f
=============================================================================
