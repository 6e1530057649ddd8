--------------------------- MODULE ElevatorDomain ---------------------------
(***************************************************************************)
(* The elevator aggregate as a value: what each method of ElevatorAggregate *)
(* (domain/elevator.aggregate.ts) makes of the object it is called on.     *)
(* The methods are synchronous, so each is a function from the object      *)
(* before to the object after.  ElevatorAggregate.tla lets one object live *)
(* through any order of calls; CallElevator.tla builds a short-lived one   *)
(* inside every request, as the command handlers do.                       *)
(***************************************************************************)
EXTENDS Integers, Sequences, Functions

CONSTANTS
    MaxFloor,   \* the highest floor the Floor value object accepts (100)
    NoFloor     \* the undefined / null of an absent target floor

ASSUME MaxFloorAssumption == MaxFloor \in Nat
ASSUME NoFloorAssumption  == NoFloor \notin Int

Floor == 0 .. MaxFloor

State == {"IDLE", "MOVING", "DOORS_OPENING", "DOORS_CLOSING", "MAINTENANCE"}

Direction == {"UP", "DOWN", "IDLE"}

-----------------------------------------------------------------------------
(* Domain events, with the fields that later behaviour or properties read.  *)

CalledEvent(from, to)      == [type |-> "Called", from |-> from, to |-> to]
MovingEvent(from, to, dir) == [type |-> "Moving", from |-> from, to |-> to, direction |-> dir]
ArrivedEvent(f)            == [type |-> "Arrived", floor |-> f]

Event ==
         [type : {"Called"}, from : Floor, to : Floor]
    \cup [type : {"Moving"}, from : Floor, to : Floor, direction : Direction]
    \cup [type : {"Arrived"}, floor : Floor]

Aggregate == [ floor     : Floor,
               state     : State,
               target    : Floor \cup {NoFloor},
               direction : Direction,
               queue     : Seq(Floor),
               events    : Seq(Event) ]      \* applied, not yet committed

-----------------------------------------------------------------------------
(* The constructor, as the repository calls it for a stored row: only the   *)
(* floor and the state survive; direction, target and queue are defaults.   *)
Rehydrated(f, s) == [ floor |-> f, state |-> s, target |-> NoFloor,
                      direction |-> "IDLE", queue |-> <<>>, events |-> <<>> ]

(* ElevatorAggregate.create.                                                *)
Created(f) == Rehydrated(f, "IDLE")

DirectionTo(here, there) == CASE there > here -> "UP"
                              [] there < here -> "DOWN"
                              [] OTHER        -> "IDLE"

(* Faulty variants, named FaultX, stand before what they vary; the model    *)
(* never uses them.                                                         *)

FaultNextWhileBusy(a) ==            \* the state is not looked at
    IF a.queue = <<>> THEN a
    ELSE [a EXCEPT !.queue = Tail(@), !.target = Head(a.queue), !.state = "MOVING",
                   !.direction = DirectionTo(a.floor, Head(a.queue))]

FaultNextStartsAnyway(a) ==         \* departs for the floor it stands on
    IF a.state # "IDLE" \/ a.queue = <<>> THEN a
    ELSE LET next == Head(a.queue) IN
         [a EXCEPT !.queue = Tail(@), !.target = next, !.state = "MOVING",
                   !.direction = DirectionTo(a.floor, next)]

FaultNextPops(a) ==                 \* pop() for shift()
    IF a.state # "IDLE" \/ a.queue = <<>> THEN a
    ELSE LET next == a.queue[Len(a.queue)] IN
         [a EXCEPT !.queue = SubSeq(@, 1, Len(@) - 1), !.target = next,
                   !.direction = DirectionTo(a.floor, next),
                   !.state = IF next = a.floor THEN "IDLE" ELSE "MOVING"]

(* processNextRequest.  The branch for a floor the elevator already stands  *)
(* on returns with that floor taken from the queue and still IDLE.          *)
WithNextRequest(a) ==
    IF a.state # "IDLE" \/ a.queue = <<>> THEN a
    ELSE LET next  == Head(a.queue)
             dir   == DirectionTo(a.floor, next)
             taken == [a EXCEPT !.queue = Tail(@), !.target = next, !.direction = dir]
         IN  IF dir = "IDLE" THEN taken
             ELSE [taken EXCEPT !.state  = "MOVING",
                                !.events = Append(@, MovingEvent(a.floor, next, dir))]

FaultEnqueued(q, f) == Append(q, f) \* duplicates are not looked for

Enqueued(q, f) == IF f \in Range(q) THEN q ELSE Append(q, f)

(* call, past the checks that throw before anything has changed.            *)
Accepts(a) == a.state # "MAINTENANCE"

WithCall(a, from, to) ==
    WithNextRequest([a EXCEPT !.queue  = Enqueued(Enqueued(@, from), to),
                              !.events = Append(@, CalledEvent(from, to))])

(* moveOneFloor, past its guard.                                            *)
Travelling(a) == a.state = "MOVING" /\ a.target # NoFloor

FaultFloorAfter(a) == IF a.direction = "IDLE" THEN a.floor ELSE a.floor + 1 \* never down

FloorAfter(a) == CASE a.direction = "UP"   -> a.floor + 1
                   [] a.direction = "DOWN" -> a.floor - 1
                   [] OTHER                -> a.floor

FaultSilentArrival(a) ==            \* no ElevatorArrivedEvent
    IF FloorAfter(a) = a.target
    THEN [a EXCEPT !.floor = FloorAfter(a), !.state = "DOORS_OPENING",
                   !.direction = "IDLE", !.target = NoFloor]
    ELSE [a EXCEPT !.floor = FloorAfter(a)]

WithOneFloor(a) ==
    IF FloorAfter(a) = a.target
    THEN [a EXCEPT !.floor = FloorAfter(a), !.state = "DOORS_OPENING", !.direction = "IDLE",
                   !.target = NoFloor, !.events = Append(@, ArrivedEvent(FloorAfter(a)))]
    ELSE [a EXCEPT !.floor = FloorAfter(a)]

(* The callback of the two-second timer moveOneFloor sets on arrival.       *)
FaultTimerForgetsQueue(a) == [a EXCEPT !.state = "IDLE"]

WithDoorsTimedOut(a) == WithNextRequest([a EXCEPT !.state = "IDLE"])

(* markEventsAsCommitted: AggregateRoot.commit empties the event array.     *)
WithEventsCommitted(a) == [a EXCEPT !.events = <<>>]
=============================================================================
