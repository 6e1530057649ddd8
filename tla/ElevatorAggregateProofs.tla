---------------------- MODULE ElevatorAggregateProofs -----------------------
(***************************************************************************)
(* Theorems about ElevatorAggregate: an inductive invariant, the action    *)
(* properties that follow from it, and the refinement of ElevatorCab.      *)
(***************************************************************************)
EXTENDS ElevatorAggregate, ElevatorDomainProofs

-----------------------------------------------------------------------------
(* The inductive invariant: the floor stays in the building (TypeOK) only   *)
(* because a travelling elevator heads for a target that is a floor, and it *)
(* keeps doing so only because no timer can set it IDLE on the way.         *)
IInv ==
    /\ TypeOK
    /\ HeadsForTarget
    /\ TimerGuardsDoors
    /\ StrandedOnlyAtOwnFloor
    /\ NoFloorQueuedTwice

LEMMA InitInv == Init => IInv
<1> SUFFICES ASSUME Init PROVE IInv
  OBVIOUS
<1>1. PICK f \in Floor, s \in State : elevator = Rehydrated(f, s)
  BY StoredStatesAssumption DEF Init, Created, State
<1>2. elevator \in Aggregate
  BY <1>1 DEF Rehydrated, Aggregate, Direction
<1>3. elevator.queue = <<>> /\ elevator.target = NoFloor
  BY <1>1 DEF Rehydrated
<1>4. TypeOK
  BY <1>2 DEF Init, TypeOK
<1>5. QED
  BY <1>3, <1>4 DEF Init, IInv, HeadsForTarget, Travelling, TimerGuardsDoors,
     StrandedOnlyAtOwnFloor, NoFloorQueuedTwice, IsInjective

LEMMA InvParts ==
    ASSUME TypeOK
    PROVE  IInv <=> /\ HeadsFor(elevator)
                    /\ StrandedOk(elevator)
                    /\ TimerGuardsDoors
                    /\ IsInjective(elevator.queue)
BY DEF IInv, HeadsForTarget, HeadsFor, StrandedOnlyAtOwnFloor, StrandedOk, NoFloorQueuedTwice

LEMMA InvPartsNext ==
    ASSUME TypeOK'
    PROVE  IInv' <=> /\ HeadsFor(elevator')
                     /\ StrandedOk(elevator')
                     /\ TimerGuardsDoors'
                     /\ IsInjective(elevator'.queue)
BY DEF IInv, HeadsForTarget, HeadsFor, StrandedOnlyAtOwnFloor, StrandedOk,
   NoFloorQueuedTwice, Travelling

LEMMA NextInv == IInv /\ [Next]_vars => IInv'
<1> SUFFICES ASSUME IInv, [Next]_vars PROVE IInv'
  OBVIOUS
<1>1. /\ elevator \in Aggregate /\ doorTimers \in Nat
      /\ committed \in Seq(Event) /\ calls \in Nat
  BY DEF IInv, TypeOK
<1>2. /\ HeadsFor(elevator) /\ StrandedOk(elevator)
      /\ TimerGuardsDoors /\ IsInjective(elevator.queue)
  BY InvParts DEF IInv
<1>3. ASSUME NEW from \in Floor, NEW to \in Floor, Call(from, to) PROVE IInv'
  <2>1. elevator' = WithCall(elevator, from, to) /\ doorTimers' = doorTimers
    BY <1>3 DEF Call
  <2>2. TypeOK'
    BY <1>1, <1>2, <1>3, <2>1, CallInv DEF Call, TypeOK
  <2>3. TimerGuardsDoors'
    <3>1. CASE elevator.state = "IDLE"
      BY <1>1, <1>2, <2>1, <3>1 DEF TimerGuardsDoors
    <3>2. CASE elevator.state # "IDLE"
      <4>1. elevator' = [elevator EXCEPT
                !.queue  = Enqueued(Enqueued(elevator.queue, from), to),
                !.events = Append(elevator.events, CalledEvent(from, to))]
        BY <1>1, <1>2, <2>1, <3>2, CallKeeps
      <4>2. elevator'.state = elevator.state
        BY <1>1, <4>1 DEF Aggregate
      <4>3. QED BY <1>2, <2>1, <4>2 DEF TimerGuardsDoors
    <3>3. QED BY <3>1, <3>2
  <2>4. QED BY <1>1, <1>2, <2>1, <2>2, <2>3, CallInv, InvPartsNext
<1>4. CASE MoveOneFloor
  <2>1. Travelling(elevator) /\ elevator' = WithOneFloor(elevator)
    BY <1>4 DEF MoveOneFloor
  <2>2. TypeOK'
    BY <1>1, <1>2, <1>4, <2>1, OneFloorInv DEF MoveOneFloor, TypeOK
  <2>3. doorTimers = 0
    BY <1>1, <1>2, <2>1 DEF Travelling, TimerGuardsDoors
  <2>4. TimerGuardsDoors'
    BY <1>1, <1>2, <1>4, <2>1, <2>3, OneFloorInv DEF MoveOneFloor, TimerGuardsDoors
  <2>5. elevator'.state # "IDLE"
    BY <1>1, <1>2, <2>1, OneFloorInv
  <2>6. QED BY <1>1, <1>2, <2>1, <2>2, <2>4, <2>5, OneFloorInv, InvPartsNext DEF StrandedOk
<1>5. CASE DoorTimer
  <2>1. /\ elevator' = WithDoorsTimedOut(elevator)
        /\ doorTimers' = 0
    BY <1>1, <1>2, <1>5 DEF DoorTimer, TimerGuardsDoors
  <2>2. TypeOK'
    BY <1>1, <1>2, <1>5, <2>1, DoorsTimedOutInv DEF DoorTimer, TypeOK
  <2>3. TimerGuardsDoors'
    BY <2>1 DEF TimerGuardsDoors
  <2>4. QED BY <1>1, <1>2, <2>1, <2>2, <2>3, DoorsTimedOutInv, InvPartsNext
<1>6. CASE MarkEventsAsCommitted
  <2>1. /\ elevator' = [elevator EXCEPT !.events = <<>>]
        /\ committed' = committed \o elevator.events
        /\ UNCHANGED <<doorTimers, calls>>
    BY <1>6 DEF MarkEventsAsCommitted, WithEventsCommitted
  <2>2. elevator' \in Aggregate /\ elevator'.queue = elevator.queue
    <3>1. <<>> \in Seq(Event)
      OBVIOUS
    <3>2. QED BY <1>1, <2>1, <3>1 DEF Aggregate
  <2>3. committed' \in Seq(Event)
    BY <1>1, <2>1 DEF Aggregate
  <2>4. TypeOK'
    BY <1>1, <2>1, <2>2, <2>3 DEF TypeOK
  <2>5. HeadsFor(elevator') /\ StrandedOk(elevator') /\ TimerGuardsDoors'
    BY <1>1, <1>2, <2>1 DEF Aggregate, HeadsFor, Travelling, StrandedOk, TimerGuardsDoors
  <2>6. QED BY <1>2, <2>2, <2>4, <2>5, InvPartsNext
<1>7. CASE UNCHANGED vars
  <2>1. TypeOK' /\ TimerGuardsDoors'
    BY <1>1, <1>2, <1>7 DEF vars, TypeOK, TimerGuardsDoors
  <2>2. QED BY <1>2, <1>7, <2>1, InvPartsNext DEF vars
<1>8. QED BY <1>3, <1>4, <1>5, <1>6, <1>7 DEF Next

(* The elevator object stays well-formed, its floor inside the building, in *)
(* every order of calls, moves, timers and commits.                         *)
THEOREM TypeCorrect == Spec => []TypeOK
<1>1. Spec => []IInv
  BY InitInv, NextInv, PTL DEF Spec
<1>2. IInv => TypeOK
  BY DEF IInv
<1>3. QED BY <1>1, <1>2, PTL

(* A travelling elevator always heads for its target.                       *)
THEOREM TargetSafe == Spec => []HeadsForTarget
<1>1. Spec => []IInv
  BY InitInv, NextInv, PTL DEF Spec
<1>2. IInv => HeadsForTarget
  BY DEF IInv
<1>3. QED BY <1>1, <1>2, PTL

(* The door timer never fires into a moving elevator, and never two at once. *)
THEOREM TimerSafe == Spec => []TimerGuardsDoors
<1>1. Spec => []IInv
  BY InitInv, NextInv, PTL DEF Spec
<1>2. IInv => TimerGuardsDoors
  BY DEF IInv
<1>3. QED BY <1>1, <1>2, PTL

(* An idle elevator has requests queued only when it was called to the      *)
(* floor it stands on.                                                      *)
THEOREM QueueSafe == Spec => []StrandedOnlyAtOwnFloor
<1>1. Spec => []IInv
  BY InitInv, NextInv, PTL DEF Spec
<1>2. IInv => StrandedOnlyAtOwnFloor
  BY DEF IInv
<1>3. QED BY <1>1, <1>2, PTL

(* No floor is queued twice, whatever calls are merged into the queue.      *)
THEOREM QueueDistinct == Spec => []NoFloorQueuedTwice
<1>1. Spec => []IInv
  BY InitInv, NextInv, PTL DEF Spec
<1>2. IInv => NoFloorQueuedTwice
  BY DEF IInv
<1>3. QED BY <1>1, <1>2, PTL

LEMMA DistanceAfter ==
    ASSUME NEW a \in Aggregate, Travelling(a), HeadsFor(a), FloorAfter(a) # a.target,
           NEW b, b.floor = FloorAfter(a), b.target = a.target
    PROVE  Distance(b) <= Distance(a)
<1>1. /\ a.floor \in Int /\ a.target \in Int /\ a.target # a.floor
      /\ a.direction = DirectionTo(a.floor, a.target)
  BY DEF Aggregate, HeadsFor, Travelling, Floor
<1>2. FloorAfter(a) = IF a.target > a.floor THEN a.floor + 1 ELSE a.floor - 1
  BY <1>1 DEF FloorAfter, DirectionTo
<1>3. QED BY <1>1, <1>2 DEF Distance

LEMMA CourseStep == IInv /\ [Next]_vars => [HoldsCourse]_vars
<1> SUFFICES ASSUME IInv, Next, Travelling(elevator) PROVE HoldsCourse
  BY DEF HoldsCourse
<1>1. /\ elevator \in Aggregate /\ HeadsFor(elevator) /\ TimerGuardsDoors
      /\ IsInjective(elevator.queue) /\ doorTimers \in Nat
  BY InvParts DEF IInv, TypeOK
<1>2. elevator.state = "MOVING" /\ elevator.target \in Int /\ elevator.floor \in Int
  BY <1>1 DEF Travelling, Aggregate, Floor
<1>3. ASSUME /\ elevator'.floor = elevator.floor /\ elevator'.state = elevator.state
             /\ elevator'.target = elevator.target
             /\ elevator'.direction = elevator.direction
      PROVE  HoldsCourse
  BY <1>2, <1>3 DEF HoldsCourse, Travelling, Distance
<1>4. ASSUME NEW from \in Floor, NEW to \in Floor, Call(from, to) PROVE HoldsCourse
  <2>1. elevator' = WithCall(elevator, from, to)
    BY <1>4 DEF Call
  <2>2. QED BY <1>1, <1>2, <1>3, <2>1, CallStep
<1>5. CASE MoveOneFloor
  <2>1. elevator' = WithOneFloor(elevator)
    BY <1>5 DEF MoveOneFloor
  <2>2. CASE FloorAfter(elevator) = elevator.target
    BY <1>1, <2>1, <2>2, OneFloorInv DEF HoldsCourse
  <2>3. CASE FloorAfter(elevator) # elevator.target
    <3>1. /\ elevator'.state = "MOVING" /\ elevator'.target = elevator.target
          /\ elevator'.direction = elevator.direction
          /\ elevator'.floor = FloorAfter(elevator)
      BY <1>1, <2>1, <2>3, OneFloorInv
    <3>2. Distance(elevator') <= Distance(elevator)
      BY <1>1, <2>3, <3>1, DistanceAfter
    <3>3. QED BY <3>1, <3>2 DEF HoldsCourse, Travelling
  <2>4. QED BY <2>2, <2>3
<1>6. CASE DoorTimer
  BY <1>1, <1>2, <1>6 DEF DoorTimer, TimerGuardsDoors
<1>7. CASE MarkEventsAsCommitted
  <2>1. elevator' = WithEventsCommitted(elevator)
    BY <1>7 DEF MarkEventsAsCommitted
  <2>2. QED BY <1>1, <1>3, <2>1, CommitStep
<1>8. QED BY <1>4, <1>5, <1>6, <1>7 DEF Next

(* No call, timer or commit turns a travelling elevator from its course.    *)
THEOREM CourseHeld == Spec => CourseIsHeld
<1>1. Spec => []IInv
  BY InitInv, NextInv, PTL DEF Spec
<1>2. QED BY <1>1, CourseStep, PTL DEF Spec, CourseIsHeld

LEMMA PrefixRefl ==
    ASSUME NEW q \in Seq(Floor)
    PROVE  IsPrefix(q, q)
BY DEF IsPrefix

LEMMA EnqueuedPrefix ==
    ASSUME NEW q \in Seq(Floor), NEW f \in Floor, NEW p \in Seq(Floor), IsPrefix(p, q)
    PROVE  IsPrefix(p, Enqueued(q, f))
<1>1. Len(p) <= Len(Append(q, f))
  BY DEF IsPrefix
<1>2. SubSeq(Append(q, f), 1, Len(p)) = SubSeq(q, 1, Len(p))
  BY DEF IsPrefix
<1>3. QED BY <1>1, <1>2 DEF IsPrefix, Enqueued

LEMMA TailPrefix ==
    ASSUME NEW p \in Seq(Floor), NEW q \in Seq(Floor), IsPrefix(p, q), p # <<>>
    PROVE  IsPrefix(Tail(p), Tail(q)) /\ Head(p) = Head(q)
<1>1. \A i \in 1 .. Len(p) : p[i] = q[i]
  BY DEF IsPrefix
<1>2. Len(p) <= Len(q) /\ Len(p) > 0
  BY DEF IsPrefix
<1>3. QED BY <1>1, <1>2 DEF IsPrefix

LEMMA OrderStep == IInv /\ [Next]_vars => [ServesInOrder]_vars
<1> SUFFICES ASSUME IInv, Next PROVE ServesInOrder
  OBVIOUS
<1>1. /\ elevator \in Aggregate /\ HeadsFor(elevator) /\ TimerGuardsDoors
      /\ IsInjective(elevator.queue) /\ elevator.queue \in Seq(Floor)
  BY InvParts DEF IInv, TypeOK, Aggregate
<1>2. ASSUME elevator'.queue = elevator.queue PROVE ServesInOrder
  BY <1>1, <1>2, PrefixRefl DEF ServesInOrder
<1>3. ASSUME NEW from \in Floor, NEW to \in Floor, Call(from, to) PROVE ServesInOrder
  <2> DEFINE q == Enqueued(Enqueued(elevator.queue, from), to)
  <2>1. elevator' = WithCall(elevator, from, to)
    BY <1>3 DEF Call
  <2>2. q \in Seq(Floor) /\ IsPrefix(elevator.queue, q)
    BY <1>1, EnqueuedType, PrefixRefl, EnqueuedPrefix
  <2>3. \/ elevator'.queue = q
        \/ q # <<>> /\ elevator'.queue = Tail(q) /\ elevator'.target = Head(q)
    BY <1>1, <2>1, CallStep
  <2> HIDE DEF q
  <2>4. CASE elevator'.queue = q
    BY <2>2, <2>4 DEF ServesInOrder
  <2>5. CASE q # <<>> /\ elevator'.queue = Tail(q) /\ elevator'.target = Head(q)
    <3>1. CASE elevator.queue = <<>>
      <4>1. Tail(q) \in Seq(Floor)
        BY <2>2, <2>5
      <4>2. IsPrefix(<<>>, Tail(q))
        BY <4>1 DEF IsPrefix
      <4>3. QED BY <2>5, <3>1, <4>2 DEF ServesInOrder
    <3>2. CASE elevator.queue # <<>>
      BY <1>1, <2>2, <2>5, <3>2, TailPrefix DEF ServesInOrder
    <3>3. QED BY <3>1, <3>2
  <2>6. QED BY <2>3, <2>4, <2>5
<1>4. CASE MoveOneFloor
  BY <1>1, <1>2, <1>4, OneFloorInv DEF MoveOneFloor
<1>5. CASE DoorTimer
  <2>1. elevator' = WithDoorsTimedOut(elevator)
    BY <1>5 DEF DoorTimer
  <2>2. \/ elevator'.queue = elevator.queue
        \/ /\ elevator.queue # <<>> /\ elevator'.queue = Tail(elevator.queue)
           /\ elevator'.target = Head(elevator.queue)
    BY <1>1, <2>1, DoorsTimedOutStep
  <2>3. elevator.queue # <<>> => Tail(elevator.queue) \in Seq(Floor)
    BY <1>1
  <2>4. QED BY <1>2, <2>2, <2>3, PrefixRefl DEF ServesInOrder
<1>6. CASE MarkEventsAsCommitted
  BY <1>1, <1>2, <1>6, CommitStep DEF MarkEventsAsCommitted
<1>7. QED BY <1>3, <1>4, <1>5, <1>6 DEF Next

(* Floors leave the queue in the order they were asked for.                 *)
THEOREM ServedInOrder == Spec => FirstComeFirstServed
<1>1. Spec => []IInv
  BY InitInv, NextInv, PTL DEF Spec
<1>2. QED BY <1>1, OrderStep, PTL DEF Spec, FirstComeFirstServed

-----------------------------------------------------------------------------
(* The journal.  An event that is not a leg leaves a log as it was; one that *)
(* follows from what the object is doing extends it.                        *)
IsLeg(e) == e.type \in {"Moving", "Arrived"}

Tells(log, a) == LegsFollow(log) /\ LastLegSays(log, a)

LEMMA LegsAppend ==
    ASSUME NEW log \in Seq(Event), NEW m \in Event
    PROVE  /\ \A i \in DOMAIN log : Append(log, m)[i] = log[i]
           /\ Append(log, m)[Len(log) + 1] = m
           /\ DOMAIN log = 1 .. Len(log)
           /\ Legs(Append(log, m)) = IF IsLeg(m) THEN Legs(log) \cup {Len(log) + 1} ELSE Legs(log)
           /\ Legs(log) \subseteq 1 .. Len(log)
<1> DEFINE n == Len(log) + 1
           long == Append(log, m)
<1>1. n \in Nat \ {0} /\ DOMAIN log = 1 .. n - 1 /\ DOMAIN long = 1 .. n
  OBVIOUS
<1>2. \A i \in 1 .. n - 1 : long[i] = log[i]
  OBVIOUS
<1>3. long[n] = m
  OBVIOUS
<1> HIDE DEF long
<1>4. ASSUME NEW i PROVE i \in Legs(long) <=> i \in Legs(log) \/ (i = n /\ IsLeg(m))
  <2>1. i \in 1 .. n <=> i \in 1 .. n - 1 \/ i = n
    BY <1>1
  <2>2. n \notin 1 .. n - 1
    BY <1>1
  <2>3. i \in Legs(log) <=> i \in 1 .. n - 1 /\ log[i].type \in {"Moving", "Arrived"}
    BY <1>1 DEF Legs
  <2>4. i \in Legs(long) <=> i \in 1 .. n /\ long[i].type \in {"Moving", "Arrived"}
    BY <1>1 DEF Legs
  <2>5. CASE i = n
    BY <1>3, <2>1, <2>2, <2>3, <2>4, <2>5 DEF IsLeg
  <2>6. CASE i # n
    BY <1>2, <2>1, <2>3, <2>4, <2>6
  <2>7. QED BY <2>5, <2>6
<1>5. Legs(log) \subseteq 1 .. n - 1
  BY <1>1 DEF Legs
<1>6. Legs(long) = IF IsLeg(m) THEN Legs(log) \cup {n} ELSE Legs(log)
  <2>1. CASE IsLeg(m)
    BY <1>4, <2>1
  <2>2. CASE ~IsLeg(m)
    BY <1>4, <2>2
  <2>3. QED BY <2>1, <2>2
<1> HIDE DEF n
<1>7. QED BY <1>1, <1>2, <1>3, <1>5, <1>6 DEF long, n

LEMMA TellsSame ==
    ASSUME NEW log, NEW a, NEW b, Tells(log, a),
           b.floor = a.floor, Travelling(b) <=> Travelling(a),
           Travelling(a) => b.target = a.target /\ b.direction = a.direction
    PROVE  Tells(log, b)
BY DEF Tells, LastLegSays, Says

LEMMA TellsSilent ==
    ASSUME NEW log \in Seq(Event), NEW m \in Event, ~IsLeg(m), NEW a, Tells(log, a)
    PROVE  Tells(Append(log, m), a)
<1> DEFINE long == Append(log, m)
<1>1. /\ \A i \in Legs(log) : long[i] = log[i]
      /\ Legs(long) = Legs(log)
  BY LegsAppend
<1> HIDE DEF long
<1>2. LegsFollow(long)
  BY <1>1 DEF Tells, LegsFollow
<1>3. LastLegSays(long, a)
  BY <1>1 DEF Tells, LastLegSays
<1>4. QED BY <1>2, <1>3 DEF Tells, long

LEMMA TellsLeg ==
    ASSUME NEW log \in Seq(Event), NEW m \in Event, IsLeg(m), NEW a, NEW b, Tells(log, a),
           \A e \in Event : Says(e, a) => Follows(e, m),
           Says(m, b)
    PROVE  Tells(Append(log, m), b)
<1> DEFINE n == Len(log) + 1
           long == Append(log, m)
<1>1. /\ \A i \in Legs(log) : long[i] = log[i] /\ log[i] \in Event
      /\ long[n] = m
      /\ Legs(long) = Legs(log) \cup {n}
      /\ Legs(log) \subseteq 1 .. n - 1
      /\ n \in Nat
  BY LegsAppend
<1> HIDE DEF long, n
<1>2. LegsFollow(long)
  <2> SUFFICES ASSUME NEW i \in Legs(long), NEW j \in Legs(long), i < j,
                      \A k \in Legs(long) : k <= i \/ j <= k
               PROVE  Follows(long[i], long[j])
    BY DEF LegsFollow
  <2>1. i \in Legs(log)
    BY <1>1
  <2>2. CASE j \in Legs(log)
    BY <1>1, <2>1, <2>2 DEF Tells, LegsFollow
  <2>3. CASE j = n
    <3>1. \A k \in Legs(log) : k <= i
      BY <1>1, <2>3
    <3>2. Says(log[i], a)
      BY <2>1, <3>1 DEF Tells, LastLegSays
    <3>3. Follows(log[i], m)
      BY <1>1, <2>1, <3>2
    <3>4. QED BY <1>1, <2>1, <2>3, <3>3
  <2>4. QED BY <1>1, <2>2, <2>3
<1>3. LastLegSays(long, b)
  <2> SUFFICES ASSUME NEW i \in Legs(long), \A k \in Legs(long) : k <= i
               PROVE  Says(long[i], b)
    BY DEF LastLegSays
  <2>1. i = n
    BY <1>1
  <2>2. QED BY <1>1, <2>1
<1>4. QED BY <1>2, <1>3 DEF Tells, long

LEMMA ConcatAppend ==
    ASSUME NEW s \in Seq(Event), NEW es \in Seq(Event), NEW m \in Event
    PROVE  s \o Append(es, m) = Append(s \o es, m)
OBVIOUS

LEMMA NextRequestTells ==
    ASSUME NEW s \in Seq(Event), NEW a \in Aggregate, Tells(s \o a.events, a),
           NEW b, b = WithNextRequest(a)
    PROVE  Tells(s \o b.events, b)
<1>1. CASE a.state # "IDLE" \/ a.queue = <<>>
  BY <1>1, NextRequestKeeps
<1>2. CASE a.state = "IDLE" /\ a.queue # <<>>
  <2> DEFINE f == Head(a.queue)
             m == MovingEvent(a.floor, f, DirectionTo(a.floor, f))
  <2>1. /\ f \in Floor /\ b.floor = a.floor /\ b.target = f
        /\ b.direction = DirectionTo(a.floor, f)
        /\ b.state = IF f = a.floor THEN "IDLE" ELSE "MOVING"
        /\ b.events = IF f = a.floor THEN a.events ELSE Append(a.events, m)
    BY <1>2, NextRequestTakes
  <2>2. a.floor \in Floor /\ a.events \in Seq(Event) /\ ~Travelling(a)
    BY <1>2 DEF Aggregate, Travelling
  <2>3. m \in Event /\ m.type = "Moving" /\ m.from = a.floor /\ m.to = f
        /\ m.direction = DirectionTo(a.floor, f)
    BY <2>1, <2>2, DirectionType DEF MovingEvent, Event
  <2> HIDE DEF m, f
  <2>4. CASE f = a.floor
    <3>1. b.state = "IDLE" /\ b.events = a.events
      BY <2>1, <2>4
    <3>2. ~Travelling(b)
      BY <3>1 DEF Travelling
    <3>3. QED BY <2>1, <2>2, <3>1, <3>2, TellsSame
  <2>5. CASE f # a.floor
    <3>1. b.state = "MOVING" /\ b.events = Append(a.events, m)
      BY <2>1, <2>5
    <3>2. Travelling(b)
      BY <2>1, <3>1, NoFloorAssumption DEF Travelling, Floor
    <3>3. Says(m, b)
      BY <2>1, <2>3, <3>2 DEF Says
    <3>4. \A e \in Event : Says(e, a) => Follows(e, m)
      BY <2>2, <2>3 DEF Says, Follows
    <3>5. IsLeg(m)
      BY <2>3 DEF IsLeg
    <3>6. s \o a.events \in Seq(Event) /\ s \o b.events = Append(s \o a.events, m)
      BY <2>2, <2>3, <3>1, ConcatAppend
    <3>7. QED BY <2>3, <3>3, <3>4, <3>5, <3>6, TellsLeg
  <2>6. QED BY <2>4, <2>5
<1>3. QED BY <1>1, <1>2

LEMMA JournalStep == IInv /\ JournalTellsTheJourney /\ [Next]_vars => JournalTellsTheJourney'
<1> SUFFICES ASSUME IInv, JournalTellsTheJourney, [Next]_vars PROVE JournalTellsTheJourney'
  OBVIOUS
<1>1. /\ elevator \in Aggregate /\ HeadsFor(elevator) /\ TimerGuardsDoors
      /\ IsInjective(elevator.queue) /\ committed \in Seq(Event) /\ doorTimers \in Nat
  BY InvParts DEF IInv, TypeOK
<1>2. elevator.events \in Seq(Event) /\ Journal \in Seq(Event)
  BY <1>1 DEF Aggregate, Journal
<1>3. Tells(Journal, elevator)
  BY DEF Tells, JournalTellsTheJourney
<1>4. ASSUME Tells(Journal', elevator') PROVE JournalTellsTheJourney'
  BY <1>4 DEF Tells, JournalTellsTheJourney
<1>5. ASSUME NEW from \in Floor, NEW to \in Floor, Call(from, to)
      PROVE  JournalTellsTheJourney'
  <2> DEFINE m == CalledEvent(from, to)
             q == Enqueued(Enqueued(elevator.queue, from), to)
             es == Append(elevator.events, m)
             c == [elevator EXCEPT !.queue = q, !.events = es]
  <2>1. elevator' = WithNextRequest(c) /\ committed' = committed
    BY <1>1, <1>5 DEF Call, WithCall, Aggregate
  <2>2. m \in Event /\ ~IsLeg(m)
    BY DEF CalledEvent, Event, IsLeg
  <2>3. q \in Seq(Floor)
    BY <1>1, EnqueuedType DEF Aggregate
  <2>4. es \in Seq(Event) /\ committed \o es = Append(Journal, m)
    BY <1>1, <1>2, <2>2, ConcatAppend DEF Journal
  <2> HIDE DEF es, m, q
  <2>5. /\ c \in Aggregate /\ c.floor = elevator.floor /\ c.state = elevator.state
        /\ c.target = elevator.target /\ c.direction = elevator.direction /\ c.events = es
    BY <1>1, <2>3, <2>4 DEF Aggregate
  <2> HIDE DEF c
  <2>6. Tells(committed \o c.events, elevator)
    BY <1>2, <1>3, <2>2, <2>4, <2>5, TellsSilent
  <2>7. Tells(committed \o c.events, c)
    BY <2>5, <2>6, TellsSame DEF Travelling
  <2>8. Tells(committed \o elevator'.events, elevator')
    BY <1>1, <2>1, <2>5, <2>7, NextRequestTells
  <2>9. QED BY <1>4, <2>1, <2>8 DEF Journal
<1>6. CASE MoveOneFloor
  <2> DEFINE m == ArrivedEvent(elevator.target)
  <2>1. /\ Travelling(elevator) /\ elevator' = WithOneFloor(elevator)
        /\ committed' = committed
    BY <1>6 DEF MoveOneFloor
  <2>2. elevator.target \in Floor
    BY <1>1, <2>1 DEF Travelling, Aggregate
  <2>3. CASE FloorAfter(elevator) = elevator.target
    <3>1. elevator'.events = Append(elevator.events, m)
      BY <1>1, <2>1, <2>3 DEF WithOneFloor, Aggregate
    <3>2. elevator'.state = "DOORS_OPENING" /\ elevator'.floor = elevator.target
      BY <1>1, <2>1, <2>3, OneFloorInv
    <3>3. m \in Event /\ m.type = "Arrived" /\ m.floor = elevator.target
      BY <2>2 DEF ArrivedEvent, Event
    <3> HIDE DEF m
    <3>4. Says(m, elevator') /\ IsLeg(m)
      BY <3>2, <3>3 DEF Says, IsLeg, Travelling
    <3>5. \A e \in Event : Says(e, elevator) => Follows(e, m)
      BY <2>1, <3>3 DEF Says, Follows
    <3>6. Journal' = Append(Journal, m)
      BY <1>1, <1>2, <2>1, <3>1, <3>3, ConcatAppend DEF Journal
    <3>7. Tells(Append(Journal, m), elevator')
      BY <1>2, <1>3, <3>3, <3>4, <3>5, TellsLeg
    <3>8. QED BY <1>4, <3>6, <3>7
  <2>4. CASE FloorAfter(elevator) # elevator.target
    <3>1. /\ elevator'.state = "MOVING" /\ elevator'.target = elevator.target
          /\ elevator'.direction = elevator.direction
      BY <1>1, <2>1, <2>4, OneFloorInv
    <3>2. elevator'.events = elevator.events
      BY <1>1, <2>1, <2>4 DEF WithOneFloor, Aggregate
    <3>3. LastLegSays(Journal, elevator')
      BY <1>3, <2>1, <3>1 DEF Tells, LastLegSays, Says, Travelling
    <3>4. Journal' = Journal
      BY <2>1, <3>2 DEF Journal
    <3>5. QED BY <1>3, <1>4, <3>3, <3>4 DEF Tells
  <2>5. QED BY <2>3, <2>4
<1>7. CASE DoorTimer
  <2> DEFINE c == [elevator EXCEPT !.state = "IDLE"]
  <2>1. /\ elevator' = WithNextRequest(c) /\ committed' = committed
        /\ elevator.state = "DOORS_OPENING"
    BY <1>1, <1>7 DEF DoorTimer, WithDoorsTimedOut, TimerGuardsDoors
  <2>2. /\ c \in Aggregate /\ c.floor = elevator.floor /\ c.events = elevator.events
        /\ ~Travelling(c) /\ ~Travelling(elevator)
    BY <1>1, <2>1 DEF Aggregate, State, Travelling
  <2> HIDE DEF c
  <2>3. Tells(committed \o c.events, c)
    BY <1>3, <2>2, TellsSame DEF Journal
  <2>4. Tells(committed \o elevator'.events, elevator')
    BY <1>1, <2>1, <2>2, <2>3, NextRequestTells
  <2>5. QED BY <1>4, <2>1, <2>4 DEF Journal
<1>8. CASE MarkEventsAsCommitted
  <2>1. elevator' = WithEventsCommitted(elevator) /\ committed' = Journal
    BY <1>8 DEF MarkEventsAsCommitted, Journal
  <2>2. elevator'.events = <<>>
    BY <1>1, <2>1 DEF WithEventsCommitted, Aggregate
  <2>3. Journal' = Journal
    <3>1. Journal \o <<>> = Journal
      BY <1>2
    <3>2. Journal' = committed' \o elevator'.events
      BY DEF Journal
    <3>3. QED BY <2>1, <2>2, <3>1, <3>2
  <2>4. Tells(Journal, elevator')
    BY <1>1, <1>3, <2>1, CommitStep, TellsSame DEF Travelling
  <2>5. QED BY <1>4, <2>3, <2>4
<1>9. CASE UNCHANGED vars
  BY <1>9 DEF vars, JournalTellsTheJourney, Journal
<1>10. QED BY <1>5, <1>6, <1>7, <1>8, <1>9 DEF Next

LEMMA JournalInit == Init => JournalTellsTheJourney
<1> SUFFICES ASSUME Init PROVE JournalTellsTheJourney
  OBVIOUS
<1>1. PICK f \in Floor, s \in State : elevator = Rehydrated(f, s)
  BY StoredStatesAssumption DEF Init, Created, State
<1>2. Journal = <<>>
  BY <1>1 DEF Init, Journal, Rehydrated
<1>3. Legs(Journal) = {}
  BY <1>2 DEF Legs
<1>4. QED BY <1>3 DEF JournalTellsTheJourney, LegsFollow, LastLegSays

(* Whatever calls, moves, timers and commits come between, the log reads as *)
(* one journey, up to what the elevator does now.                           *)
THEOREM JournalTold == Spec => []JournalTellsTheJourney
<1>1. Spec => []IInv
  BY InitInv, NextInv, PTL DEF Spec
<1>2. QED BY <1>1, JournalInit, JournalStep, PTL DEF Spec

-----------------------------------------------------------------------------
(* Every step of the aggregate is a step of the cab or leaves it alone.     *)
LEMMA CabInit == Init => Cab!Init
<1> SUFFICES ASSUME Init PROVE Cab!Init
  OBVIOUS
<1>1. PICK f \in Floor, s \in State : elevator = Rehydrated(f, s)
  BY StoredStatesAssumption DEF Init, Created, State
<1>2. elevator.floor \in Floor /\ elevator.target = NoFloor
  BY <1>1 DEF Rehydrated
<1>3. QED BY <1>2 DEF Cab!Init, Cab!CabFloor, Floor, Destination, Doors, Travelling

LEMMA CabStep == IInv /\ [Next]_vars => [Cab!Next]_(Cab!cabVars)
<1> SUFFICES ASSUME IInv, [Next]_vars PROVE [Cab!Next]_(Cab!cabVars)
  OBVIOUS
<1> USE DEF Cab!cabVars
<1>1. /\ elevator \in Aggregate /\ HeadsFor(elevator) /\ TimerGuardsDoors
      /\ IsInjective(elevator.queue) /\ doorTimers \in Nat
  BY InvParts DEF IInv, TypeOK
<1>2. elevator.floor \in Floor /\ elevator.target \in Floor \cup {NoFloor}
  BY <1>1 DEF Aggregate
<1>3. ASSUME /\ elevator'.floor = elevator.floor /\ elevator'.state = elevator.state
             /\ elevator'.target = elevator.target
      PROVE  UNCHANGED Cab!cabVars
  BY <1>3 DEF Destination, Doors, Travelling
<1>4. ASSUME NEW from \in Floor, NEW to \in Floor, Call(from, to)
      PROVE  [Cab!Next]_(Cab!cabVars)
  <2>1. elevator' = WithCall(elevator, from, to)
    BY <1>4 DEF Call
  <2>2. CASE elevator.state # "IDLE"
    BY <1>1, <1>3, <2>1, <2>2, CallStep
  <2>3. CASE elevator.state = "IDLE"
    <3>1. elevator'.floor = elevator.floor
      BY <1>1, <2>1, CallStep
    <3>2. CASE elevator'.state = "IDLE"
      BY <2>3, <3>1, <3>2 DEF Destination, Doors, Travelling
    <3>3. CASE /\ elevator'.state = "MOVING" /\ elevator'.target \in Floor
               /\ elevator'.target # elevator'.floor
      <4>1. Destination = NoFloor /\ Doors = "closed"
        BY <2>3 DEF Destination, Doors, Travelling
      <4>2. Destination' = elevator'.target /\ Doors' = "closed"
        BY <3>3, NoFloorAssumption DEF Destination, Doors, Travelling, Floor
      <4>3. Cab!Depart
        BY <3>1, <3>3, <4>1, <4>2 DEF Cab!Depart, Cab!OtherFloors, Cab!CabFloor, Floor
      <4>4. QED BY <4>3 DEF Cab!Next
    <3>4. QED BY <1>1, <2>1, <2>3, <3>2, <3>3, CallStep
  <2>4. QED BY <2>2, <2>3
<1>5. CASE MoveOneFloor
  <2>1. Travelling(elevator) /\ elevator' = WithOneFloor(elevator)
    BY <1>5 DEF MoveOneFloor
  <2>2. /\ elevator.floor \in Floor /\ elevator.target \in Floor
        /\ elevator.target # elevator.floor
        /\ elevator.direction = DirectionTo(elevator.floor, elevator.target)
    BY <1>1, <1>2, <2>1 DEF HeadsFor, Travelling
  <2>3. Destination = elevator.target /\ Doors = "closed" /\ Destination # NoFloor
    BY <2>1 DEF Destination, Doors, Travelling
  <2>4. FloorAfter(elevator) = Cab!Nearer(elevator.floor)
    BY <2>2, <2>3 DEF FloorAfter, DirectionTo, Cab!Nearer, Floor
  <2>5. CASE FloorAfter(elevator) = elevator.target
    <3>1. /\ elevator'.state = "DOORS_OPENING" /\ elevator'.target = NoFloor
          /\ elevator'.floor = elevator.target
      BY <1>1, <2>1, <2>5, OneFloorInv
    <3>2. Cab!Arrive
      BY <2>3, <2>4, <2>5, <3>1 DEF Cab!Arrive, Destination, Doors, Travelling
    <3>3. QED BY <3>2 DEF Cab!Next
  <2>6. CASE FloorAfter(elevator) # elevator.target
    <3>1. /\ elevator'.state = "MOVING" /\ elevator'.target = elevator.target
          /\ elevator'.floor = FloorAfter(elevator)
      BY <1>1, <2>1, <2>6, OneFloorInv
    <3>2. Destination' = Destination /\ Doors' = Doors
      BY <2>1, <3>1 DEF Destination, Doors, Travelling
    <3>3. Cab!Pass
      BY <2>3, <2>4, <2>6, <3>1, <3>2 DEF Cab!Pass
    <3>4. QED BY <3>3 DEF Cab!Next
  <2>7. QED BY <2>5, <2>6
<1>6. CASE DoorTimer
  <2>1. elevator.state = "DOORS_OPENING" /\ elevator' = WithDoorsTimedOut(elevator)
    BY <1>1, <1>6 DEF DoorTimer, TimerGuardsDoors
  <2>2. Doors = "open" /\ elevator'.floor = elevator.floor
    BY <1>1, <2>1, DoorsTimedOutStep DEF Doors
  <2>3. Doors' = "closed" /\ Destination' \in (Floor \ {elevator.floor}) \cup {NoFloor}
    BY <1>1, <2>1, <2>2, DoorsTimedOutStep DEF Doors, Destination, Travelling
  <2>4. Cab!CloseDoors
    BY <2>2, <2>3 DEF Cab!CloseDoors, Cab!OtherFloors, Cab!CabFloor, Floor
  <2>5. QED BY <2>4 DEF Cab!Next
<1>7. CASE MarkEventsAsCommitted
  <2>1. elevator' = WithEventsCommitted(elevator)
    BY <1>7 DEF MarkEventsAsCommitted
  <2>2. QED BY <1>1, <1>3, <2>1, CommitStep
<1>8. CASE UNCHANGED vars
  BY <1>3, <1>8 DEF vars
<1>9. QED BY <1>4, <1>5, <1>6, <1>7, <1>8 DEF Next

(* Every behaviour of the aggregate is, to a passenger, one of the cab: it  *)
(* commits to one floor, nears it a floor at a time, opens its doors there. *)
THEOREM AggregateIsACab == Spec => ImplementsCab
<1>1. Spec => []IInv
  BY InitInv, NextInv, PTL DEF Spec
<1>2. Spec => Cab!Safety
  BY <1>1, CabInit, CabStep, PTL DEF Spec, Cab!Safety
<1>3. QED BY <1>2 DEF ImplementsCab
=============================================================================
